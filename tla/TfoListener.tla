---------------------------- MODULE TfoListener ----------------------------
(***************************************************************************)
(* src/src/listener.rs: how a TfoListener comes to be, from bind, from_std *)
(* or from_tokio, and how tasks accept from it.  The kernel's listening    *)
(* socket and tokio's TcpListener are external.                            *)
(***************************************************************************)
EXTENDS Naturals

CONSTANTS
  Tasks,     \* the tasks that call accept
  NoTask,    \* the empty waker slot
  Origins,   \* how the listener may be made: "bind", "from_std", "from_tokio"
  MaxConns   \* bound: connections the clients open

ASSUME ListenerAssumption ==
  /\ NoTask \notin Tasks /\ MaxConns \in Nat
  /\ Origins \subseteq {"bind", "from_std", "from_tokio"}

VARIABLES
  apple,     \* the target is macOS, iOS, watchOS or tvOS
  pc,        \* the next call of bind, from_std or from_tokio
  sock,      \* new | bound | listening | closed
  fastopen,  \* TCP_FASTOPEN is set on the socket
  blocking,  \* O_NONBLOCK is not set on it
  reg,       \* it is registered with tokio's driver
  refused,   \* a call failed for a reason of the system's own
  arrived,   \* connections opened so far
  backlog,   \* those not accepted yet
  edge,      \* the driver has a readiness event to deliver
  ready,     \* read readiness cached by tokio
  fresh,     \* tasks with no event since the snapshot of their poll
  slot,      \* the one waker poll_accept keeps
  woken,     \* tasks scheduled to run
  acc        \* idle | due | calling | clearing | parked

makeVars == <<apple, pc, sock, fastopen, blocking, refused>>
ioVars   == <<edge, ready, slot, woken>>
connVars == <<arrived, backlog>>
vars == <<makeVars, reg, connVars, ioVars, fresh, acc>>

TypeOK ==
  /\ {apple, fastopen, blocking, reg, refused, edge, ready} \subseteq BOOLEAN
  /\ pc \in {"options", "bind", "listen", "nonblocking", "register", "fastopen", "done", "failed"}
  /\ sock \in {"new", "bound", "listening", "closed"}
  /\ arrived \in 0..MaxConns /\ backlog \in 0..arrived
  /\ fresh \subseteq Tasks /\ woken \subseteq Tasks /\ slot \in Tasks \cup {NoTask}
  /\ acc \in [Tasks -> {"idle", "due", "calling", "clearing", "parked"}]

\* The caller has nothing, a blocking std listener or tokio's own.
Init ==
  /\ apple \in BOOLEAN
  /\ \E o \in Origins :
       /\ pc = CASE o = "bind" -> "options" [] o = "from_std" -> "nonblocking"
                 [] o = "from_tokio" -> "fastopen"
       /\ sock = IF o = "bind" THEN "new" ELSE "listening"
       /\ blocking = (o = "from_std")
       /\ reg = (o = "from_tokio")
  /\ fastopen = FALSE /\ refused = FALSE
  /\ arrived = 0 /\ backlog = 0
  /\ edge = FALSE /\ ready = FALSE /\ fresh = {} /\ slot = NoTask /\ woken = {}
  /\ acc = [t \in Tasks |-> "idle"]

-----------------------------------------------------------------------------
(* Making the listener.                                                     *)

\* A call fails and `?` drops the socket: for a reason of the system's own, or
\* because the call comes at the wrong moment.
MakeFails ==
  /\ pc' = "failed" /\ sock' = "closed"
  /\ UNCHANGED <<apple, fastopen, blocking, reg, connVars, ioVars, fresh, acc>>
Refused    == MakeFails /\ refused' = TRUE
Misordered == MakeFails /\ UNCHANGED refused

\* setsockopt(TCP_FASTOPEN): on Apple the socket must be listening.
FastOpenAllowed == apple => sock = "listening"

\* fault: the option is set before bind on every platform
OptionEverywhere == TRUE
OptionBeforeBind == ~apple

\* set_reuseaddr, then TCP_FASTOPEN, or on Apple FORCE_ENABLE, which may fail.
bind_options ==
  /\ pc = "options"
  /\ \/ /\ OptionBeforeBind => FastOpenAllowed
        /\ fastopen' = OptionBeforeBind
        /\ pc' = "bind"
        /\ UNCHANGED <<apple, sock, blocking, refused, reg, connVars, ioVars, fresh, acc>>
     \/ Refused
     \/ OptionBeforeBind /\ ~FastOpenAllowed /\ Misordered

bind_bind ==
  /\ pc = "bind"
  /\ \/ /\ sock' = "bound" /\ pc' = "listen"
        /\ UNCHANGED <<apple, fastopen, blocking, refused, reg, connVars, ioVars, fresh, acc>>
     \/ Refused

\* socket.listen registers with tokio; Apple then sets TCP_FASTOPEN.
bind_listen ==
  /\ pc = "listen"
  /\ \/ /\ sock' = "listening" /\ reg' = TRUE
        /\ pc' = IF apple THEN "fastopen" ELSE "done"
        /\ UNCHANGED <<apple, fastopen, blocking, refused, connVars, ioVars, fresh, acc>>
     \/ Refused

SkipNonblocking == UNCHANGED blocking   \* fault: the socket is left blocking
SetNonblocking  == blocking' = FALSE

from_std_nonblocking ==
  /\ pc = "nonblocking"
  /\ \/ /\ SetNonblocking /\ pc' = "register"
        /\ UNCHANGED <<apple, sock, fastopen, refused, reg, connVars, ioVars, fresh, acc>>
     \/ Refused

\* TokioTcpListener::from_std; a backlog that is there is reported at once.
from_std_register ==
  /\ pc = "register"
  /\ \/ /\ reg' = TRUE /\ edge' = (backlog > 0) /\ pc' = "fastopen"
        /\ UNCHANGED <<apple, sock, fastopen, blocking, refused, connVars, ready, slot, woken, fresh, acc>>
     \/ Refused

set_tcp_fastopen == FastOpenAllowed /\ fastopen' = TRUE

\* The last step of from_tokio, and of bind on Apple.
from_tokio ==
  /\ pc = "fastopen"
  /\ \/ /\ set_tcp_fastopen
        /\ pc' = "done"
        /\ UNCHANGED <<apple, sock, blocking, refused, reg, connVars, ioVars, fresh, acc>>
     \/ Refused
     \/ ~FastOpenAllowed /\ Misordered

Make == \/ bind_options \/ bind_bind \/ bind_listen
        \/ from_std_nonblocking \/ from_std_register \/ from_tokio

-----------------------------------------------------------------------------
(* accept: a future that calls poll_accept of tokio's listener.             *)

\* A task calls accept, or drops its accept and calls again.
accept(t) ==
  /\ pc = "done" /\ acc[t] \in {"idle", "parked"}
  /\ acc' = [acc EXCEPT ![t] = "due"]
  /\ UNCHANGED <<makeVars, reg, connVars, ioVars, fresh>>

\* An accept in progress is dropped; its waker stays where it is.
drop_accept(t) ==
  /\ acc[t] = "parked"
  /\ acc' = [acc EXCEPT ![t] = "idle"]
  /\ UNCHANGED <<makeVars, reg, connVars, ioVars, fresh>>

ForgetWaker(t) == UNCHANGED slot   \* fault: accept parks without its waker
KeepWaker(t) == slot' = t

\* The readiness tokio has cached, or park: the waker replaces the one kept.
poll_accept(t) ==
  /\ acc[t] = "due"
  /\ \/ /\ ready
        /\ acc' = [acc EXCEPT ![t] = "calling"]
        /\ fresh' = fresh \cup {t}
        /\ UNCHANGED slot
     \/ /\ ~ready
        /\ acc' = [acc EXCEPT ![t] = "parked"]
        /\ KeepWaker(t)
        /\ UNCHANGED fresh
  /\ UNCHANGED <<makeVars, reg, connVars, edge, ready, woken>>

ClearAlways(t) == ready' = FALSE   \* fault: an event come since is lost
ClearReady(t) == ready' = (ready /\ t \notin fresh)

AnythingAccepted == TRUE   \* fault: WouldBlock is taken for a connection
Accepted == backlog > 0

\* accept(2): a connection, which becomes a TfoStream; an error; or WouldBlock.
poll_accept_call(t) ==
  /\ acc[t] = "calling"
  /\ \/ /\ Accepted /\ backlog' = backlog - 1
        /\ acc' = [acc EXCEPT ![t] = "idle"]
     \/ /\ backlog > 0 /\ UNCHANGED backlog
        /\ acc' = [acc EXCEPT ![t] = "idle"]
     \/ /\ backlog = 0 /\ UNCHANGED backlog
        /\ acc' = [acc EXCEPT ![t] = "clearing"]
  /\ UNCHANGED <<makeVars, reg, arrived, ioVars, fresh>>

\* After WouldBlock the readiness is cleared, unless an event came since the
\* snapshot, and poll_accept loops.
poll_accept_clear(t) ==
  /\ acc[t] = "clearing"
  /\ ClearReady(t) /\ fresh' = fresh \ {t}
  /\ acc' = [acc EXCEPT ![t] = "due"]
  /\ UNCHANGED <<makeVars, reg, connVars, edge, slot, woken>>

Polled(t) == poll_accept(t) \/ poll_accept_call(t) \/ poll_accept_clear(t)
Accept(t) == accept(t) \/ drop_accept(t) \/ Polled(t)

-----------------------------------------------------------------------------
(* The clients, tokio's driver and its executor.                            *)

Arrive ==
  /\ sock = "listening" /\ arrived < MaxConns
  /\ arrived' = arrived + 1 /\ backlog' = backlog + 1
  /\ edge' = (edge \/ reg)
  /\ UNCHANGED <<makeVars, reg, ready, slot, woken, fresh, acc>>

Deliver ==
  /\ edge /\ edge' = FALSE
  /\ IF backlog > 0
     THEN /\ ready' = TRUE /\ fresh' = {}
          /\ woken' = woken \cup ({slot} \ {NoTask}) /\ slot' = NoTask
     ELSE UNCHANGED <<ready, fresh, woken, slot>>
  /\ UNCHANGED <<makeVars, reg, connVars, acc>>

RunTask(t) ==
  /\ t \in woken /\ woken' = woken \ {t}
  /\ acc' = [acc EXCEPT ![t] = IF @ = "parked" THEN "due" ELSE @]
  /\ UNCHANGED <<makeVars, reg, connVars, edge, ready, slot, fresh>>

\* bind or from_std failed: there is no listener.
NoListener == pc = "failed" /\ UNCHANGED vars

Next == \/ Make \/ Arrive \/ Deliver \/ NoListener
        \/ \E t \in Tasks : Accept(t) \/ RunTask(t)
Spec == Init /\ [][Next]_vars

\* A poll that began goes on, the driver turns, a woken task is polled.
Fairness ==
  /\ WF_vars(Make) /\ WF_vars(Deliver)
  /\ \A t \in Tasks : WF_vars(Polled(t)) /\ WF_vars(RunTask(t))
FairSpec == Spec /\ Fairness

-----------------------------------------------------------------------------
(* Properties.                                                              *)

\* What bind, from_std and from_tokio return listens with TFO enabled and never
\* blocks a worker thread, whichever platform's order of calls made it
\* (listener.rs:39-65, 73-85).
ListenerUsable ==
  pc = "done" => sock = "listening" /\ fastopen /\ ~blocking /\ reg

\* The listener is refused only when the system refuses a call: no platform
\* sets TCP_FASTOPEN at a moment the platform forbids (listener.rs:42-63).
OrderAllowed == pc = "failed" => refused

\* A task waiting in accept while a connection waits to be accepted has its
\* wake-up on the way, or is not the one whose waker is kept (listener.rs:88-96).
NoMissedConnection ==
  \A t \in Tasks :
    /\ acc[t] = "parked" /\ slot = t /\ backlog > 0
    => edge

\* An accept in progress gets the connection that waits (listener.rs:93-96).
AcceptCompletes ==
  \A t \in Tasks :
    acc[t] # "idle" /\ backlog > 0 ~> acc[t] = "idle" \/ backlog = 0
=============================================================================
