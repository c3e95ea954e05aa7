---------------------------- MODULE WindowsProofs ----------------------------
(* Theorems about windows/mod.rs for any number of tasks and bytes. *)
EXTENDS WindowsTfo, EventProofs

\* What the Windows stream takes from the shared arms.
SharedStep ==
  \/ poll_write \/ PassOn("Connected") \/ unreachable
  \/ ConnectFails \/ (pc = "probe" /\ ReturnConnecting)
  \/ poll_read \/ accessor \/ Use \/ Terminated \/ External \/ poll_shutdown({})

\* What it does beyond them.
WinArm ==
  \/ connect_ex \/ connect_ex_adopt
  \/ FastOpenConnecting_wait \/ WSAGetOverlappedResult \/ FastOpenConnecting_match

WinFrom == from /\ context' = TRUE /\ UNCHANGED <<ovl, given, owed>>
WinConnect == connect_with_socket /\ UNCHANGED winVars

LEMMA WinNext ==
  Next => \/ SharedStep /\ UNCHANGED winVars
          \/ WinArm \/ WinFrom \/ WinConnect \/ ConnectExEnds
  BY DEF Next, Connect, connect_bound, PollWrite, AsyncRead_poll_read, Accessors, Shutdown,
         SharedStep, WinArm, WinFrom, WinConnect

LEMMA SharedIsArm == SharedStep => ArmStep
  BY DEF SharedStep, ArmStep, WriteStep, OtherStep, States, Phases

-----------------------------------------------------------------------------
(* The inductive invariant.                                                 *)

\* Before ConnectEx is called, or when it failed at once, it owes nothing.
UncalledOK ==
  stream \in {"Absent", "Connecting"} /\ (pc # "adopt" \/ ret = "err")
    => owed = 0 /\ ovl = "none"

\* A count in hand is all that ConnectEx owes, and ConnectEx is over.
CountOK ==
  /\ pc = "adopt" /\ ret = "ok" => cnt = owed /\ ovl = "done"
  /\ pc = "match" /\ ret = "ok" => cnt = owed /\ ovl = "done" /\ context

\* A call to connect has no stream yet, ConnectEx has an unconnected one.
PlaceOK ==
  /\ pc \in {"probe", "await", "failed"} => stream = "Absent"
  /\ pc = "adopt" => stream = "Connecting"

WinInv == WinTypeOK /\ UncalledOK /\ CountOK /\ PlaceOK /\ ConnectExOnce /\ ContextUpdated

LEMMA WinInit == Init => WinInv
<1> SUFFICES ASSUME Init PROVE WinInv
  OBVIOUS
<1>1. TypeOK
  BY TypeInit DEF Init
<1>2. /\ ovl = "none" /\ given = 0 /\ owed = 0 /\ context = FALSE /\ wire = 0 /\ accepted = 0
      /\ state = "FastOpenConnect" /\ pc = "none" /\ ret = "none"
  BY DEF Init, ArmsInit, TokioInit
<1>3. WinTypeOK
  BY <1>1, <1>2 DEF WinTypeOK
<1>4. UncalledOK /\ CountOK /\ PlaceOK /\ ConnectExOnce /\ ContextUpdated
  BY <1>2 DEF UncalledOK, CountOK, PlaceOK, ConnectExOnce, ContextUpdated
<1> QED
  BY <1>3, <1>4 DEF WinInv

-----------------------------------------------------------------------------
(* Types.                                                                   *)

\* The count that is told is all that is owed, so none is negative.
LEMMA WinArmTypes == WinInv /\ WinArm => WinTypeOK'
<1> SUFFICES ASSUME WinInv, WinArm PROVE WinTypeOK'
  OBVIOUS
<1>0. /\ TokioTypeOK /\ ArmTypeOK /\ CountOK
      /\ ovl \in {"none", "pending", "done", "failed"} /\ given \in Nat /\ owed \in Nat
      /\ context \in BOOLEAN
  BY DEF WinInv, WinTypeOK, TypeOK
<1> USE DEF WinTypeOK, TypeOK, EndCall, Return, TakeError, sockVars, ioVars, execVars, userVars,
            streamVars, winVars
<1>1. CASE connect_ex
  <2>1. phase' \in Phases /\ wire' \in Nat /\ cnt' \in Nat /\ owed' \in Nat
    BY <1>0, <1>1 DEF connect_ex, Taken, TokioTypeOK, ArmTypeOK, Phases
  <2>2. ret' \in {"ok", "inprogress", "err"} /\ ovl' \in {ovl, "pending", "done"} /\ given' \in {given, buf}
    BY <1>1 DEF connect_ex
  <2>3. TokioTypeOK'
    BY <1>0, <1>1, <2>1 DEF connect_ex, TokioTypeOK
  <2>4. ArmTypeOK'
    BY <1>0, <1>1, <2>1, <2>2 DEF connect_ex, ArmTypeOK
  <2> QED
    BY <1>0, <1>1, <2>1, <2>2, <2>3, <2>4 DEF connect_ex, ArmTypeOK
<1>2. CASE connect_ex_adopt
  <2>1. CASE ret = "err" /\ Return("W") /\ EndCall /\ UNCHANGED <<sockVars, ioVars, userVars, streamVars, panicked, winVars>>
    BY <1>0, <2>1 DEF TokioTypeOK, ArmTypeOK, Futures
  <2>2. CASE AdoptFails /\ UNCHANGED winVars
    BY <1>0, <2>2 DEF AdoptFails, TokioTypeOK, ArmTypeOK, Phases, Streams, Futures
  <2>3. CASE \E s \in {"Connected", "FastOpenConnecting"} : Adopt(s) /\ UNCHANGED <<sockVars, slot, task, told>>
    <3>1. edge' \subseteq {"R", "W", "HUP"} /\ ready' = {} /\ reg' = TRUE /\ ticked' = FALSE
      BY <2>3, LevelType DEF Adopt, Register
    <3>2. woken' \subseteq Tasks /\ reader' = NoTask /\ stream' = "Connected" /\ state' \in {"Connected", "FastOpenConnecting"}
      BY <1>0, <2>3 DEF Adopt, WakeReader, ArmTypeOK, TokioTypeOK
    <3>3. /\ fut' \in [Futures -> {"idle", "awake", "due", "parked", "done"}]
          /\ accepted' \in Nat /\ owed' \in Nat /\ context' \in BOOLEAN
          /\ UNCHANGED <<ovl, given>>
      <4>1. CASE ret = "ok"
        <5>1. cnt = owed /\ stream' # "Empty"
          BY <1>0, <1>2, <3>2, <4>1 DEF connect_ex_adopt, CountOK
        <5>2. /\ fut' = [fut EXCEPT !["W"] = "awake"] /\ accepted' = accepted + cnt /\ owed' = owed - cnt
              /\ context' = TRUE /\ UNCHANGED <<ovl, given>>
          BY <1>2, <5>1, <4>1 DEF connect_ex_adopt, AdoptFails, Settle, set_update_connect_context
        <5> QED
          BY <1>0, <5>1, <5>2 DEF ArmTypeOK, TokioTypeOK, Futures
      <4>2. CASE ret # "ok"
        BY <1>0, <1>2, <3>2, <4>2 DEF connect_ex_adopt, AdoptFails, ArmTypeOK, TokioTypeOK, Futures
      <4> QED
        BY <4>1, <4>2
    <3>4. pc' \in {"none", "top"} /\ ret' = "none" /\ buf' \in Nat /\ cnt' \in Nat /\ UNCHANGED panicked
      BY <1>0, <1>2, <2>3, <3>2 DEF connect_ex_adopt, AdoptFails, ArmTypeOK
    <3>5. TokioTypeOK'
      BY <1>0, <2>3, <3>1, <3>2, <3>3 DEF TokioTypeOK
    <3>6. ArmTypeOK'
      BY <1>0, <3>2, <3>4 DEF ArmTypeOK, States, Streams
    <3> QED
      BY <1>0, <3>3, <3>5, <3>6
  <2> QED
    BY <1>2, <2>1, <2>2, <2>3 DEF connect_ex_adopt
<1>3. CASE FastOpenConnecting_wait
  BY <1>0, <1>3 DEF FastOpenConnecting_wait, poll_write_ready, Park, TokioTypeOK, ArmTypeOK, Futures
<1>4. CASE WSAGetOverlappedResult
  <2>1. edge' \subseteq {"R", "W", "HUP"} /\ told' \in BOOLEAN /\ ticked' = FALSE
    BY <1>0, <1>4, LevelType DEF WSAGetOverlappedResult, TokioTypeOK
  <2>2. ret' \in {"ok", "again", "err"} /\ cnt' \in {cnt, owed} /\ context' \in BOOLEAN
    BY <1>0, <1>4 DEF WSAGetOverlappedResult, set_update_connect_context
  <2>3. TokioTypeOK'
    BY <1>0, <1>4, <2>1 DEF WSAGetOverlappedResult, TokioTypeOK
  <2>4. ArmTypeOK'
    BY <1>0, <1>4, <2>2 DEF WSAGetOverlappedResult, ArmTypeOK
  <2> QED
    BY <1>0, <1>4, <2>2, <2>3, <2>4 DEF WSAGetOverlappedResult
<1>5. CASE FastOpenConnecting_match
  <2>1. /\ soerr' \in BOOLEAN /\ state' \in {state, "Connected"} /\ accepted' \in Nat /\ owed' \in Nat
    <3>1. CASE ret = "ok" /\ soerr' = FALSE /\ state' = "Connected" /\ Settle(cnt)
      <4>1. cnt = owed
        BY <1>0, <1>5, <3>1 DEF FastOpenConnecting_match, CountOK
      <4>2. cnt \in Nat /\ owed \in Nat /\ accepted \in Nat
        BY <1>0 DEF TokioTypeOK, ArmTypeOK
      <4>3. accepted' \in Nat /\ owed' \in Nat
        BY <3>1, <4>1, <4>2 DEF Settle
      <4> QED
        BY <3>1, <4>3
    <3>2. CASE UNCHANGED <<soerr, state, accepted, owed>>
      BY <1>0, <3>2 DEF TokioTypeOK
    <3> QED
      BY <1>5, <3>1, <3>2 DEF FastOpenConnecting_match, socket_take_error
  <2>2. /\ fut' \in [Futures -> {"idle", "awake", "due", "parked", "done"}]
        /\ ready' \subseteq {"R", "W", "HUP"}
        /\ UNCHANGED <<told, woken, task>>
    BY <1>0, <1>5 DEF FastOpenConnecting_match, socket_take_error, ClearReady, TokioTypeOK, Futures
  <2>3. pc' \in {"none", "top"} /\ ret' = "none" /\ buf' \in Nat /\ cnt' \in Nat
    BY <1>0, <1>5 DEF FastOpenConnecting_match, ArmTypeOK
  <2>4. TokioTypeOK'
    BY <1>0, <1>5, <2>1, <2>2 DEF FastOpenConnecting_match, TokioTypeOK
  <2>5. ArmTypeOK'
    BY <1>0, <1>5, <2>1, <2>3 DEF FastOpenConnecting_match, ArmTypeOK, States
  <2> QED
    BY <1>0, <1>5, <2>1, <2>4, <2>5 DEF FastOpenConnecting_match
<1> QED
  BY <1>1, <1>2, <1>3, <1>4, <1>5 DEF WinArm

\* Connecting, being a stream of a listener's, and the end of ConnectEx.
LEMMA WinRestTypes == WinInv /\ (WinFrom \/ WinConnect \/ ConnectExEnds) => WinTypeOK'
<1> SUFFICES ASSUME WinInv, WinFrom \/ WinConnect \/ ConnectExEnds PROVE WinTypeOK'
  OBVIOUS
<1>0. TypeOK /\ WinTypeOK
  BY DEF WinInv, WinTypeOK
<1>1. CASE WinFrom
  <2>1. TypeOK'
    BY <1>0, <1>1, TypeOther DEF WinFrom, OtherStep
  <2> QED
    BY <1>0, <1>1, <2>1 DEF WinFrom, WinTypeOK
<1>2. CASE WinConnect
  BY <1>0, <1>2 DEF WinConnect, connect_with_socket, WinTypeOK, TypeOK, TokioTypeOK, ArmTypeOK,
                    sockVars, ioVars, execVars, userVars, streamVars, winVars
<1>3. CASE ConnectExEnds
  <2>1. ovl' \in {"done", "failed"} /\ wire' \in Nat /\ owed' \in Nat
    BY <1>0, <1>3 DEF ConnectExEnds, Taken, WinTypeOK, TypeOK, TokioTypeOK
  <2> QED
    BY <1>0, <1>3, <2>1 DEF ConnectExEnds, WinTypeOK, TypeOK, TokioTypeOK, ArmTypeOK,
                            ioVars, execVars, userVars, streamVars, callVars
<1> QED
  BY <1>1, <1>2, <1>3

-----------------------------------------------------------------------------
(* The count.                                                               *)

WinRest == UncalledOK /\ CountOK /\ PlaceOK /\ ConnectExOnce /\ ContextUpdated

\* A step the Windows stream shares with the others sends only over a
\* Connected stream, and returns what it sent at once.
LEMMA SharedKeeps ==
  ASSUME WinInv, SharedStep, UNCHANGED winVars
  PROVE  WinRest'
<1>0. /\ wire \in Nat /\ accepted \in Nat /\ owed \in Nat
      /\ UncalledOK /\ CountOK /\ PlaceOK /\ ConnectExOnce /\ ContextUpdated
  BY DEF WinInv, WinTypeOK, TypeOK, TokioTypeOK
<1> USE <1>0 DEF WinRest, UncalledOK, CountOK, PlaceOK, ConnectExOnce, ContextUpdated, EndCall, winVars,
             sockVars, userVars, streamVars, callVars
<1>1. CASE poll_write
  BY <1>1 DEF poll_write
<1>2. CASE PassOn("Connected")
  <2>1. /\ pc = "top" /\ pc' = "none" /\ UNCHANGED <<stream, state, ret>>
    BY <1>2 DEF PassOn
  <2>2. CASE WriteTakes(buf)
    <3>1. PICK n \in Taken(buf) : wire' = wire + n /\ accepted' = accepted + n
      BY <2>2 DEF WriteTakes
    <3>2. n \in Nat
      BY DEF WinInv, WinTypeOK, TypeOK, ArmTypeOK, Taken
    <3> QED
      BY <2>1, <3>1, <3>2
  <2>3. CASE WritePends \/ WriteFails
    BY <2>1, <2>3 DEF WritePends, WriteFails
  <2> QED
    BY <1>2, <2>2, <2>3 DEF PassOn
<1>3. CASE unreachable
  BY <1>3 DEF unreachable, Panic
<1>4. CASE ConnectFails
  BY <1>4 DEF ConnectFails
<1>5. CASE pc = "probe" /\ ReturnConnecting
  BY <1>5 DEF ReturnConnecting
<1>6. CASE poll_read
  BY <1>6 DEF poll_read, Panic, TokioPollRead
<1>7. CASE accessor
  BY <1>7 DEF accessor, Panic
<1>8. CASE Use
  BY <1>8 DEF Use, Resume, Rest, Submit
<1>9. CASE Terminated
  BY <1>9 DEF Terminated, armVars
<1>10. CASE External
  BY <1>10 DEF External, Outside, Network, Executor, HandshakeOk, Break, PeerSends, Drain, Deliver, RunTask
<1>11. CASE poll_shutdown({})
  BY <1>11 DEF poll_shutdown
<1> QED
  BY <1>1, <1>2, <1>3, <1>4, <1>5, <1>6, <1>7, <1>8, <1>9, <1>10, <1>11 DEF SharedStep

\* ConnectEx owes what it sends until a poll_write has told it.
LEMMA WinArmKeeps ==
  ASSUME WinInv, WinArm
  PROVE  WinRest'
<1>0. /\ wire \in Nat /\ accepted \in Nat /\ owed \in Nat /\ cnt \in Nat
      /\ UncalledOK /\ CountOK /\ PlaceOK /\ ConnectExOnce /\ ContextUpdated
  BY DEF WinInv, WinTypeOK, TypeOK, TokioTypeOK, ArmTypeOK
<1> USE <1>0 DEF WinRest, UncalledOK, CountOK, PlaceOK, ConnectExOnce, ContextUpdated, EndCall, winVars,
             sockVars, userVars, streamVars, callVars
<1>1. CASE connect_ex
  <2>1. owed = 0 /\ ovl = "none" /\ wire = accepted /\ state' = "FastOpenConnect"
        /\ pc' = "adopt" /\ stream' = "Connecting" /\ accepted' = accepted
    BY <1>1 DEF connect_ex
  <2>2. CASE ret' = "ok"
    <3>1. PICK n \in Taken(buf) : cnt' = n /\ wire' = wire + n /\ owed' = owed + n
      BY <1>1, <2>2 DEF connect_ex
    <3>2. n \in Nat
      BY DEF WinInv, WinTypeOK, TypeOK, ArmTypeOK, Taken
    <3> QED
      BY <1>1, <2>1, <2>2, <3>1, <3>2 DEF connect_ex
  <2>3. CASE ret' # "ok"
    BY <1>1, <2>1, <2>3 DEF connect_ex
  <2> QED
    BY <2>2, <2>3
<1>2. CASE connect_ex_adopt
  <2>1. CASE ret = "ok" /\ set_update_connect_context /\ Adopt("Connected") /\ Settle(cnt)
             /\ EndCall /\ UNCHANGED <<sockVars, ovl>>
    BY <1>2, <2>1 DEF connect_ex_adopt, set_update_connect_context, Adopt, Settle
  <2>2. CASE ret = "inprogress" /\ Adopt("FastOpenConnecting") /\ pc' = "top" /\ ret' = "none"
             /\ UNCHANGED <<sockVars, userVars, winVars>>
    BY <1>2, <2>2 DEF connect_ex_adopt, Adopt
  <2>3. CASE AdoptFails /\ UNCHANGED winVars
    BY <1>2, <2>3 DEF connect_ex_adopt, AdoptFails
  <2>4. CASE ret = "err" /\ EndCall /\ UNCHANGED <<sockVars, userVars, streamVars, winVars>>
    BY <1>2, <2>4 DEF connect_ex_adopt
  <2> QED
    BY <1>2, <2>1, <2>2, <2>3, <2>4 DEF connect_ex_adopt
<1>3. CASE FastOpenConnecting_wait
  BY <1>3 DEF FastOpenConnecting_wait, poll_write_ready
<1>4. CASE WSAGetOverlappedResult
  BY <1>4 DEF WSAGetOverlappedResult, set_update_connect_context
<1>5. CASE FastOpenConnecting_match
  <2>1. CASE ret = "ok" /\ socket_take_error /\ EndCall
    BY <1>5, <2>1 DEF FastOpenConnecting_match, socket_take_error, Settle
  <2>2. CASE ret # "ok"
    BY <1>5, <2>2 DEF FastOpenConnecting_match
  <2> QED
    BY <1>5, <2>1, <2>2 DEF FastOpenConnecting_match
<1> QED
  BY <1>1, <1>2, <1>3, <1>4, <1>5 DEF WinArm

LEMMA WinRestKeeps ==
  ASSUME WinInv, WinFrom \/ WinConnect \/ ConnectExEnds
  PROVE  WinRest'
<1>0. /\ wire \in Nat /\ accepted \in Nat /\ owed \in Nat
      /\ UncalledOK /\ CountOK /\ PlaceOK /\ ConnectExOnce /\ ContextUpdated
  BY DEF WinInv, WinTypeOK, TypeOK, TokioTypeOK
<1> USE <1>0 DEF WinRest, UncalledOK, CountOK, PlaceOK, ConnectExOnce, ContextUpdated, winVars,
             sockVars, userVars, streamVars, callVars
<1>1. CASE WinFrom
  BY <1>1 DEF WinFrom, from
<1>2. CASE WinConnect
  BY <1>2 DEF WinConnect, connect_with_socket
<1>3. CASE ConnectExEnds
  <2>1. ovl = "pending" /\ UNCHANGED <<stream, state, pc, ret, cnt, accepted, context>>
    BY <1>3 DEF ConnectExEnds
  <2>2. CASE UNCHANGED <<wire, owed>> /\ ovl' = "failed"
    BY <2>1, <2>2
  <2>3. CASE ovl' = "done" /\ \E n \in Taken(given) : wire' = wire + n /\ owed' = owed + n
    <3>1. PICK n \in Taken(given) : wire' = wire + n /\ owed' = owed + n
      BY <2>3
    <3>2. n \in Nat
      BY DEF WinInv, WinTypeOK, Taken
    <3> QED
      BY <2>1, <2>3, <3>1, <3>2
  <2> QED
    BY <1>3, <2>2, <2>3 DEF ConnectExEnds
<1> QED
  BY <1>1, <1>2, <1>3

LEMMA WinStutter == WinInv /\ UNCHANGED vars => WinInv'
<1> SUFFICES ASSUME WinInv, UNCHANGED vars PROVE WinInv'
  OBVIOUS
<1>1. TypeOK'
  BY TypeStutter DEF WinInv, WinTypeOK, vars
<1> QED
  BY <1>1 DEF vars, winVars, armVars, sockVars, userVars, streamVars, callVars, WinInv, WinTypeOK,
              UncalledOK, CountOK, PlaceOK, ConnectExOnce, ContextUpdated

LEMMA WinAlways == Spec => []WinInv
<1>1. ASSUME WinInv, SharedStep, UNCHANGED winVars PROVE WinInv'
  <2>1. TypeOK'
    BY <1>1, SharedIsArm, TypeWrite, TypeOther DEF ArmStep, WinInv, WinTypeOK
  <2>2. WinTypeOK'
    BY <1>1, <2>1 DEF WinInv, WinTypeOK, winVars
  <2> QED
    BY <1>1, <2>2, SharedKeeps DEF WinInv, WinRest
<1>2. WinInv /\ (WinArm \/ WinFrom \/ WinConnect \/ ConnectExEnds) => WinInv'
  BY WinArmTypes, WinRestTypes, WinArmKeeps, WinRestKeeps DEF WinInv, WinRest
<1>3. WinInv /\ [Next]_vars => WinInv'
  BY <1>1, <1>2, WinNext, WinStutter
<1> QED
  BY <1>3, WinInit, PTL DEF Spec

\* Every variable of the Windows stream keeps its type; above all, owed, from
\* which counts are subtracted, never falls below zero (windows/mod.rs:132-136).
THEOREM WindowsTypes == Spec => []WinTypeOK
<1>1. WinInv => WinTypeOK
  BY DEF WinInv
<1> QED
  BY <1>1, WinAlways, PTL

\* The bytes ConnectEx sent are told once, whichever poll_write collects them
\* and however many are dropped before (windows/mod.rs:309-340, 391-424).
THEOREM WindowsConnectExOnce == Spec => []ConnectExOnce
<1>1. WinInv => ConnectExOnce
  BY DEF WinInv
<1> QED
  BY <1>1, WinAlways, PTL

\* No path makes the stream Connected before its socket is a full one and its
\* overlapped call is over (windows/mod.rs:252-270, 325, 395).
THEOREM WindowsContextUpdated == Spec => []ContextUpdated
<1>1. WinInv => ContextUpdated
  BY DEF WinInv
<1> QED
  BY <1>1, WinAlways, PTL

-----------------------------------------------------------------------------
(* Panics and wakers, with the lemmas on the shared arms.                   *)

\* A step is a shared one, or one of ConnectEx's, or outside poll_write.
LEMMA WinKinds ==
  [Next]_vars => \/ ArmStep \/ WinArm \/ WinConnect \/ ConnectExEnds
                 \/ UNCHANGED armVars
  BY WinNext, SharedIsArm DEF WinFrom, ArmStep, OtherStep, vars

LEMMA WinTypesStep == WinInv /\ [Next]_vars => TypeOK'
<1>1. WinInv /\ ArmStep => TypeOK'
  BY TypeWrite, TypeOther DEF ArmStep, WinInv, WinTypeOK
<1>2. WinInv /\ (WinArm \/ WinConnect \/ ConnectExEnds) => TypeOK'
  BY WinArmTypes, WinRestTypes DEF WinTypeOK
<1>3. WinInv /\ UNCHANGED armVars => TypeOK'
  BY TypeStutter DEF WinInv, WinTypeOK
<1> QED
  BY <1>1, <1>2, <1>3, WinKinds

\* The arms of ConnectEx change state and stream together.
LEMMA WinShape ==
  ASSUME ShapeInv, WinArm \/ WinConnect \/ ConnectExEnds
  PROVE  ShapeOK'
<1> USE DEF ShapeInv, ShapeOK, NoUnreachable, Polling, EndCall, Return, Park, Futures,
            streamVars, callVars, execVars
<1>0. fut \in [Futures -> {"idle", "awake", "due", "parked", "done"}] /\ stream \in Streams
  BY DEF TypeOK, TokioTypeOK, ArmTypeOK
<1>1. CASE connect_ex
  BY <1>1 DEF connect_ex
<1>2. CASE connect_ex_adopt
  BY <1>2 DEF connect_ex_adopt, Adopt, AdoptFails
<1>3. CASE FastOpenConnecting_wait
  BY <1>3 DEF FastOpenConnecting_wait, poll_write_ready
<1>4. CASE WSAGetOverlappedResult
  BY <1>0, <1>4 DEF WSAGetOverlappedResult, Streams
<1>5. CASE FastOpenConnecting_match
  BY <1>0, <1>5 DEF FastOpenConnecting_match, socket_take_error, Streams
<1>6. CASE WinConnect
  BY <1>6 DEF WinConnect, connect_with_socket
<1>7. CASE ConnectExEnds
  BY <1>7 DEF ConnectExEnds
<1> QED
  BY <1>1, <1>2, <1>3, <1>4, <1>5, <1>6, <1>7 DEF WinArm

\* No poll and no accessor reaches an unreachable!(), but for the Empty stream
\* that a failed setsockopt or from_std leaves (windows/mod.rs:125, 194, 247, 292-353).
THEOREM WindowsNoUnreachable == Spec => []NoUnreachable
<1>1. Init => ShapeInv
  BY ShapeInit DEF Init
<1>2. WinInv /\ ShapeInv /\ [Next]_vars => ShapeInv'
  BY WinKinds, WinTypesStep, WinShape, ShapeStep, ShapeStutter DEF ShapeInv
<1>3. ShapeInv => NoUnreachable
  BY DEF ShapeInv, ShapeOK
<1> QED
  BY <1>1, <1>2, <1>3, WinAlways, PTL DEF Spec

\* ConnectEx runs in the writer's task.
LEMMA WinTasks ==
  ASSUME TaskInv, WinArm \/ WinConnect \/ ConnectExEnds
  PROVE  TasksOK'
<1>0. fut \in [Futures -> {"idle", "awake", "due", "parked", "done"}] /\ TasksOK
  BY DEF TaskInv, TypeOK, TokioTypeOK
<1> USE <1>0 DEF TasksOK, Polling, EndCall, Return, Park, Futures, streamVars, callVars, execVars
<1>1. CASE connect_ex
  BY <1>1 DEF connect_ex
<1>2. CASE connect_ex_adopt
  BY <1>2 DEF connect_ex_adopt, Adopt, AdoptFails
<1>3. CASE FastOpenConnecting_wait
  BY <1>3 DEF FastOpenConnecting_wait, poll_write_ready
<1>4. CASE WSAGetOverlappedResult
  BY <1>4 DEF WSAGetOverlappedResult
<1>5. CASE FastOpenConnecting_match
  BY <1>5 DEF FastOpenConnecting_match, socket_take_error
<1>6. CASE WinConnect
  BY <1>6 DEF WinConnect, connect_with_socket
<1>7. CASE ConnectExEnds
  BY <1>7 DEF ConnectExEnds
<1> QED
  BY <1>1, <1>2, <1>3, <1>4, <1>5, <1>6, <1>7 DEF WinArm

-----------------------------------------------------------------------------
\* The poll of the overlapped result clears the readiness only after mio has
\* queued what is true of the socket again.
LEMMA WinEvents == EventInv /\ (WinArm \/ WinConnect \/ ConnectExEnds) => Event'
<1> SUFFICES ASSUME EventInv, WinArm \/ WinConnect \/ ConnectExEnds PROVE Event'
  OBVIOUS
<1>1. CASE connect_ex
  <2>0. stream = "Connecting" /\ ~reg /\ phase = "new" /\ ~shut /\ ~inbox /\ edge = {} /\ ready = {}
    BY <1>1 DEF connect_ex, EventInv, RegOK, PhaseOK
  <2> USE <1>1, <2>0 DEF connect_ex, EventInv, streamVars, ioVars, execVars
  <2>1. RegOK' /\ PhaseOK'
    BY DEF RegOK, PhaseOK
  <2>2. Covered' /\ ClearOK' /\ ReadyOK'
    BY DEF RegOK, Covered, ClearOK, ReadyOK
  <2> QED
    BY <2>1, <2>2 DEF Event
<1>2. CASE connect_ex_adopt
  <2>0. pc = "adopt" /\ stream = "Connecting"
    BY <1>2 DEF connect_ex_adopt, EventInv, TaskInv, TasksOK
  <2>1. CASE AdoptFails
    BY <2>0, <2>1, EventAdoptFails
  <2>2. CASE ret = "err" /\ Return("W") /\ EndCall
             /\ UNCHANGED <<sockVars, ioVars, userVars, streamVars, panicked, winVars>>
    BY <2>0, <2>2, EventQuiet DEF Return, EndCall, sockVars, streamVars
  <2>3. CASE Adopt("Connected") /\ EndCall /\ UNCHANGED <<sockVars, slot, task>>
    BY <2>0, <2>3, EventAdopt DEF EndCall, States
  <2>4. CASE Adopt("FastOpenConnecting") /\ pc' = "top" /\ UNCHANGED <<sockVars, slot, task>>
    BY <2>0, <2>4, EventAdopt DEF States
  <2> QED
    BY <1>2, <2>1, <2>2, <2>3, <2>4 DEF connect_ex_adopt
<1>3. CASE FastOpenConnecting_wait
  BY <1>3, EventWriteReady DEF FastOpenConnecting_wait
<1>4. CASE WSAGetOverlappedResult
  <2>0. pc = "send" /\ stream = "Connected" /\ reg /\ IsReady("W")
    BY <1>4 DEF WSAGetOverlappedResult, EventInv, RegOK, ReadyOK
  <2>1. /\ UNCHANGED <<sockVars, reg, ready, slot, execVars, stream, state>>
        /\ pc' = "match" /\ ~ticked' /\ ret' \in {"ok", "again", "err"}
        /\ edge' = edge \/ edge' = edge \cup Level
        /\ ret' = "again" => edge' = edge \cup Level
    BY <1>4 DEF WSAGetOverlappedResult, streamVars
  <2> USE <2>0, <2>1 DEF EventInv, sockVars
  <2>2. Level' = Level
    BY LevelSame
  <2>3. RegOK'
    BY DEF RegOK
  <2>4. PhaseOK'
    BY LevelMembers DEF PhaseOK
  <2>5. Covered' /\ ClearOK'
    BY <2>2 DEF Covered, ClearOK
  <2>6. ReadyOK'
    BY DEF ReadyOK, IsReady, execVars
  <2> QED
    BY <2>3, <2>4, <2>5, <2>6 DEF Event
<1>5. CASE FastOpenConnecting_match
  <2>0. pc = "match" /\ stream = "Connected"
    BY <1>5 DEF FastOpenConnecting_match, EventInv, RegOK
  <2>1. UNCHANGED <<phase, inbox, full, shut, reg, edge, ticked, slot, stream>>
    BY <1>5 DEF FastOpenConnecting_match
  <2>2. CASE ret = "again" /\ ClearReady /\ pc' = "top" /\ UNCHANGED execVars
    BY <2>0, <2>1, <2>2, EventClear
  <2>3. CASE UNCHANGED ready /\ Return("W") /\ EndCall
    <3> USE <2>0, <2>1, <2>3, EventTypes DEF EventInv, Return, EndCall
    <3>2. RegOK' /\ PhaseOK'
      BY DEF RegOK, PhaseOK
    <3>3. Covered' /\ ClearOK' /\ ReadyOK'
      BY LevelSame DEF Covered, ClearOK, ReadyOK, IsReady
    <3> QED
      BY <3>2, <3>3 DEF Event
  <2> QED
    BY <1>5, <2>2, <2>3 DEF FastOpenConnecting_match
<1>6. CASE WinConnect
  <2> USE <1>6 DEF WinConnect, connect_with_socket, EventInv, sockVars, ioVars, execVars, streamVars
  <2>1. RegOK' /\ PhaseOK' /\ Covered' /\ ClearOK' /\ ReadyOK'
    BY LevelSame DEF RegOK, PhaseOK, Covered, ClearOK, ReadyOK
  <2> QED
    BY <2>1 DEF Event
<1>7. CASE ConnectExEnds
  BY <1>7, EventTasks, EventTypes, LevelSame DEF ConnectExEnds, EventInv, Event, RegOK, PhaseOK,
     Covered, ClearOK, ReadyOK, IsReady, ioVars, execVars, callVars, streamVars
<1> QED
  BY <1>1, <1>2, <1>3, <1>4, <1>5, <1>6, <1>7 DEF WinArm

LEMMA WinEventInv == Spec => []EventInv
<1>1. Init => EventInv
  BY EventInit DEF Init
<1>2. WinInv /\ EventInv /\ [Next]_vars => EventInv'
  <2> SUFFICES ASSUME WinInv, EventInv, [Next]_vars PROVE EventInv'
    OBVIOUS
  <2>1. CASE WinArm \/ WinConnect \/ ConnectExEnds
    <3>1. TaskInv'
      BY <2>1, WinTasks, WinTypesStep DEF EventInv, TaskInv
    <3> QED
      BY <2>1, <3>1, WinEvents DEF EventInv, Event
  <2> QED
    BY <2>1, WinKinds, EventStep, EventStutter
<1> QED
  BY <1>1, <1>2, WinAlways, PTL DEF Spec

-----------------------------------------------------------------------------
(* Nobody is forgotten while ConnectEx is under way.                        *)

\* ConnectEx moves the wakers as the other platforms' first write does.
LEMMA WinWaker ==
  ASSUME TaskInv, NEW f \in Futures, HasWaker(f), f = "W" \/ Apart,
         WinArm \/ WinConnect \/ ConnectExEnds
  PROVE  HasWaker(f)'
<1>0. /\ fut \in [Futures -> {"idle", "awake", "due", "parked", "done"}]
      /\ slot \in [Futures -> Tasks \cup {NoTask}]
      /\ pc = "adopt" => stream = "Connecting" /\ fut["W"] = "due"
  BY DEF TaskInv, TasksOK, Polling, TypeOK, TokioTypeOK
<1> USE <1>0 DEF EndCall, Return, Futures, streamVars, callVars, execVars, ioVars
<1>1. CASE connect_ex \/ WSAGetOverlappedResult \/ FastOpenConnecting_match \/ WinConnect \/ ConnectExEnds
  BY <1>1, WakerKept DEF connect_ex, WSAGetOverlappedResult, FastOpenConnecting_match, WinConnect,
     connect_with_socket, ConnectExEnds
<1>2. CASE connect_ex_adopt
  <2>1. pc = "adopt" /\ fut["W"] = "due" /\ UNCHANGED <<slot, task>>
    BY <1>2 DEF connect_ex_adopt, AdoptFails
  <2>2. CASE AdoptFails
    BY <2>1, <2>2 DEF AdoptFails, HasWaker
  <2>3. CASE Return("W") /\ UNCHANGED streamVars
    BY <2>1, <2>3, WakerKept
  <2>4. CASE \E s \in States : Adopt(s) /\ fut' \in {fut, [fut EXCEPT !["W"] = "awake"]}
    BY <2>1, <2>4, WakerAdopted DEF Adopt
  <2> QED
    BY <1>2, <2>2, <2>3, <2>4 DEF connect_ex_adopt, States
<1>3. CASE FastOpenConnecting_wait
  BY <1>3, WakerKept, WakerParked DEF FastOpenConnecting_wait, poll_write_ready
<1> QED
  BY <1>1, <1>2, <1>3 DEF WinArm

\* It parks nobody for a readiness there is.
LEMMA WinParked ==
  ASSUME EventInv, NEW f \in Futures, ParkedOK(f), WinArm \/ WinConnect \/ ConnectExEnds
  PROVE  ParkedOK(f)'
<1> USE EventTypes DEF Return, Futures, streamVars, callVars, execVars, ioVars
<1>1. CASE connect_ex \/ WSAGetOverlappedResult \/ WinConnect \/ ConnectExEnds
  BY <1>1, ParkedKept DEF connect_ex, WSAGetOverlappedResult, WinConnect, connect_with_socket,
     ConnectExEnds
<1>2. CASE connect_ex_adopt
  <2>1. CASE AdoptFails
    BY <2>1 DEF AdoptFails, ParkedOK
  <2>2. CASE Return("W") /\ UNCHANGED <<streamVars, ioVars>>
    BY <2>2, ParkedKept
  <2>3. CASE \E s \in States : Adopt(s)
    BY <2>3, ParkedFresh DEF Adopt, Register
  <2> QED
    BY <1>2, <2>1, <2>2, <2>3 DEF connect_ex_adopt, States
<1>3. CASE FastOpenConnecting_wait
  BY <1>3, ParkedKept, ParkedNow DEF FastOpenConnecting_wait, poll_write_ready, IsReady
<1>4. CASE FastOpenConnecting_match
  BY <1>4, ParkedKept DEF FastOpenConnecting_match, ClearReady
<1> QED
  BY <1>1, <1>2, <1>3, <1>4 DEF WinArm

\* Who keeps its waker: the writer always, the reader if its task is another.
SafeWait == \A f \in Futures : f = "W" \/ Apart => WaitOK(f)

LEMMA WinSafeWait == Spec => []SafeWait
<1>1. Init => SafeWait
  BY WaitInit DEF Init, SafeWait
<1>2. EventInv /\ SafeWait /\ [Next]_vars => SafeWait'
  <2> SUFFICES ASSUME EventInv, SafeWait, [Next]_vars, NEW f \in Futures, f = "W" \/ Apart
               PROVE  WaitOK(f)'
    BY DEF SafeWait
  <2>1. WaitOK(f) /\ TaskInv
    BY DEF SafeWait, EventInv
  <2>2. CASE WinArm \/ WinConnect \/ ConnectExEnds
    BY <2>1, <2>2, WinWaker, WinParked DEF WaitOK
  <2> QED
    BY <2>1, <2>2, WinKinds, WaitStep, WaitStutter
<1> QED
  BY <1>1, <1>2, WinEventInv, PTL DEF Spec

\* With the halves in tasks of their own, nobody waits without a waker, also
\* while ConnectEx is pending (windows/mod.rs:238-246, 333-337, 362-366).
THEOREM WindowsParkedHasWaker ==
  ASSUME Apart
  PROVE  Spec => []ParkedHasWaker
<1>1. EventInv /\ SafeWait => ParkedHasWaker
  BY AllWait DEF SafeWait
<1> QED
  BY <1>1, WinEventInv, WinSafeWait, PTL

\* Nor is a wake-up lost, although the readiness is cleared whenever the
\* overlapped result is not there yet (windows/mod.rs:373-430).
THEOREM WindowsNoMissedEvent ==
  ASSUME Apart
  PROVE  Spec => []NoMissedEvent
<1>1. EventInv /\ SafeWait => NoMissedEvent
  BY AllWait DEF SafeWait
<1> QED
  BY <1>1, WinEventInv, WinSafeWait, PTL

\* The writer, whose poll collects what ConnectEx sent, keeps its waker and its
\* wake-ups whoever runs the reader (windows/mod.rs:333-337, 362-366, 373-430).
THEOREM WindowsWriterTold == Spec => []WriterTold
<1>1. EventInv /\ SafeWait => WriterTold
  BY WaitMeans DEF SafeWait, Futures, WriterTold
<1> QED
  BY <1>1, WinEventInv, WinSafeWait, PTL

-----------------------------------------------------------------------------
(* The Windows stream implements ConnectExStream.                           *)

CESStep == [CES!Next]_(CES!vars)

\* The result of ConnectEx is fetched and matched in one state.
MatchOK == pc \in {"send", "match"} => state = "FastOpenConnecting"

LEMMA WinMatchOK == Spec => []MatchOK
<1>1. Init => MatchOK
  BY DEF Init, ArmsInit, MatchOK
<1>2. MatchOK /\ SharedStep => MatchOK'
  <2> SUFFICES ASSUME MatchOK, SharedStep PROVE MatchOK'
    OBVIOUS
  <2> USE DEF MatchOK, EndCall, streamVars, callVars
  <2>1. CASE poll_write \/ PassOn("Connected") \/ unreachable
    BY <2>1 DEF poll_write, PassOn, unreachable, Panic
  <2>2. CASE ConnectFails \/ (pc = "probe" /\ ReturnConnecting) \/ Terminated
    BY <2>2 DEF ConnectFails, ReturnConnecting, Terminated, armVars
  <2>3. CASE poll_read \/ accessor \/ Use \/ External \/ poll_shutdown({})
    BY <2>3 DEF poll_read, accessor, Panic, Use, External, Outside, poll_shutdown
  <2> QED
    BY <2>1, <2>2, <2>3 DEF SharedStep
<1>3. MatchOK /\ (WinArm \/ WinFrom \/ WinConnect \/ ConnectExEnds) => MatchOK'
  <2> SUFFICES ASSUME MatchOK, WinArm \/ WinFrom \/ WinConnect \/ ConnectExEnds PROVE MatchOK'
    OBVIOUS
  <2> USE DEF MatchOK, EndCall, streamVars, callVars
  <2>1. CASE connect_ex \/ connect_ex_adopt
    BY <2>1 DEF connect_ex, connect_ex_adopt, AdoptFails
  <2>2. CASE FastOpenConnecting_wait \/ WSAGetOverlappedResult \/ FastOpenConnecting_match
    BY <2>2 DEF FastOpenConnecting_wait, poll_write_ready, WSAGetOverlappedResult, FastOpenConnecting_match
  <2>3. CASE WinFrom \/ WinConnect \/ ConnectExEnds
    BY <2>3 DEF WinFrom, from, WinConnect, connect_with_socket, ConnectExEnds
  <2> QED
    BY <2>1, <2>2, <2>3 DEF WinArm
<1>4. MatchOK /\ UNCHANGED vars => MatchOK'
  BY DEF MatchOK, vars, armVars, streamVars, callVars
<1> QED
  BY <1>1, <1>2, <1>3, <1>4, WinNext, PTL DEF Spec

CESInv == WinInv /\ EventInv /\ MatchOK

LEMMA CESTypes ==
  ASSUME CESInv
  PROVE  /\ fut \in [Futures -> {"idle", "awake", "due", "parked", "done"}]
         /\ wire \in Nat /\ accepted \in Nat /\ owed \in Nat /\ buf \in Nat /\ given \in Nat
         /\ phase \in Phases /\ ovl \in {"none", "pending", "done", "failed"}
         /\ pc \in Polling => fut["W"] = "due"
         /\ UncalledOK /\ CountOK /\ PlaceOK /\ ConnectExOnce /\ ContextUpdated /\ MatchOK
         /\ RegOK /\ PhaseOK
  BY DEF CESInv, WinInv, WinTypeOK, TypeOK, TokioTypeOK, ArmTypeOK, EventInv, TaskInv, TasksOK

\* What the refinement maps the call and the overlapped ConnectEx to.
LEMMA CallIs ==
  /\ fut["W"] \in {"due", "parked"} => Call = "pending"
  /\ fut["W"] \notin {"due", "parked"} => Call = "none"
  BY DEF Call, Waiting

LEMMA CallNext ==
  /\ fut'["W"] \in {"due", "parked"} => Call' = "pending"
  /\ fut'["W"] \notin {"due", "parked"} => Call' = "none"
  BY DEF Call, Waiting

LEMMA FirstIs ==
  /\ state = "Connected" => First = "settled"
  /\ state # "Connected" /\ ovl = "none" => First = "none"
  /\ state # "Connected" /\ ovl = "pending" => First = "flying"
  /\ state # "Connected" /\ ovl = "done" => First = "landed"
  /\ state # "Connected" /\ ovl = "failed" => First = "lost"
  BY DEF First

LEMMA FirstNext ==
  /\ state' = "Connected" => First' = "settled"
  /\ state' # "Connected" /\ ovl' = "none" => First' = "none"
  /\ state' # "Connected" /\ ovl' = "pending" => First' = "flying"
  /\ state' # "Connected" /\ ovl' = "done" => First' = "landed"
  /\ state' # "Connected" /\ ovl' = "failed" => First' = "lost"
  BY DEF First

LEMMA FirstSame == UNCHANGED <<state, ovl>> => UNCHANGED First
  BY DEF First

\* A step that is none of ConnectExStream's.
LEMMA CESQuiet ==
  ASSUME UNCHANGED <<Conn, First, wire, accepted>>,
         fut'["W"] = fut["W"] \/ {fut["W"], fut'["W"]} \subseteq {"due", "parked"}
           \/ {fut["W"], fut'["W"]} \subseteq {"idle", "awake", "done"}
  PROVE  CESStep
  BY CallIs, CallNext DEF CESStep, CES!vars

\* A write that ends without having taken anything.
LEMMA CESFail ==
  ASSUME fut["W"] \in {"due", "parked"}, fut'["W"] \notin {"due", "parked"},
         UNCHANGED <<Conn, First, wire, accepted>>
  PROVE  CESStep
  BY CallIs, CallNext DEF CESStep, CES!Next, CES!Fail

\* The network and the executor.
LEMMA CESExternal ==
  ASSUME CESInv, External, UNCHANGED winVars
  PROVE  CESStep
<1> USE CESTypes DEF External, Outside, streamVars, execVars, userVars, winVars
<1>0. UNCHANGED First
  BY FirstSame
<1>1. CASE HandshakeOk
  <2>1. phase \in {"syn", "fastsyn"} /\ phase' = "est" /\ UNCHANGED <<wire, accepted, fut>>
    BY <1>1 DEF HandshakeOk, Opening
  <2>2. Conn = "sent" /\ Conn' = "open" /\ UNCHANGED Call
    BY <2>1, ConnIs, ConnNext DEF Phases, Call, Waiting
  <2> QED
    BY <1>0, <2>1, <2>2 DEF CESStep, CES!Next, CES!Establish
<1>2. CASE Break
  <2>1. phase' = "dead" /\ phase \in {"syn", "fastsyn", "est"} /\ UNCHANGED <<wire, accepted, fut>>
    BY <1>2 DEF Break, Opening
  <2>2. Conn # "broken" /\ Conn' = "broken" /\ UNCHANGED Call
    BY <2>1, ConnIs, ConnNext DEF Phases, Call, Waiting
  <2> QED
    BY <1>0, <2>1, <2>2 DEF CESStep, CES!Next, CES!Break
<1>3. CASE PeerSends \/ Drain \/ Deliver
  BY <1>0, <1>3, ConnSame, CESQuiet DEF PeerSends, Drain, Deliver, sockVars
<1>4. CASE \E t \in Tasks : RunTask(t)
  <2>1. UNCHANGED <<phase, wire, accepted>>
        /\ (fut'["W"] = fut["W"] \/ (fut["W"] = "parked" /\ fut'["W"] = "due"))
    BY <1>4 DEF RunTask, Due, Futures, sockVars
  <2> QED
    BY <1>0, <2>1, ConnSame, CESQuiet
<1> QED
  BY <1>1, <1>2, <1>3, <1>4 DEF Network, Executor

\* The code that owns the write future begins a call, or drops one.
LEMMA CESUse ==
  ASSUME CESInv, Use, UNCHANGED winVars
  PROVE  CESStep
<1>1. UNCHANGED <<Conn, First, wire, accepted>>
  BY ConnSame, FirstSame DEF Use, Resume, Rest, Submit, sockVars, userVars, streamVars, winVars
<1>2. CASE fut["W"] = "awake" /\ fut'["W"] = "due"
  BY <1>1, <1>2, CallIs, CallNext DEF CESStep, CES!Next, CES!Begin
<1>3. CASE fut["W"] = "parked" /\ fut'["W"] = "awake"
  BY <1>1, <1>3, CESFail
<1>4. CASE fut'["W"] = fut["W"] \/ (fut["W"] = "parked" /\ fut'["W"] = "due")
           \/ {fut["W"], fut'["W"]} \subseteq {"idle", "awake", "done"}
  BY <1>1, <1>4, CESQuiet
<1> QED
  BY <1>2, <1>3, <1>4, CESTypes DEF Use, Resume, Rest, Submit, Due, Futures

\* The other steps all platforms have.
LEMMA CESShared ==
  ASSUME CESInv, SharedStep, UNCHANGED winVars
  PROVE  CESStep
<1> USE CESTypes DEF winVars, sockVars, userVars, execVars, streamVars
<1>1. CASE poll_write
  BY <1>1, ConnSame, FirstSame, CESQuiet DEF poll_write
<1>2. CASE PassOn("Connected")
  <2>1. pc = "top" /\ stream = "Connected" /\ state = "Connected" /\ fut["W"] = "due"
        /\ wire = accepted /\ UNCHANGED First
    BY <1>2, FirstSame DEF PassOn, Polling, ConnectExOnce
  <2>2. CASE WritePends
    BY <2>1, <2>2, ConnSame, CESQuiet DEF WritePends, Park, Futures
  <2>3. CASE WriteTakes(buf)
    <3>1. PICK n \in Taken(buf) : wire' = wire + n /\ accepted' = accepted + n
      BY <2>3 DEF WriteTakes
    <3>2. n \in Nat
      BY DEF Taken
    <3>3. phase = "est" /\ UNCHANGED phase /\ fut'["W"] = "awake"
      BY <2>3 DEF WriteTakes, CanSend, Return, Futures
    <3>4. Conn = "open" /\ UNCHANGED Conn /\ Call = "pending" /\ Call' = "none" /\ First = "settled"
      BY <2>1, <3>3, ConnIs, ConnSame, CallIs, CallNext, FirstIs
    <3> QED
      BY <2>1, <3>1, <3>2, <3>4 DEF CESStep, CES!Next, CES!TakeAndTell
  <2>4. CASE WriteFails
    BY <2>1, <2>4, ConnSame, CESFail DEF WriteFails, Return, Futures
  <2> QED
    BY <1>2, <2>2, <2>3, <2>4 DEF PassOn
<1>3. CASE unreachable
  BY <1>3, ConnSame, FirstSame, CESFail DEF unreachable, Panic, Polling, Futures
<1>4. CASE ConnectFails
  <2>1. phase' = "closed" /\ UNCHANGED <<wire, accepted, fut, state, ovl>>
    BY <1>4 DEF ConnectFails, TakeError
  <2>2. Conn' = "broken" /\ UNCHANGED Call /\ UNCHANGED First
    BY <2>1, ConnNext, FirstSame DEF Phases, Call, Waiting
  <2> QED
    BY <2>1, <2>2, CESQuiet DEF CESStep, CES!Next, CES!Break
<1>5. CASE ReturnConnecting \/ Terminated \/ poll_shutdown({})
  BY <1>5, ConnSame, FirstSame, CESQuiet DEF ReturnConnecting, Terminated, armVars, poll_shutdown
<1>6. CASE poll_read \/ accessor
  <2>1. UNCHANGED <<phase, wire, accepted, state, ovl>>
        /\ (fut'["W"] = fut["W"] \/ (fut["W"] = "awake" /\ fut'["W"] = "done"))
    BY <1>6 DEF poll_read, accessor, Panic, TokioPollRead, Park, Return, TakeError, Futures
  <2> QED
    BY <2>1, ConnSame, FirstSame, CESQuiet
<1> QED
  BY <1>1, <1>2, <1>3, <1>4, <1>5, <1>6, CESUse, CESExternal DEF SharedStep

\* ConnectEx: called, its stream registered, its result collected.
LEMMA CESArm == CESInv /\ WinArm => CESStep
<1> SUFFICES ASSUME CESInv, WinArm PROVE CESStep
  OBVIOUS
<1> USE CESTypes DEF winVars, sockVars, userVars, execVars, streamVars
<1>1. CASE connect_ex
  <2>1. /\ pc = "top" /\ state = "FastOpenConnect" /\ ovl = "none" /\ phase = "new"
        /\ fut["W"] = "due" /\ UNCHANGED <<fut, state, accepted>>
    BY <1>1 DEF connect_ex, UncalledOK, PhaseOK, Polling
  <2>2. Conn = "unsent" /\ First = "none" /\ Call = "pending" /\ Call' = "pending"
    BY <2>1, ConnIs, FirstIs, CallIs, CallNext
  <2>3. CASE ret' = "ok"
    <3>1. PICK n \in Taken(buf) : wire' = wire + n
      BY <1>1, <2>3 DEF connect_ex
    <3>2. n \in Nat
      BY DEF Taken
    <3>3. phase' = "est" /\ ovl' = "done"
      BY <1>1, <2>3 DEF connect_ex
    <3>4. Conn' = "open" /\ First' = "landed"
      BY <2>1, <3>3, ConnNext, FirstNext DEF Phases
    <3> QED
      BY <2>1, <2>2, <3>1, <3>2, <3>4 DEF CESStep, CES!Next, CES!SendNow
  <2>4. CASE ret' = "inprogress"
    <3>1. phase' \in {"syn", "fastsyn"} /\ ovl' = "pending" /\ wire' = wire
      BY <1>1, <2>4 DEF connect_ex
    <3>2. Conn' = "sent" /\ First' = "flying"
      BY <2>1, <3>1, ConnNext, FirstNext DEF Phases
    <3> QED
      BY <2>1, <2>2, <3>1, <3>2 DEF CESStep, CES!Next, CES!Start
  <2>5. CASE UNCHANGED <<phase, wire, ovl>>
    BY <2>1, <2>5, ConnSame, FirstSame, CESQuiet
  <2> QED
    BY <1>1, <2>3, <2>4, <2>5 DEF connect_ex
<1>2. CASE connect_ex_adopt
  <2>1. /\ pc = "adopt" /\ fut["W"] = "due" /\ stream = "Connecting" /\ state = "FastOpenConnect"
    BY <1>2 DEF connect_ex_adopt, AdoptFails, Polling, PlaceOK, RegOK
  <2>2. CASE ret = "ok" /\ Adopt("Connected") /\ fut' = [fut EXCEPT !["W"] = "awake"]
             /\ Settle(cnt) /\ UNCHANGED sockVars
    <3>1. ovl = "done" /\ wire = accepted + cnt /\ state' = "Connected" /\ accepted' = accepted + cnt
      BY <2>1, <2>2 DEF CountOK, ConnectExOnce, Adopt, Settle
    <3>2. First = "landed" /\ First' = "settled" /\ Call = "pending" /\ Call' = "none"
      BY <2>1, <2>2, <3>1, FirstIs, FirstNext, CallIs, CallNext DEF Futures
    <3> QED
      BY <2>2, <3>1, <3>2, ConnSame DEF CESStep, CES!Next, CES!Collect
  <2>3. CASE ret = "inprogress" /\ Adopt("FastOpenConnecting") /\ UNCHANGED <<sockVars, fut, userVars, winVars>>
    <3>1. UNCHANGED First
      BY <2>1, <2>3, FirstIs, FirstNext DEF Adopt
    <3> QED
      BY <2>3, <3>1, ConnSame, CESQuiet
  <2>4. CASE AdoptFails /\ UNCHANGED winVars
    <3>1. phase' = "closed" /\ fut'["W"] = "awake" /\ UNCHANGED <<wire, accepted, state, ovl>>
      BY <2>4 DEF AdoptFails, Return, Futures
    <3>2. Conn' = "broken" /\ UNCHANGED First /\ Call = "pending" /\ Call' = "none"
      BY <2>1, <3>1, ConnNext, FirstSame, CallIs, CallNext DEF Phases
    <3> QED
      BY <3>1, <3>2 DEF CESStep, CES!Next, CES!Lose
  <2>5. CASE Return("W") /\ UNCHANGED <<sockVars, userVars, streamVars, winVars>>
    BY <2>1, <2>5, ConnSame, FirstSame, CESFail DEF Return, Futures
  <2> QED
    BY <1>2, <2>2, <2>3, <2>4, <2>5 DEF connect_ex_adopt
<1>3. CASE FastOpenConnecting_wait
  BY <1>3, ConnSame, FirstSame, CESQuiet DEF FastOpenConnecting_wait, poll_write_ready, Park, Polling, Futures
<1>4. CASE WSAGetOverlappedResult
  BY <1>4, ConnSame, FirstSame, CESQuiet DEF WSAGetOverlappedResult
<1>5. CASE FastOpenConnecting_match
  <2>1. /\ pc = "match" /\ fut["W"] = "due" /\ stream = "Connected" /\ state = "FastOpenConnecting"
        /\ UNCHANGED <<phase, wire, ovl>> /\ UNCHANGED Conn
    BY <1>5, ConnSame DEF FastOpenConnecting_match, Polling, RegOK, MatchOK
  <2>2. CASE ret = "ok" /\ state' = "Connected" /\ Settle(cnt) /\ Return("W")
    <3>1. ovl = "done" /\ wire = accepted + cnt /\ accepted' = accepted + cnt
      BY <2>1, <2>2 DEF CountOK, ConnectExOnce, Settle
    <3>2. First = "landed" /\ First' = "settled" /\ Call = "pending" /\ Call' = "none"
      BY <2>1, <2>2, <3>1, FirstIs, FirstNext, CallIs, CallNext DEF Return, Futures
    <3> QED
      BY <2>1, <3>1, <3>2 DEF CESStep, CES!Next, CES!Collect
  <2>3. CASE Return("W") /\ UNCHANGED <<state, accepted>>
    BY <2>1, <2>3, FirstSame, CESFail DEF Return, Futures
  <2>4. CASE UNCHANGED <<execVars, userVars, state>>
    BY <2>1, <2>4, FirstSame, CESQuiet
  <2> QED
    BY <1>5, <2>2, <2>3, <2>4 DEF FastOpenConnecting_match, socket_take_error
<1> QED
  BY <1>1, <1>2, <1>3, <1>4, <1>5 DEF WinArm

\* What comes of a listener, and what comes of the overlapped call.
LEMMA CESRest == CESInv /\ (WinFrom \/ WinConnect \/ ConnectExEnds) => CESStep
<1> SUFFICES ASSUME CESInv, WinFrom \/ WinConnect \/ ConnectExEnds PROVE CESStep
  OBVIOUS
<1> USE CESTypes DEF winVars, sockVars, userVars, execVars, streamVars
<1>1. CASE WinFrom
  <2>1. phase = "new" /\ phase' = "est" /\ state' = "Connected" /\ UNCHANGED <<wire, accepted, fut>>
    BY <1>1 DEF WinFrom, from, PhaseOK
  <2>2. Conn = "unsent" /\ Conn' = "open" /\ First' = "settled" /\ UNCHANGED Call
    BY <2>1, ConnIs, ConnNext, FirstNext DEF Phases, Call, Waiting
  <2> QED
    BY <2>1, <2>2 DEF CESStep, CES!Next, CES!Wrap
<1>2. CASE WinConnect
  BY <1>2, ConnSame, FirstSame, CESQuiet DEF WinConnect, connect_with_socket
<1>3. CASE ConnectExEnds
  <2>1. ovl = "pending" /\ state # "Connected" /\ UNCHANGED <<phase, state, accepted, fut>>
    BY <1>3 DEF ConnectExEnds, ContextUpdated
  <2>2. First = "flying" /\ UNCHANGED Conn /\ UNCHANGED Call
    BY <2>1, FirstIs, ConnSame DEF Call, Waiting
  <2>3. CASE phase = "est" /\ ovl' = "done" /\ \E n \in Taken(given) : wire' = wire + n
    <3>1. PICK n \in Taken(given) : wire' = wire + n
      BY <2>3
    <3>2. n \in Nat
      BY DEF Taken
    <3>3. Conn = "open" /\ First' = "landed"
      BY <2>1, <2>3, ConnIs, FirstNext
    <3> QED
      BY <2>1, <2>2, <3>1, <3>2, <3>3 DEF CESStep, CES!Next, CES!Land
  <2>4. CASE phase = "dead" /\ ovl' = "failed" /\ wire' = wire
    <3>1. Conn = "broken" /\ First' = "lost"
      BY <2>1, <2>4, ConnIs, FirstNext
    <3> QED
      BY <2>1, <2>2, <2>4, <3>1 DEF CESStep, CES!Next, CES!Miss
  <2> QED
    BY <1>3, <2>3, <2>4 DEF ConnectExEnds
<1> QED
  BY <1>1, <1>2, <1>3

\* The Windows stream implements ConnectExStream: what ConnectEx sent answers
\* one write, the first to find the result, and no write takes bytes before
\* (windows/mod.rs:272-432).
THEOREM WindowsImplements == Spec => ConnectExRefinement
<1>1. Init => CES!Init
  BY ConnIs, FirstIs, CallIs DEF Init, ArmsInit, TokioInit, CES!Init, Phases, Futures
<1>2. CESInv /\ [Next]_vars => CESStep
  <2>1. CESInv /\ UNCHANGED vars => CESStep
    BY ConnSame, FirstSame, CESQuiet DEF vars, winVars, armVars, sockVars, userVars, execVars, streamVars
  <2> QED
    BY <2>1, WinNext, CESShared, CESArm, CESRest
<1>3. Spec => []CESInv
  BY WinAlways, WinEventInv, WinMatchOK, PTL DEF CESInv
<1> QED
  BY <1>1, <1>2, <1>3, PTL DEF Spec, ConnectExRefinement, CES!Spec, CESStep

-----------------------------------------------------------------------------
(* Two promises the code breaks, and the only way it does.                  *)

\* A write of fewer bytes than ConnectEx was called with, submitted before the
\* result of ConnectEx is known.
ShortRetry ==
  state = "FastOpenConnecting" /\ fut["W"] = "awake" /\ fut'["W"] = "due" /\ buf' < given

\* What ConnectEx sent fits its buffer, and that fits the write that waits.
FitOK ==
  /\ ovl = "pending" => owed = 0
  /\ state = "FastOpenConnecting" => stream = "Connected"
  /\ state = "FastOpenConnecting" \/ (pc = "adopt" /\ ret = "inprogress") => owed <= given
  /\ pc = "adopt" /\ ret = "inprogress" => given <= buf
  /\ state = "FastOpenConnecting" /\ Waiting("W") => given <= buf

\* The owner's code: only a short retry breaks it.
LEMMA FitUse ==
  ASSUME CESInv, FitOK, Use, UNCHANGED winVars, ~ShortRetry
  PROVE  FitOK'
<1> USE CESTypes DEF FitOK, streamVars, winVars, Waiting
<1>1. UNCHANGED <<state, stream, ovl, owed, given, pc, ret>>
  BY DEF Use
<1>2. CASE UNCHANGED buf
  <2>1. fut'["W"] \in {"due", "parked"} => fut["W"] \in {"due", "parked"} \/ Submit("W")
    BY DEF Use, Resume, Rest, Submit, Due, Futures
  <2>2. CASE Submit("W")
    <3>1. fut["W"] = "awake" /\ fut'["W"] = "due"
      BY <2>2 DEF Submit, Futures
    <3>2. pc # "adopt"
      BY <3>1 DEF Polling
    <3> QED
      BY <1>1, <1>2, <3>1, <3>2 DEF ShortRetry
  <2>3. CASE fut'["W"] \in {"due", "parked"} => fut["W"] \in {"due", "parked"}
    BY <1>1, <1>2, <2>3
  <2> QED
    BY <2>1, <2>2, <2>3
<1>3. CASE Submit("W") /\ \E n \in 0..MaxBuf : buf' = n
  <2>1. fut["W"] = "awake" /\ fut'["W"] = "due" /\ buf' \in Nat
    BY <1>3 DEF Submit, Futures
  <2>2. pc # "adopt"
    BY <2>1 DEF Polling
  <2> QED
    BY <1>1, <2>1, <2>2 DEF ShortRetry
<1> QED
  BY <1>2, <1>3 DEF Use

\* No other step the platforms share has to do with it.
LEMMA FitShared ==
  ASSUME CESInv, FitOK, SharedStep, UNCHANGED winVars, ~Use
  PROVE  FitOK'
<1> USE CESTypes DEF FitOK, Waiting, EndCall, Futures, streamVars, callVars, execVars, winVars
<1>1. CASE poll_write
  BY <1>1 DEF poll_write
<1>2. CASE PassOn("Connected")
  BY <1>2 DEF PassOn
<1>3. CASE unreachable
  BY <1>3 DEF unreachable, Panic
<1>4. CASE ConnectFails \/ (pc = "probe" /\ ReturnConnecting) \/ Terminated
  BY <1>4 DEF ConnectFails, ReturnConnecting, Terminated, armVars, PlaceOK, RegOK
<1>5. CASE poll_read \/ accessor
  <2>1. /\ pc = "none" /\ pc' = "none" /\ UNCHANGED <<state, stream, ovl, owed, given>>
        /\ fut'["W"] \in {"due", "parked"} => fut["W"] \in {"due", "parked"}
        /\ stream = "Empty" \/ UNCHANGED buf
    BY <1>5 DEF poll_read, accessor, Panic, TokioPollRead, Park, Return
  <2> QED
    BY <2>1
<1>6. CASE External
  BY <1>6 DEF External, Outside, Network, Executor, HandshakeOk, Break, PeerSends, Drain, Deliver,
              RunTask, Due
<1>7. CASE poll_shutdown({})
  BY <1>7 DEF poll_shutdown
<1> QED
  BY <1>1, <1>2, <1>3, <1>4, <1>5, <1>6, <1>7 DEF SharedStep

\* ConnectEx is given the buffer of the write that waits, and sends some of it.
LEMMA FitArm == CESInv /\ FitOK /\ WinArm => FitOK'
<1> SUFFICES ASSUME CESInv, FitOK, WinArm PROVE FitOK'
  OBVIOUS
<1> USE CESTypes DEF FitOK, Waiting, EndCall, Futures, streamVars, userVars, execVars, winVars
<1>1. CASE connect_ex
  <2>1. pc = "top" /\ owed = 0 /\ ovl = "none" /\ state = "FastOpenConnect" /\ pc' = "adopt"
        /\ UNCHANGED <<state, buf>>
    BY <1>1 DEF connect_ex, UncalledOK
  <2> QED
    BY <1>1, <2>1 DEF connect_ex
<1>2. CASE connect_ex_adopt
  <2>1. pc = "adopt" /\ stream = "Connecting" /\ state = "FastOpenConnect"
    BY <1>2 DEF connect_ex_adopt, AdoptFails, PlaceOK, RegOK
  <2>2. CASE ret = "ok" /\ Adopt("Connected") /\ Settle(cnt) /\ EndCall /\ UNCHANGED ovl
    BY <2>1, <2>2 DEF Adopt, Settle, CountOK
  <2>3. CASE ret = "inprogress" /\ Adopt("FastOpenConnecting") /\ pc' = "top"
             /\ UNCHANGED <<buf, winVars>>
    BY <2>1, <2>3 DEF Adopt
  <2>4. CASE AdoptFails /\ UNCHANGED winVars
    BY <2>1, <2>4 DEF AdoptFails
  <2>5. CASE EndCall /\ UNCHANGED <<streamVars, winVars>>
    BY <2>1, <2>5
  <2> QED
    BY <1>2, <2>2, <2>3, <2>4, <2>5 DEF connect_ex_adopt
<1>3. CASE FastOpenConnecting_wait
  <2>1. fut["W"] = "due" /\ pc' \in {"none", "send"} /\ UNCHANGED <<state, stream, buf, ret, winVars>>
    BY <1>3 DEF FastOpenConnecting_wait, poll_write_ready, Polling
  <2> QED
    BY <2>1
<1>4. CASE WSAGetOverlappedResult
  BY <1>4 DEF WSAGetOverlappedResult
<1>5. CASE FastOpenConnecting_match
  <2>1. pc = "match" /\ state = "FastOpenConnecting" /\ UNCHANGED <<stream, ovl, given>>
    BY <1>5 DEF FastOpenConnecting_match, MatchOK
  <2>2. CASE ret = "ok" /\ state' = "Connected" /\ Settle(cnt) /\ EndCall
    BY <2>1, <2>2 DEF Settle, CountOK
  <2>3. CASE Return("W") /\ EndCall /\ UNCHANGED <<state, owed>>
    BY <2>1, <2>3 DEF Return
  <2>4. CASE pc' = "top" /\ UNCHANGED <<execVars, state, buf, owed>>
    BY <2>1, <2>4
  <2> QED
    BY <1>5, <2>2, <2>3, <2>4 DEF FastOpenConnecting_match, socket_take_error
<1> QED
  BY <1>1, <1>2, <1>3, <1>4, <1>5 DEF WinArm

LEMMA FitRest == CESInv /\ FitOK /\ (WinFrom \/ WinConnect \/ ConnectExEnds) => FitOK'
<1> SUFFICES ASSUME CESInv, FitOK, WinFrom \/ WinConnect \/ ConnectExEnds PROVE FitOK'
  OBVIOUS
<1> USE CESTypes DEF FitOK, Waiting, streamVars, callVars, execVars, winVars
<1>1. CASE WinFrom
  BY <1>1 DEF WinFrom, from
<1>2. CASE WinConnect
  BY <1>2 DEF WinConnect, connect_with_socket
<1>3. CASE ConnectExEnds
  <2>1. owed = 0 /\ UNCHANGED <<state, stream, given, pc, ret, buf, fut>>
    BY <1>3 DEF ConnectExEnds
  <2>2. CASE ovl' = "done" /\ \E n \in Taken(given) : owed' = owed + n
    <3>1. PICK n \in Taken(given) : owed' = owed + n
      BY <2>2
    <3>2. n \in Nat /\ n <= given
      BY DEF Taken
    <3> QED
      BY <2>1, <2>2, <3>1, <3>2
  <2>3. CASE ovl' = "failed" /\ UNCHANGED owed
    BY <2>1, <2>3
  <2> QED
    BY <1>3, <2>2, <2>3 DEF ConnectExEnds
<1> QED
  BY <1>1, <1>2, <1>3

\* The debug_assert! on the bytes sent can fail only after a write was dropped
\* while ConnectEx was pending and a shorter one followed: where no caller does
\* that, what is reported fits the buffer (windows/mod.rs:373-399).
THEOREM WindowsCountFits == Spec /\ [][~ShortRetry]_vars => []CountFits
<1>1. Init => FitOK
  BY DEF Init, ArmsInit, FitOK
<1>2. CESInv /\ FitOK /\ [Next]_vars /\ [~ShortRetry]_vars => FitOK'
  <2> SUFFICES ASSUME CESInv, FitOK, [Next]_vars, [~ShortRetry]_vars PROVE FitOK'
    OBVIOUS
  <2>1. CASE UNCHANGED vars
    BY <2>1 DEF FitOK, Waiting, vars, winVars, armVars, streamVars, callVars, execVars
  <2>2. CASE Next /\ ~ShortRetry
    BY <2>2, WinNext, FitUse, FitShared, FitArm, FitRest
  <2> QED
    BY <2>1, <2>2
<1>3. CESInv /\ FitOK => CountFits
  <2> SUFFICES ASSUME CESInv, FitOK, pc = "match", ret = "ok" PROVE cnt <= buf
    BY DEF CountFits
  <2>1. state = "FastOpenConnecting" /\ fut["W"] = "due" /\ cnt = owed
    BY CESTypes DEF MatchOK, CountOK, Polling
  <2> QED
    BY <2>1, CESTypes DEF FitOK, Waiting
<1>4. Spec => []CESInv
  BY WinAlways, WinEventInv, WinMatchOK, PTL DEF CESInv
<1> QED
  BY <1>1, <1>2, <1>3, <1>4, PTL DEF Spec

\* Only the SO_ERROR check of a stream whose ConnectEx is done drops an error:
\* before it is Connected, whoever clears SO_ERROR returns it
\* (windows/mod.rs:416-424).
THEOREM WindowsConnectingFailureReported ==
  Spec => [](state # "Connected" => FailureReported)
<1> DEFINE Reported == state # "Connected" => FailureReported
<1>1. Init => Reported
  BY ReportedInit DEF Init
<1>2. CESInv /\ Reported /\ [Next]_vars => Reported'
  <2> SUFFICES ASSUME CESInv, Reported, [Next]_vars, state' # "Connected" PROVE FailureReported'
    OBVIOUS
  <2> USE CESTypes DEF FailureReported
  <2>1. ASSUME state = "Connected" PROVE FALSE
    <3>1. CASE WinArm
      BY <2>1, <3>1 DEF WinArm, connect_ex, connect_ex_adopt, FastOpenConnecting_wait,
         WSAGetOverlappedResult, FastOpenConnecting_match, MatchOK, PlaceOK, RegOK, AdoptFails,
         streamVars
    <3>2. CASE SharedStep \/ WinFrom \/ WinConnect \/ ConnectExEnds \/ UNCHANGED vars
      BY <2>1, <3>2 DEF SharedStep, poll_write, PassOn, unreachable, Panic, ConnectFails, ReturnConnecting,
         poll_read, accessor, Use, Terminated, External, Outside, poll_shutdown, WinFrom, from, WinConnect,
         connect_with_socket, ConnectExEnds, vars, armVars, streamVars
    <3> QED
      BY <3>1, <3>2, WinNext
  <2>2. FailureReported
    BY <2>1
  <2>3. CASE WinArm
    BY <2>2, <2>3 DEF WinArm, connect_ex, connect_ex_adopt, AdoptFails, FastOpenConnecting_wait,
       poll_write_ready, WSAGetOverlappedResult, FastOpenConnecting_match, socket_take_error,
       sockVars, userVars
  <2>4. CASE WinConnect \/ ConnectExEnds
    BY <2>2, <2>4 DEF WinConnect, connect_with_socket, ConnectExEnds, sockVars, userVars
  <2> QED
    BY <2>2, <2>3, <2>4, WinKinds, ReportedStep, ReportedStutter
<1>3. Spec => []CESInv
  BY WinAlways, WinEventInv, WinMatchOK, PTL DEF CESInv
<1> QED
  BY <1>1, <1>2, <1>3, PTL DEF Spec
=============================================================================
