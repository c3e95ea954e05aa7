-------------------------- MODULE ConnectExStream --------------------------
(***************************************************************************)
(* What the TcpStream of Windows promises its writer.  One ConnectEx opens *)
(* the connection and sends the first buffer.  Whichever write finds its   *)
(* result is answered with the bytes it sent, once; only then does the     *)
(* connection take more.                                                   *)
(*                                                                         *)
(* first is that ConnectEx: none until it is called, flying while it is    *)
(* pending, landed when its bytes are sent and untold, settled when a      *)
(* write was answered with them (or the connection came from a listener),  *)
(* lost when it failed.                                                    *)
(***************************************************************************)
EXTENDS Naturals

VARIABLES conn, first, write, taken, accepted
vars == <<conn, first, write, taken, accepted>>

TypeOK ==
  /\ conn \in {"unsent", "sent", "open", "broken"}
  /\ first \in {"none", "flying", "landed", "settled", "lost"}
  /\ write \in {"none", "pending"}
  /\ taken \in Nat /\ accepted \in Nat

Init == conn = "unsent" /\ first = "none" /\ write = "none" /\ taken = 0 /\ accepted = 0

Begin == write = "none" /\ write' = "pending" /\ UNCHANGED <<conn, first, taken, accepted>>

\* The write fails, or its future is dropped: it took nothing, and what
\* ConnectEx sends for it stays for the next.
Fail == write = "pending" /\ write' = "none" /\ UNCHANGED <<conn, first, taken, accepted>>

\* ConnectEx is called, and is pending or done at once.
Start ==
  /\ conn = "unsent" /\ write = "pending"
  /\ conn' = "sent" /\ first' = "flying"
  /\ UNCHANGED <<write, taken, accepted>>
SendNow ==
  /\ conn = "unsent" /\ write = "pending"
  /\ conn' = "open" /\ first' = "landed" /\ taken' >= taken
  /\ UNCHANGED <<write, accepted>>

\* A listener's connection is wrapped.
Wrap ==
  /\ conn = "unsent"
  /\ conn' = "open" /\ first' = "settled"
  /\ UNCHANGED <<write, taken, accepted>>

Establish == conn = "sent" /\ conn' = "open" /\ UNCHANGED <<first, write, taken, accepted>>
Break == conn # "broken" /\ conn' = "broken" /\ UNCHANGED <<first, write, taken, accepted>>

\* The pending call ends as the connection does.
Land ==
  /\ first = "flying" /\ conn = "open"
  /\ first' = "landed" /\ taken' >= taken
  /\ UNCHANGED <<conn, write, accepted>>
Miss ==
  /\ first = "flying" /\ conn = "broken"
  /\ first' = "lost"
  /\ UNCHANGED <<conn, write, taken, accepted>>

\* A write is answered with what ConnectEx sent, be the connection alive or not.
Collect ==
  /\ write = "pending" /\ first = "landed"
  /\ write' = "none" /\ first' = "settled" /\ accepted' = taken
  /\ UNCHANGED <<conn, taken>>

\* Every later write takes bytes and is told of them at once.
TakeAndTell ==
  /\ write = "pending" /\ first = "settled" /\ conn = "open"
  /\ write' = "none" /\ taken' >= taken /\ accepted' = taken'
  /\ UNCHANGED <<conn, first>>

\* The stream cannot be registered and goes, with what ConnectEx sent.
Lose ==
  /\ write = "pending"
  /\ write' = "none" /\ conn' = "broken"
  /\ UNCHANGED <<first, taken, accepted>>

Next == \/ Begin \/ Fail \/ Start \/ SendNow \/ Wrap \/ Establish \/ Break
        \/ Land \/ Miss \/ Collect \/ TakeAndTell \/ Lose
Spec == Init /\ [][Next]_vars
=============================================================================
