--------------------------- MODULE FastOpenStream ---------------------------
(***************************************************************************)
(* What a TcpStream promises its writer, on every platform: bytes go out   *)
(* with the SYN or once the connection is open, and nothing in between;    *)
(* each write is answered with the bytes it took, once.                    *)
(*                                                                         *)
(* conn follows the connection and write the call of poll_write in         *)
(* progress: "taken" when the kernel has its bytes and the caller has not  *)
(* been told.                                                              *)
(***************************************************************************)
EXTENDS Naturals

VARIABLES conn, write, taken, accepted
vars == <<conn, write, taken, accepted>>

TypeOK ==
  /\ conn \in {"unsent", "sent", "open", "broken"}
  /\ write \in {"none", "pending", "taken"}
  /\ taken \in Nat /\ accepted \in Nat

Init == conn = "unsent" /\ write = "none" /\ taken = 0 /\ accepted = 0

Begin == write = "none" /\ write' = "pending" /\ UNCHANGED <<conn, taken, accepted>>

\* The write fails, or its future is dropped: it took nothing.
Fail == write = "pending" /\ write' = "none" /\ UNCHANGED <<conn, taken, accepted>>

\* The SYN goes out with bytes of the first write, or with none.
SynData ==
  /\ conn = "unsent" /\ write = "pending"
  /\ conn' = "sent" /\ write' = "taken" /\ taken' > taken
  /\ UNCHANGED accepted
Syn == conn = "unsent" /\ conn' = "sent" /\ UNCHANGED <<write, taken, accepted>>

\* A listener's connection is wrapped.
Wrap == conn = "unsent" /\ conn' = "open" /\ UNCHANGED <<write, taken, accepted>>

Establish == conn = "sent" /\ conn' = "open" /\ UNCHANGED <<write, taken, accepted>>
Break == conn # "broken" /\ conn' = "broken" /\ UNCHANGED <<write, taken, accepted>>

\* An open connection takes bytes; the caller is told now or later.
Take ==
  /\ conn = "open" /\ write = "pending"
  /\ write' = "taken" /\ taken' >= taken
  /\ UNCHANGED <<conn, accepted>>
TakeAndTell ==
  /\ conn = "open" /\ write = "pending"
  /\ write' = "none" /\ taken' >= taken /\ accepted' = taken'
  /\ UNCHANGED conn
Tell ==
  /\ write = "taken"
  /\ write' = "none" /\ accepted' = taken
  /\ UNCHANGED <<conn, taken>>

\* from_std fails: the stream goes, and with it what the write may have taken.
Lose ==
  /\ write # "none"
  /\ write' = "none" /\ conn' = "broken"
  /\ UNCHANGED <<taken, accepted>>

Next == \/ Begin \/ Fail \/ SynData \/ Syn \/ Wrap \/ Establish \/ Break
        \/ Take \/ TakeAndTell \/ Tell \/ Lose
Spec == Init /\ [][Next]_vars
=============================================================================
