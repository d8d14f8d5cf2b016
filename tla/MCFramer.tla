------------------------------ MODULE MCFramer -------------------------------
(* Payloads for TLC, over a buffer of eight bytes and reads of up to three.  *)
(* Some payload bytes equal VERSION, so that a lost byte can go unnoticed.   *)
EXTENDS Framer

\* A partial packet and a read always fit: 6 - 1 + 3 = 8.
FittingPayloads == {<<>>, <<1>>, <<0, 1, 2, 1>>}

\* One byte longer, and still short of the limit pull enforces (full length 7 < 8).
LongPayloads == {<<1>>, <<0, 1, 2, 1, 0>>}
=============================================================================
