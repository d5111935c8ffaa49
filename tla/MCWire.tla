------------------------------- MODULE MCWire -------------------------------
(***************************************************************************)
(* Wire with bytes of two values and fields of two bytes: frames of four   *)
(* and five bytes, through a socket that holds five of them on the way to  *)
(* the server and two on the way back.  One request and one reply are      *)
(* refused, by an unknown id and by a payload that is too long.            *)
(***************************************************************************)
EXTENDS Wire

Short == [id |-> 1, payload |-> <<>>]
Long == [id |-> 2, payload |-> <<1>>]
Unknown == [id |-> 3, payload |-> <<>>]
TooLong == [id |-> 1, payload |-> <<0, 1>>]

MCLogin == Short
MCRequests == {Short, Unknown}
MCReplies == {Short, Long, TooLong}
=============================================================================
