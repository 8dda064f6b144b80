----------------------------- MODULE MCUdpTrans -----------------------------
(* Three senders, keys that are no ints from the third on, and a freed     *)
(* packet that seems to hold the key of another request.                   *)
EXTENDS UdpTrans

CONSTANTS s1, s2, s3

AllSenders == {s1, s2, s3}
OneTwice == [s \in Senders |-> IF s = s1 THEN 2 ELSE 1]
=============================================================================
