---------------------- MODULE MCThreadMessageClients -----------------------
(* Three senders and two receivers with uneven shares of work. *)
EXTENDS ThreadMessageClients, TLC

CONSTANTS s1, s2, s3, r1, r2

MCSenders == {s1, s2, s3}
MCReceivers == {r1, r2}
MCWorkload == (s1 :> 2) @@ (s2 :> 1) @@ (s3 :> 2) @@ (r1 :> 1) @@ (r2 :> 2)
=============================================================================
