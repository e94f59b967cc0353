----------------------------- MODULE MCHttpAccess -----------------------------
(* HttpAccess with a device of the local network and one from the internet. *)
EXTENDS HttpAccess, TLC

CONSTANTS r1, r2, c1, c2, t1, t2

Networks == c1 :> "local" @@ c2 :> "internet"

=============================================================================
