---------------------------- MODULE ControlHolder ---------------------------
(***************************************************************************)
(* What remote control promises: input is accepted from at most one peer,  *)
(* and passes from one peer to another only through nobody, so the keys    *)
(* one viewer holds are released before another viewer's input arrives.    *)
(***************************************************************************)
CONSTANT Streams
VARIABLE holders

Init == holders = {}

\* A peer becomes the one whose input is accepted.
Take(p) == holders = {} /\ holders' = {p}

\* The holder loses control: revoked, expired, disconnected or its worker ended.
Drop == holders # {} /\ holders' = {}

Next == (\E p \in Streams : Take(p)) \/ Drop

Spec == Init /\ [][Next]_holders

=============================================================================
