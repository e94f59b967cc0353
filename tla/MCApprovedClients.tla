-------------------------- MODULE MCApprovedClients --------------------------
(* Instances of ApprovedClients: one device is in the file, another may register. *)
EXTENDS ApprovedClients, TLC

CONSTANTS d1, d2, q1, q2, q3, t1, t2, t3, a1, a2, m1, m2

Swap == Permutations(SignIns) \cup Permutations(Commands)

\* Bound: three submissions race each other, or one races the commands and the sign-ins.  Requests
\* and tickets are interchangeable: they are used in order.
OneRace ==
  \/ \A q \in Requests \ {q1}, t \in Tickets \ {t1} : request[q] = "new" /\ ticket[t] = "none"
  \/ /\ \A m \in Commands : command[m].pc = "idle"
     /\ \A a \in SignIns : signIn[a].pc = "idle"
     /\ \A k \in DOMAIN queue : queue[k].kind = "submit"
     /\ restarts = 0
     /\ request[q1] = "new" => request[q2] = "new"
     /\ request[q2] = "new" => request[q3] = "new"
     /\ ticket[t1] = "none" => ticket[t2] = "none"
     /\ ticket[t2] = "none" => ticket[t3] = "none"

=============================================================================
