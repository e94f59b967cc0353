------------------------------- MODULE MCAccess -------------------------------
(* Who may sign in and what a stream may be: the admission budget, the policy file and its edits, *)
(* the requests of sessions; and what a latency measurement reads off a frame.  Modules that      *)
(* share no state, each on its own small instance; the initial state chooses the one that moves.  *)
EXTENDS KeyAdmission, SettingsFile, StreamPolicy, HttpAccess, LatencyCodes

CONSTANTS
  e1, e2, srv, t1, d1, d2, o1, o2, phone, desktop, r1, r2, c1, c2, t2

VARIABLE part

accessOf == <<part, keyVars, fileVars, policy, accessVars, codeVars>>

\* Bound: the code or the password is replaced, not both.
OneReplaced == issued["session"] = 1 \/ issued["ephemeral"] < 2

Networks == c1 :> "local" @@ c2 :> "internet"

\* The upper bound of the scale, a fixed size, and one that no encoder takes.
Sizes ==
  {[sizing |-> "scale", width |-> 64, height |-> 64, percent |-> 400, aspect |-> "keep"],
   [sizing |-> "fixed", width |-> 1920, height |-> 1080, percent |-> 100, aspect |-> "keep"],
   [sizing |-> "fixed", width |-> 1281, height |-> 720, percent |-> 100, aspect |-> "fit"]}

Screens == d1 :> <<5120, 1440>> @@ d2 :> <<600, 1024>>

\* A frame with contrast to spare, one that is just readable and one that is not.
Levels == {[black |-> 16, white |-> 235], [black |-> 60, white |-> 108], [black |-> 60, white |-> 107]}

\* Timings on either side of the limits.
Timed == {-121, 3, 120, 121, NotFinite}

\* The clock wraps; clocks that are as far apart as they may be, and by just what the server takes;
\* pointers that come in and go out.
Clocks == {Wrap - 2}
AfterWrap == Wrap + 2
Apart == {-(Wrap \div 2), -MaxOffset, Wrap \div 2 - 1}
Crossing == {-2, 2 * Steps - 2}

NoFrame ==
  /\ painted = Wrap - 2 /\ skew = 0 /\ seen \in {level \in Contrasts : level.black = 16}
  /\ changed = [cell |-> 1, luma |-> 0] /\ pointer = -2 /\ sampled = <<>>

AllInit ==
  /\ part \in {"keys", "file", "policy", "access", "codes"}
  /\ KeyInit /\ PolicyInit /\ AccessInit
  /\ IF part = "codes" THEN CodeInit ELSE NoFrame
  /\ FileInit /\ (part # "file" => file = "policy")
  /\ part # "access" => ~named

AllNext ==
  /\ UNCHANGED part
  /\ \/ part = "keys" /\ KeyNext /\ UNCHANGED <<fileVars, policy, accessVars, codeVars>>
     \/ part = "file" /\ FileNext /\ UNCHANGED <<keyVars, policy, accessVars, codeVars>>
     \/ part = "policy" /\ PolicyNext /\ UNCHANGED <<keyVars, fileVars, accessVars, codeVars>>
     \/ part = "access" /\ AccessNext /\ UNCHANGED <<keyVars, fileVars, policy, codeVars>>
     \/ part = "codes" /\ NextFrame /\ UNCHANGED <<keyVars, fileVars, policy, accessVars>>

AllSpec == AllInit /\ [][AllNext]_accessOf

=============================================================================
