--------------------------- MODULE SettingsRegister ---------------------------
(***************************************************************************)
(* What a settings file promises to everyone who edits it: edits apply one *)
(* after another, each on top of all the earlier ones, and an edit its     *)
(* author was told is saved stays in the file.                             *)
(***************************************************************************)
EXTENDS Sequences

CONSTANT Edit

VARIABLES
  content,      \* the edits the file holds, in the order they were applied
  acknowledged  \* the edits whose author was told they are saved

RegisterInit == content = <<>> /\ acknowledged = {}

Held == {content[i] : i \in DOMAIN content}

Apply(e) == /\ e \notin Held
            /\ content' = Append(content, e)
            /\ UNCHANGED acknowledged

Acknowledge(e) == /\ e \in Held
                  /\ acknowledged' = acknowledged \cup {e}
                  /\ UNCHANGED content

RegisterNext == \E e \in Edit : Apply(e) \/ Acknowledge(e)

RegisterSpec == RegisterInit /\ [][RegisterNext]_<<content, acknowledged>>

=============================================================================
