----------------------------- MODULE SettingsFile -----------------------------
(***************************************************************************)
(* The two settings files, the stream policy (stream-policy-store.mjs) and *)
(* the access settings (access-settings.mjs), as the running server and    *)
(* `config` commands edit them (console.mjs, owner-commands.mjs,           *)
(* offline.mjs), and the replacement of the policy under connected devices *)
(* (policy-controller.mjs).                                                *)
(*                                                                         *)
(* A file's content is the sequence of the edits in it and its revision is *)
(* their number.  Every await of a save is a step of its own, and any of   *)
(* its file operations may fail; a process may die between any two.        *)
(***************************************************************************)
EXTENDS Naturals, Sequences, FiniteSets, SequencesExt

CONSTANTS
  Edits,     \* edits anyone may make
  Server,    \* the server process
  Tools,     \* `config` processes
  Devices,   \* devices that sign in
  MaxOpens,  \* bound on the starts of a process
  Free, Stranded, NoSession

Writers == {Server} \cup Tools

ASSUME FileAssumption ==
  /\ Server \notin Tools
  /\ Free \notin Writers /\ Stranded \notin Writers /\ Free # Stranded

VARIABLES
  file,     \* which of the two files this is: "policy" or "access"
  disk,     \* the file's content
  lock,     \* the .lock file: the writer that made it, Stranded when that one is gone
  mem,      \* #value: the content a process works from
  process,  \* "down", "open" once it read the file, "listed" with its instance file
  opens,    \* starts of each process
  edit,     \* each edit: its author, the content it was made from, its progress
  queue,    \* #queue: the saves of a process
  busy,     \* the policy controller is replacing the policy
  under,    \* the policy each session was admitted under
  signing   \* sign-ins waiting for the device's proof: the policy there was when they began

fileVars == <<file, disk, lock, mem, process, opens, edit, queue, busy, under, signing>>

Waiting == {"made", "queued"}
Saving == {"locked", "compared", "renamed", "adopted", "failed"}

FileInit ==
  /\ file \in {"policy", "access"}
  /\ disk = <<>>
  /\ lock = Free
  /\ mem = [w \in Writers |-> <<>>]
  /\ process = [w \in Writers |-> "down"]
  /\ opens = [w \in Writers |-> 0]
  /\ edit = [e \in Edits |-> [by |-> Server, base |-> <<>>, confirmed |-> FALSE, at |-> "new"]]
  /\ queue = [w \in Writers |-> <<>>]
  /\ busy = FALSE
  /\ under = [d \in Devices |-> NoSession]
  /\ signing = [d \in Devices |-> NoSession]

-----------------------------------------------------------------------------
\* The file is read once, when the process starts; a missing one gives the defaults.
Open(w) ==
  /\ process[w] = "down" /\ opens[w] < MaxOpens
  /\ process' = [process EXCEPT ![w] = "open"]
  /\ opens' = [opens EXCEPT ![w] = @ + 1]
  /\ mem' = [mem EXCEPT ![w] = disk]
  /\ UNCHANGED <<file, disk, lock, edit, queue, busy, under, signing>>

\* The server writes its instance file, after it read the settings; when that fails it goes on.
Register ==
  /\ process[Server] = "open"
  /\ process' = [process EXCEPT ![Server] = "listed"]
  /\ UNCHANGED <<file, disk, lock, mem, opens, edit, queue, busy, under, signing>>

\* ensureStopped: a config command refuses when it finds a live server's instance file.
MayEdit(w) == process[w] # "down" /\ (w # Server => process[Server] # "listed")

\* The edit is made from the settings the process holds: after the owner was asked whether to
\* disconnect the connected devices, in the console, or with a flag that says so, on the pipe.
Make(e, w) ==
  /\ edit[e].at = "new"
  /\ MayEdit(w)
  /\ \E confirmed \in BOOLEAN :
       edit' = [edit EXCEPT ![e] = [by |-> w, base |-> mem[w], confirmed |-> confirmed, at |-> "made"]]
  /\ UNCHANGED <<file, disk, lock, mem, process, opens, queue, busy, under, signing>>

\* The edit replaces the policy of a server that has devices to disconnect.
Controlled(e) == file = "policy" /\ edit[e].by = Server

Sessions == {d \in Devices : under[d] # NoSession}

\* PolicyController.replace asks for a confirmation and for its turn before it queues the save.
Replace(e) ==
  /\ edit[e].at = "made"
  /\ LET refused == Controlled(e) /\ (busy \/ (Sessions # {} /\ ~edit[e].confirmed))
         w == edit[e].by
     IN /\ edit' = [edit EXCEPT ![e].at = IF refused THEN "refused" ELSE "queued"]
        /\ queue' = IF refused THEN queue ELSE [queue EXCEPT ![w] = Append(@, e)]
        /\ busy' = IF Controlled(e) /\ ~refused THEN TRUE ELSE busy
  /\ UNCHANGED <<file, disk, lock, mem, process, opens, under, signing>>

-----------------------------------------------------------------------------
Saves(e, at) == edit[e].at = at /\ queue[edit[e].by] # <<>> /\ Head(queue[edit[e].by]) = e

At(e, at) == edit' = [edit EXCEPT ![e].at = at]

Leaves(e) == queue' = [queue EXCEPT ![edit[e].by] = Tail(@)]

\* The save begins: its revision must be the current one, and the lock file must not exist.
Lock(e) ==
  /\ Saves(e, "queued")
  /\ LET w == edit[e].by
     IN \/ /\ Len(edit[e].base) = Len(mem[w]) /\ lock = Free
           /\ lock' = w
           /\ At(e, "locked")
           /\ UNCHANGED <<queue, busy>>
        \/ /\ At(e, "refused")
           /\ Leaves(e)
           /\ busy' = IF Controlled(e) THEN FALSE ELSE busy
           /\ UNCHANGED lock
  /\ UNCHANGED <<file, disk, mem, process, opens, under, signing>>

\* Mutant: the file on disk is not read again.
UnchangedM(e) == TRUE

\* The file still holds what this process read or wrote last.
Unchanged(e) == disk = mem[edit[e].by]

\* A file operation of the save fails; the lock is still given back.
Fails(e) == At(e, "failed") /\ UNCHANGED <<disk, mem>>

Compare(e) ==
  /\ Saves(e, "locked")
  /\ (Unchanged(e) /\ At(e, "compared") /\ UNCHANGED <<disk, mem>>) \/ Fails(e)
  /\ UNCHANGED <<file, lock, process, opens, queue, busy, under, signing>>

\* The new content, written aside, takes the file's place.
Rename(e) ==
  /\ Saves(e, "compared")
  /\ \/ disk' = Append(edit[e].base, e) /\ At(e, "renamed") /\ UNCHANGED mem
     \/ Fails(e)
  /\ UNCHANGED <<file, lock, process, opens, queue, busy, under, signing>>

\* The process works from the new content.
Adopt(e) ==
  /\ Saves(e, "renamed")
  /\ mem' = [mem EXCEPT ![edit[e].by] = Append(edit[e].base, e)]
  /\ At(e, "adopted")
  /\ UNCHANGED <<file, disk, lock, process, opens, queue, busy, under, signing>>

\* The lock is closed and removed and the save's answer is known: when that fails, the answer is
\* an error although the file changed.  A replaced policy disconnects every device in this turn.
Unlock(e) ==
  /\ Saves(e, "adopted") \/ Saves(e, "failed")
  /\ \E removed \in BOOLEAN :
       LET saved == removed /\ edit[e].at = "adopted"
       IN /\ lock' = IF removed THEN Free ELSE Stranded
          /\ At(e, IF ~saved THEN "refused" ELSE IF Controlled(e) THEN "stopping" ELSE "saved")
          /\ busy' = IF Controlled(e) /\ ~saved THEN FALSE ELSE busy
          /\ under' = IF Controlled(e) /\ saved THEN [d \in Devices |-> NoSession] ELSE under
  /\ Leaves(e)
  /\ UNCHANGED <<file, disk, mem, process, opens, signing>>

\* The media of every session has stopped, or could not be stopped: the controller is free again.
MediaStopped(e) ==
  /\ edit[e].at = "stopping"
  /\ At(e, "saved") \/ At(e, "refused")
  /\ busy' = FALSE
  /\ UNCHANGED <<file, disk, lock, mem, process, opens, queue, under, signing>>

\* The process ends, wherever it was.
Die(w) ==
  /\ process[w] # "down"
  /\ process' = [process EXCEPT ![w] = "down"]
  /\ lock' = IF lock = w THEN Stranded ELSE lock
  /\ edit' = [e \in Edits |->
               IF edit[e].by = w /\ edit[e].at \in Waiting \cup Saving \cup {"stopping"}
               THEN [edit[e] EXCEPT !.at = "lost"] ELSE edit[e]]
  /\ queue' = [queue EXCEPT ![w] = <<>>]
  /\ busy' = IF w = Server THEN FALSE ELSE busy
  /\ under' = IF w = Server THEN [d \in Devices |-> NoSession] ELSE under
  /\ signing' = IF w = Server THEN [d \in Devices |-> NoSession] ELSE signing
  /\ UNCHANGED <<file, disk, mem, opens>>

\* The owner removes a lock file its writer left behind.
RemoveLock == lock = Stranded /\ lock' = Free
              /\ UNCHANGED <<file, disk, mem, process, opens, edit, queue, busy, under, signing>>

-----------------------------------------------------------------------------
\* /api/approved-clients/sign-in looks at busy, then waits for the device's proof.
BeginSignIn(d) ==
  /\ file = "policy" /\ process[Server] # "down"
  /\ under[d] = NoSession /\ signing[d] = NoSession
  /\ ~busy
  /\ signing' = [signing EXCEPT ![d] = mem[Server]]
  /\ UNCHANGED <<file, disk, lock, mem, process, opens, edit, queue, busy, under>>

\* Mutant: the plan is made before the wait.
PlanM(d) == signing[d]

\* connectionPlan: the policy the session is admitted under.
Plan(d) == mem[Server]

\* The proof holds: the plan is made and the session created in one turn.
SignIn(d) ==
  /\ signing[d] # NoSession
  /\ under' = [under EXCEPT ![d] = Plan(d)]
  /\ signing' = [signing EXCEPT ![d] = NoSession]
  /\ UNCHANGED <<file, disk, lock, mem, process, opens, edit, queue, busy>>

\* The session ends, or the proof fails.
Leave(d) ==
  /\ under[d] # NoSession \/ signing[d] # NoSession
  /\ under' = [under EXCEPT ![d] = NoSession]
  /\ signing' = [signing EXCEPT ![d] = NoSession]
  /\ UNCHANGED <<file, disk, lock, mem, process, opens, edit, queue, busy>>

FileNext ==
  \/ \E w \in Writers : Open(w) \/ Die(w)
  \/ Register \/ RemoveLock
  \/ \E e \in Edits :
       \/ \E w \in Writers : Make(e, w)
       \/ Replace(e) \/ Lock(e) \/ Compare(e) \/ Rename(e) \/ Adopt(e) \/ Unlock(e)
       \/ MediaStopped(e)
  \/ \E d \in Devices : BeginSignIn(d) \/ SignIn(d) \/ Leave(d)

FileSpec == FileInit /\ [][FileNext]_fileVars

-----------------------------------------------------------------------------
(* Properties. *)

\* An edit the server's owner was told is applied governs every session: none that was admitted
\* under an older policy is left, also not one that was signing in while the policy was saved.
AppliedGovernsAll ==
  \A e \in Edits, d \in Devices :
    edit[e].at = "saved" /\ Controlled(e) /\ under[d] # NoSession
      => \E i \in DOMAIN under[d] : under[d][i] = e

\* The saved edits.
Told == {e \in Edits : edit[e].at = "saved"}

Content == INSTANCE SettingsRegister WITH
             Edit <- Edits, content <- disk, acknowledged <- Told

\* No writer's edit overwrites another's, however the two processes start, stop and interleave,
\* and no edit that was reported saved is lost.
NoLostEdit == Content!RegisterSpec

=============================================================================
