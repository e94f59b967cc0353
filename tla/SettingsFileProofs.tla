-------------------------- MODULE SettingsFileProofs --------------------------
(***************************************************************************)
(* SettingsFile implements SettingsRegister, for any number of edits,      *)
(* processes, devices and starts.  What makes it so: the one process that  *)
(* saves holds the lock, an edit's base is how the settings of its process *)
(* began, and a save goes on only when base, process and file agree.       *)
(* On top of that, an applied policy governs every session.                *)
(***************************************************************************)
EXTENDS SettingsFile, TLAPS

Progress == {"new", "made", "queued", "locked", "compared", "renamed", "adopted", "failed",
             "stopping", "saved", "refused", "lost"}

EditRecord == [by : Writers, base : Seq(Edits), confirmed : BOOLEAN, at : Progress]

FileTypes ==
  /\ disk \in Seq(Edits)
  /\ lock \in Writers \cup {Free, Stranded}
  /\ mem \in [Writers -> Seq(Edits)]
  /\ queue \in [Writers -> Seq(Edits)]
  /\ edit \in [Edits -> EditRecord]

\* Whoever saves holds the lock, with the first save of its process.
SaverHolds ==
  \A e \in Edits : edit[e].at \in Saving =>
    /\ lock = edit[e].by
    /\ queue[edit[e].by] # <<>> /\ Head(queue[edit[e].by]) = e

\* s is how t begins.
Begins(s, t) == Len(s) <= Len(t) /\ \A i \in 1..Len(s) : s[i] = t[i]

\* A process only adds to the settings an edit was made from, and saves it when nothing was added.
BasesFollow ==
  \A e \in Edits :
    /\ edit[e].at \in Waiting => Begins(edit[e].base, mem[edit[e].by])
    /\ edit[e].at \in {"locked", "compared", "renamed"} => edit[e].base = mem[edit[e].by]
    /\ edit[e].at = "compared" => disk = mem[edit[e].by]

InFile(content, e) == \E i \in DOMAIN content : content[i] = e

\* An edit comes into the file with its own rename and stays there.
EditsInFile ==
  \A e \in Edits :
    /\ edit[e].at \in {"renamed", "adopted", "stopping", "saved"} => InFile(disk, e)
    /\ edit[e].at \in {"new", "made", "queued", "locked", "compared"} => ~InFile(disk, e)

\* A process that is down left no edit under way.
DownHasNone ==
  /\ process \in [Writers -> {"down", "open", "listed"}]
  /\ \A e \in Edits : process[edit[e].by] = "down" => edit[e].at \notin Waiting \cup Saving

FileIInv == FileTypes /\ SaverHolds /\ BasesFollow /\ EditsInFile

-----------------------------------------------------------------------------
\* Sequences.

LEMMA BeginsItself == ASSUME NEW s \in Seq(Edits) PROVE Begins(s, s)
BY DEF Begins

LEMMA BeginsLonger ==
  ASSUME NEW s \in Seq(Edits), NEW t \in Seq(Edits), NEW e \in Edits, Begins(s, t)
  PROVE  Begins(s, Append(t, e))
BY DEF Begins

LEMMA BeginsWhole ==
  ASSUME NEW s \in Seq(Edits), NEW t \in Seq(Edits), Begins(s, t), Len(s) = Len(t)
  PROVE  s = t
BY DEF Begins

LEMMA InAppended ==
  ASSUME NEW s \in Seq(Edits), NEW e \in Edits, NEW f \in Edits
  PROVE  InFile(Append(s, e), f) <=> InFile(s, f) \/ f = e
<1>1. /\ DOMAIN s = 1..Len(s) /\ DOMAIN Append(s, e) = 1..(Len(s) + 1) /\ Len(s) \in Nat
      /\ \A i \in 1..Len(s) : Append(s, e)[i] = s[i]
      /\ Append(s, e)[Len(s) + 1] = e
  OBVIOUS
<1>2. ASSUME InFile(s, f) \/ f = e PROVE InFile(Append(s, e), f)
  BY <1>1, <1>2 DEF InFile
<1>3. ASSUME InFile(Append(s, e), f) PROVE InFile(s, f) \/ f = e
  <2>1. PICK i \in 1..(Len(s) + 1) : Append(s, e)[i] = f
    BY <1>1, <1>3 DEF InFile
  <2>2. CASE i = Len(s) + 1
    BY <1>1, <2>1, <2>2
  <2>3. CASE i \in 1..Len(s)
    BY <1>1, <2>1, <2>3 DEF InFile
  <2> QED
    BY <1>1, <2>2, <2>3
<1> QED
  BY <1>2, <1>3

LEMMA HeadOfAppended ==
  ASSUME NEW s \in Seq(Edits), NEW e \in Edits, s # <<>>
  PROVE  Append(s, e) # <<>> /\ Head(Append(s, e)) = Head(s)
OBVIOUS

-----------------------------------------------------------------------------
\* Two edits cannot be saved at a time.
LEMMA OneSaver ==
  ASSUME FileIInv, NEW e \in Edits, NEW f \in Edits, edit[e].at \in Saving, edit[f].at \in Saving
  PROVE  e = f
BY DEF FileIInv, SaverHolds

\* A step that moves one edit on leaves what the others are.
LEMMA MovesOne ==
  ASSUME FileTypes, NEW e \in Edits, NEW at \in Progress, At(e, at)
  PROVE  /\ edit' \in [Edits -> EditRecord]
         /\ \A f \in Edits : /\ edit'[f].by = edit[f].by /\ edit'[f].base = edit[f].base
                             /\ edit'[f].at = IF f = e THEN at ELSE edit[f].at
BY DEF FileTypes, At, EditRecord

LEMMA InitFile == FileInit => FileIInv
<1> SUFFICES ASSUME FileInit PROVE FileIInv
  OBVIOUS
<1>1. FileTypes
  BY DEF FileInit, FileTypes, EditRecord, Progress, Writers
<1>2. SaverHolds /\ BasesFollow
  BY DEF FileInit, SaverHolds, BasesFollow, Saving, Waiting
<1>3. EditsInFile
  BY DEF FileInit, EditsInFile, InFile
<1> QED
  BY <1>1, <1>2, <1>3 DEF FileIInv

-----------------------------------------------------------------------------
\* Every step keeps the invariant.

\* A process starts: none of its edits is under way, for the last one took them with it.
LEMMA OpenKeeps ==
  ASSUME FileIInv, DownHasNone, NEW w \in Writers, Open(w)
  PROVE  FileIInv'
<1>1. /\ mem' = [mem EXCEPT ![w] = disk] /\ disk' = disk /\ lock' = lock /\ queue' = queue /\ edit' = edit
  BY DEF Open
<1>2. FileTypes'
  BY <1>1 DEF FileIInv, FileTypes
<1>0. process[w] = "down"
  BY DEF Open
<1>3. SaverHolds' /\ EditsInFile'
  BY <1>1 DEF FileIInv, SaverHolds, EditsInFile
<1>4. BasesFollow'
  <2> SUFFICES ASSUME NEW e \in Edits
               PROVE  /\ edit[e].at \in Waiting => Begins(edit[e].base, mem'[edit[e].by])
                      /\ edit[e].at \in {"locked", "compared", "renamed"} => edit[e].base = mem'[edit[e].by]
                      /\ edit[e].at = "compared" => disk = mem'[edit[e].by]
    BY <1>1 DEF BasesFollow
  <2>1. CASE edit[e].by = w
    BY <1>0, <2>1 DEF DownHasNone, Waiting, Saving
  <2>2. CASE edit[e].by # w
    <3>1. mem'[edit[e].by] = mem[edit[e].by]
      BY <1>1, <2>2 DEF FileIInv, FileTypes, EditRecord
    <3> QED
      BY <3>1 DEF FileIInv, BasesFollow
  <2> QED
    BY <2>1, <2>2
<1> QED
  BY <1>2, <1>3, <1>4 DEF FileIInv

LEMMA MakeKeeps ==
  ASSUME FileIInv, NEW e \in Edits, NEW w \in Writers, Make(e, w)
  PROVE  FileIInv'
<1>1. PICK confirmed \in BOOLEAN :
        edit' = [edit EXCEPT ![e] = [by |-> w, base |-> mem[w], confirmed |-> confirmed, at |-> "made"]]
  BY DEF Make
<1>2. edit[e].at = "new" /\ disk' = disk /\ lock' = lock /\ queue' = queue /\ mem' = mem
  BY DEF Make
<1>3. FileTypes'
  BY <1>1, <1>2 DEF FileIInv, FileTypes, EditRecord, Progress
<1>4. /\ edit'[e].by = w /\ edit'[e].base = mem[w] /\ edit'[e].at = "made"
      /\ \A f \in Edits : f # e => edit'[f] = edit[f]
  BY <1>1 DEF FileIInv, FileTypes
<1>5. SaverHolds'
  BY <1>2, <1>4 DEF FileIInv, SaverHolds, Saving
<1>6. BasesFollow'
  <2>1. Begins(mem[w], mem[w])
    BY BeginsItself DEF FileIInv, FileTypes
  <2> QED
    BY <1>2, <1>4, <2>1 DEF FileIInv, BasesFollow, Waiting
<1>7. EditsInFile'
  BY <1>2, <1>4 DEF FileIInv, EditsInFile
<1> QED
  BY <1>3, <1>5, <1>6, <1>7 DEF FileIInv

LEMMA ReplaceKeeps ==
  ASSUME FileIInv, NEW e \in Edits, Replace(e)
  PROVE  FileIInv'
<1> DEFINE w == edit[e].by
<1>1. PICK at \in {"refused", "queued"} : At(e, at)
  BY DEF Replace, At
<1>2. /\ edit[e].at = "made" /\ disk' = disk /\ lock' = lock /\ mem' = mem
      /\ queue' = queue \/ queue' = [queue EXCEPT ![w] = Append(@, e)]
  BY DEF Replace
<1>3. /\ edit' \in [Edits -> EditRecord]
      /\ \A f \in Edits : /\ edit'[f].by = edit[f].by /\ edit'[f].base = edit[f].base
                          /\ edit'[f].at = IF f = e THEN at ELSE edit[f].at
  BY <1>1, MovesOne DEF FileIInv, Progress
<1>4. w \in Writers /\ queue \in [Writers -> Seq(Edits)]
  BY DEF FileIInv, FileTypes, EditRecord
<1>5. FileTypes'
  <2>1. CASE queue' = queue
    BY <1>2, <1>3, <2>1 DEF FileIInv, FileTypes
  <2>2. CASE queue' = [queue EXCEPT ![w] = Append(@, e)]
    <3>1. Append(queue[w], e) \in Seq(Edits)
      BY <1>4
    <3>2. queue' \in [Writers -> Seq(Edits)]
      BY <1>4, <2>2, <3>1
    <3> QED
      BY <1>2, <1>3, <3>2 DEF FileIInv, FileTypes
  <2> QED
    BY <1>2, <2>1, <2>2
<1>6. SaverHolds'
  <2> SUFFICES ASSUME NEW f \in Edits, edit[f].at \in Saving, f # e
               PROVE  /\ lock = edit[f].by
                      /\ queue'[edit[f].by] # <<>> /\ Head(queue'[edit[f].by]) = f
    BY <1>1, <1>2, <1>3 DEF SaverHolds, Saving
  <2>1. /\ lock = edit[f].by /\ edit[f].by \in Writers
        /\ queue[edit[f].by] # <<>> /\ Head(queue[edit[f].by]) = f
    BY DEF FileIInv, SaverHolds, FileTypes, EditRecord
  <2>2. queue'[edit[f].by] = queue[edit[f].by] \/ queue'[edit[f].by] = Append(queue[edit[f].by], e)
    BY <1>2, <1>4, <2>1
  <2> QED
    BY <1>4, <2>1, <2>2, HeadOfAppended
<1>7. BasesFollow'
  BY <1>1, <1>2, <1>3 DEF FileIInv, BasesFollow, Waiting
<1>8. EditsInFile'
  BY <1>1, <1>2, <1>3 DEF FileIInv, EditsInFile
<1> QED
  BY <1>5, <1>6, <1>7, <1>8 DEF FileIInv

LEMMA LockKeeps ==
  ASSUME FileIInv, NEW e \in Edits, Lock(e)
  PROVE  FileIInv'
<1> DEFINE w == edit[e].by
<1>1. /\ edit[e].at = "queued" /\ queue[w] # <<>> /\ Head(queue[w]) = e
      /\ disk' = disk /\ mem' = mem
  BY DEF Lock, Saves
<1>2. w \in Writers /\ queue \in [Writers -> Seq(Edits)] /\ Begins(edit[e].base, mem[w])
      /\ edit[e].base \in Seq(Edits) /\ mem[w] \in Seq(Edits)
  BY <1>1 DEF FileIInv, FileTypes, EditRecord, BasesFollow, Waiting
<1>3. CASE Len(edit[e].base) = Len(mem[w]) /\ lock = Free /\ lock' = w /\ At(e, "locked") /\ queue' = queue
  <2>1. /\ edit' \in [Edits -> EditRecord]
        /\ \A f \in Edits : /\ edit'[f].by = edit[f].by /\ edit'[f].base = edit[f].base
                            /\ edit'[f].at = IF f = e THEN "locked" ELSE edit[f].at
    BY <1>3, MovesOne DEF FileIInv, Progress
  <2>2. \A f \in Edits : edit[f].at \notin Saving
    BY <1>3, FileAssumption DEF FileIInv, SaverHolds, FileTypes, EditRecord
  <2>3. edit[e].base = mem[w]
    BY <1>2, <1>3, BeginsWhole
  <2>4. FileTypes'
    BY <1>1, <1>2, <1>3, <2>1 DEF FileIInv, FileTypes
  <2>5. SaverHolds'
    BY <1>1, <1>3, <2>1, <2>2 DEF SaverHolds
  <2>6. BasesFollow'
    BY <1>1, <2>1, <2>3 DEF FileIInv, BasesFollow, Waiting
  <2>7. EditsInFile'
    BY <1>1, <2>1 DEF FileIInv, EditsInFile
  <2> QED
    BY <2>4, <2>5, <2>6, <2>7 DEF FileIInv
<1>4. CASE At(e, "refused") /\ Leaves(e) /\ lock' = lock
  <2>1. /\ edit' \in [Edits -> EditRecord]
        /\ \A f \in Edits : /\ edit'[f].by = edit[f].by /\ edit'[f].base = edit[f].base
                            /\ edit'[f].at = IF f = e THEN "refused" ELSE edit[f].at
    BY <1>4, MovesOne DEF FileIInv, Progress
  <2>2. queue' = [queue EXCEPT ![w] = Tail(@)] /\ Tail(queue[w]) \in Seq(Edits)
    BY <1>1, <1>2, <1>4 DEF Leaves
  <2>3. FileTypes'
    BY <1>1, <1>2, <1>4, <2>1, <2>2 DEF FileIInv, FileTypes
  <2>4. SaverHolds'
    <3> SUFFICES ASSUME NEW f \in Edits, edit[f].at \in Saving
                 PROVE  /\ lock = edit[f].by
                        /\ queue'[edit[f].by] # <<>> /\ Head(queue'[edit[f].by]) = f
      BY <1>4, <2>1 DEF SaverHolds, Saving
    <3>1. /\ lock = edit[f].by /\ edit[f].by \in Writers
          /\ queue[edit[f].by] # <<>> /\ Head(queue[edit[f].by]) = f
      BY DEF FileIInv, SaverHolds, FileTypes, EditRecord
    <3>2. edit[f].by # w
      BY <1>1, <3>1 DEF Saving
    <3> QED
      BY <1>2, <2>2, <3>1, <3>2
  <2>5. BasesFollow'
    BY <1>1, <2>1 DEF FileIInv, BasesFollow, Waiting
  <2>6. EditsInFile'
    BY <1>1, <2>1 DEF FileIInv, EditsInFile
  <2> QED
    BY <2>3, <2>4, <2>5, <2>6 DEF FileIInv
<1> QED
  BY <1>3, <1>4 DEF Lock

\* A save that goes on: the queue and the lock stay.
LEMMA CompareKeeps ==
  ASSUME FileIInv, NEW e \in Edits, Compare(e)
  PROVE  FileIInv'
<1>1. /\ edit[e].at = "locked" /\ disk' = disk /\ mem' = mem /\ lock' = lock /\ queue' = queue
  BY DEF Compare, Saves, Fails
<1>2. PICK at \in {"compared", "failed"} : At(e, at) /\ (at = "compared" => disk = mem[edit[e].by])
  BY DEF Compare, Fails, Unchanged
<1>3. /\ edit' \in [Edits -> EditRecord]
      /\ \A f \in Edits : /\ edit'[f].by = edit[f].by /\ edit'[f].base = edit[f].base
                          /\ edit'[f].at = IF f = e THEN at ELSE edit[f].at
  BY <1>2, MovesOne DEF FileIInv, Progress
<1>4. FileTypes'
  BY <1>1, <1>3 DEF FileIInv, FileTypes
<1>5. SaverHolds'
  BY <1>1, <1>3 DEF FileIInv, SaverHolds, Saving
<1>6. BasesFollow'
  BY <1>1, <1>2, <1>3 DEF FileIInv, BasesFollow, Waiting
<1>7. EditsInFile'
  BY <1>1, <1>2, <1>3 DEF FileIInv, EditsInFile
<1> QED
  BY <1>4, <1>5, <1>6, <1>7 DEF FileIInv

\* The file is replaced by what was on it and the edit.
LEMMA RenameAppends ==
  ASSUME FileIInv, NEW e \in Edits, Rename(e), disk' # disk
  PROVE  disk' = Append(disk, e) /\ At(e, "renamed") /\ ~InFile(disk, e)
BY DEF FileIInv, Rename, Saves, Fails, BasesFollow, EditsInFile

LEMMA RenameKeeps ==
  ASSUME FileIInv, NEW e \in Edits, Rename(e)
  PROVE  FileIInv'
<1>1. /\ edit[e].at = "compared" /\ mem' = mem /\ lock' = lock /\ queue' = queue
      /\ disk \in Seq(Edits) /\ edit[e].base = mem[edit[e].by] /\ disk = mem[edit[e].by]
  BY DEF Rename, Saves, Fails, FileIInv, FileTypes, BasesFollow
<1>2. PICK at \in {"renamed", "failed"} :
        At(e, at) /\ disk' = IF at = "renamed" THEN Append(disk, e) ELSE disk
  BY <1>1 DEF Rename, Fails
<1>3. /\ edit' \in [Edits -> EditRecord]
      /\ \A f \in Edits : /\ edit'[f].by = edit[f].by /\ edit'[f].base = edit[f].base
                          /\ edit'[f].at = IF f = e THEN at ELSE edit[f].at
  BY <1>2, MovesOne DEF FileIInv, Progress
<1>4. FileTypes'
  BY <1>1, <1>2, <1>3 DEF FileIInv, FileTypes
<1>5. SaverHolds'
  BY <1>1, <1>3 DEF FileIInv, SaverHolds, Saving
<1>6. BasesFollow'
  <2>1. \A f \in Edits : f # e => edit[f].at # "compared"
    BY <1>1, OneSaver DEF Saving
  <2> QED
    BY <1>1, <1>2, <1>3, <2>1 DEF FileIInv, BasesFollow, Waiting
<1>7. EditsInFile'
  <2>1. \A f \in Edits : f # e => (InFile(disk', f) <=> InFile(disk, f))
    BY <1>1, <1>2, InAppended
  <2>2. at = "renamed" => InFile(disk', e)
    BY <1>1, <1>2, InAppended
  <2> QED
    BY <1>1, <1>2, <1>3, <2>1, <2>2 DEF FileIInv, EditsInFile
<1> QED
  BY <1>4, <1>5, <1>6, <1>7 DEF FileIInv

LEMMA AdoptKeeps ==
  ASSUME FileIInv, NEW e \in Edits, Adopt(e)
  PROVE  FileIInv'
<1> DEFINE w == edit[e].by
<1>1. /\ edit[e].at = "renamed" /\ disk' = disk /\ lock' = lock /\ queue' = queue
      /\ mem' = [mem EXCEPT ![w] = Append(edit[e].base, e)] /\ At(e, "adopted")
  BY DEF Adopt, Saves
<1>2. w \in Writers /\ mem \in [Writers -> Seq(Edits)] /\ edit[e].base = mem[w]
  BY <1>1 DEF FileIInv, FileTypes, EditRecord, BasesFollow
<1>3. /\ edit' \in [Edits -> EditRecord]
      /\ \A f \in Edits : /\ edit'[f].by = edit[f].by /\ edit'[f].base = edit[f].base
                          /\ edit'[f].at = IF f = e THEN "adopted" ELSE edit[f].at
  BY <1>1, MovesOne DEF FileIInv, Progress
<1>4. FileTypes'
  BY <1>1, <1>2, <1>3 DEF FileIInv, FileTypes
<1>5. SaverHolds'
  BY <1>1, <1>3 DEF FileIInv, SaverHolds, Saving
<1>6. BasesFollow'
  <2> SUFFICES ASSUME NEW f \in Edits, f # e
               PROVE  /\ edit[f].at \in Waiting => Begins(edit[f].base, mem'[edit[f].by])
                      /\ edit[f].at \notin {"locked", "compared", "renamed"}
    BY <1>1, <1>3 DEF BasesFollow, Waiting
  <2>1. edit[f].at \notin {"locked", "compared", "renamed"}
    BY <1>1, OneSaver DEF Saving
  <2>2. ASSUME edit[f].at \in Waiting PROVE Begins(edit[f].base, mem'[edit[f].by])
    <3>1. /\ edit[f].by \in Writers /\ edit[f].base \in Seq(Edits)
          /\ Begins(edit[f].base, mem[edit[f].by])
      BY <2>2 DEF FileIInv, FileTypes, EditRecord, BasesFollow
    <3>2. CASE edit[f].by = w
      <4>1. mem'[w] = Append(mem[w], e) /\ mem[w] \in Seq(Edits)
        BY <1>1, <1>2
      <4> QED
        BY <3>1, <3>2, <4>1, BeginsLonger
    <3>3. CASE edit[f].by # w
      BY <1>1, <1>2, <3>1, <3>3
    <3> QED
      BY <3>2, <3>3
  <2> QED
    BY <2>1, <2>2
<1>7. EditsInFile'
  BY <1>1, <1>3 DEF FileIInv, EditsInFile
<1> QED
  BY <1>4, <1>5, <1>6, <1>7 DEF FileIInv

LEMMA UnlockKeeps ==
  ASSUME FileIInv, NEW e \in Edits, Unlock(e)
  PROVE  FileIInv'
<1> DEFINE w == edit[e].by
<1>1. /\ edit[e].at \in {"adopted", "failed"} /\ queue[w] # <<>> /\ disk' = disk /\ mem' = mem
      /\ queue' = [queue EXCEPT ![w] = Tail(@)] /\ lock' \in {Free, Stranded}
  BY DEF Unlock, Saves, Leaves
<1>2. PICK at \in {"refused", "stopping", "saved"} :
        At(e, at) /\ (at # "refused" => edit[e].at = "adopted")
  BY DEF Unlock
<1>3. /\ edit' \in [Edits -> EditRecord]
      /\ \A f \in Edits : /\ edit'[f].by = edit[f].by /\ edit'[f].base = edit[f].base
                          /\ edit'[f].at = IF f = e THEN at ELSE edit[f].at
  BY <1>2, MovesOne DEF FileIInv, Progress
<1>4. w \in Writers /\ queue \in [Writers -> Seq(Edits)] /\ Tail(queue[w]) \in Seq(Edits)
  BY <1>1 DEF FileIInv, FileTypes, EditRecord
<1>5. FileTypes'
  BY <1>1, <1>3, <1>4 DEF FileIInv, FileTypes
<1>6. SaverHolds'
  <2>1. \A f \in Edits : f # e => edit[f].at \notin Saving
    BY <1>1, OneSaver DEF Saving
  <2> QED
    BY <1>2, <1>3, <2>1 DEF SaverHolds, Saving
<1>7. BasesFollow'
  BY <1>1, <1>2, <1>3 DEF FileIInv, BasesFollow, Waiting
<1>8. EditsInFile'
  BY <1>1, <1>2, <1>3 DEF FileIInv, EditsInFile
<1> QED
  BY <1>5, <1>6, <1>7, <1>8 DEF FileIInv

LEMMA MediaStoppedKeeps ==
  ASSUME FileIInv, NEW e \in Edits, MediaStopped(e)
  PROVE  FileIInv'
<1>1. /\ edit[e].at = "stopping" /\ disk' = disk /\ mem' = mem /\ lock' = lock /\ queue' = queue
  BY DEF MediaStopped
<1>2. PICK at \in {"refused", "saved"} : At(e, at)
  BY DEF MediaStopped
<1>3. /\ edit' \in [Edits -> EditRecord]
      /\ \A f \in Edits : /\ edit'[f].by = edit[f].by /\ edit'[f].base = edit[f].base
                          /\ edit'[f].at = IF f = e THEN at ELSE edit[f].at
  BY <1>2, MovesOne DEF FileIInv, Progress
<1>4. FileTypes'
  BY <1>1, <1>3 DEF FileIInv, FileTypes
<1>5. SaverHolds'
  BY <1>1, <1>2, <1>3 DEF FileIInv, SaverHolds, Saving
<1>6. BasesFollow'
  BY <1>1, <1>2, <1>3 DEF FileIInv, BasesFollow, Waiting
<1>7. EditsInFile'
  BY <1>1, <1>2, <1>3 DEF FileIInv, EditsInFile
<1> QED
  BY <1>4, <1>5, <1>6, <1>7 DEF FileIInv

\* With a process its edits and its queue are lost, and the lock it held is nobody's.
LEMMA DieKeeps ==
  ASSUME FileIInv, NEW w \in Writers, Die(w)
  PROVE  FileIInv'
<1> DEFINE dying(e) == edit[e].by = w /\ edit[e].at \in Waiting \cup Saving \cup {"stopping"}
<1>1. /\ disk' = disk /\ mem' = mem /\ queue' = [queue EXCEPT ![w] = <<>>]
      /\ lock' = IF lock = w THEN Stranded ELSE lock
      /\ edit' = [e \in Edits |-> IF dying(e) THEN [edit[e] EXCEPT !.at = "lost"] ELSE edit[e]]
  BY DEF Die
<1>2. ASSUME NEW e \in Edits
      PROVE  /\ edit'[e] \in EditRecord
             /\ edit'[e].by = edit[e].by /\ edit'[e].base = edit[e].base
             /\ edit'[e].at = IF dying(e) THEN "lost" ELSE edit[e].at
  <2>1. edit[e] \in EditRecord
    BY DEF FileIInv, FileTypes
  <2>2. CASE dying(e)
    BY <1>1, <2>1, <2>2 DEF EditRecord, Progress
  <2>3. CASE ~dying(e)
    BY <1>1, <2>1, <2>3
  <2> QED
    BY <2>2, <2>3
<1>3. FileTypes'
  <2>1. edit' \in [Edits -> EditRecord]
    BY <1>1, <1>2
  <2> QED
    BY <1>1, <2>1 DEF FileIInv, FileTypes
<1>4. SaverHolds'
  <2> SUFFICES ASSUME NEW e \in Edits, edit'[e].at \in Saving
               PROVE  /\ lock' = edit[e].by
                      /\ queue'[edit[e].by] # <<>> /\ Head(queue'[edit[e].by]) = e
    BY <1>2 DEF SaverHolds
  <2>1. ~dying(e) /\ edit[e].at \in Saving /\ edit[e].by # w
    BY <1>2 DEF Saving
  <2>2. /\ lock = edit[e].by /\ edit[e].by \in Writers
        /\ queue[edit[e].by] # <<>> /\ Head(queue[edit[e].by]) = e
    BY <2>1 DEF FileIInv, SaverHolds, FileTypes, EditRecord
  <2> QED
    BY <1>1, <2>1, <2>2 DEF FileIInv, FileTypes
<1> HIDE DEF dying
<1>5. BasesFollow' /\ EditsInFile'
  <2>1. \A e \in Edits : edit'[e].at = "lost" \/ edit'[e].at = edit[e].at
    BY <1>2
  <2> QED
    BY <1>1, <1>2, <2>1 DEF FileIInv, BasesFollow, EditsInFile, Waiting
<1> QED
  BY <1>3, <1>4, <1>5 DEF FileIInv

\* The other steps move neither an edit nor the file.
LEMMA RemoveLockKeeps ==
  ASSUME FileIInv, RemoveLock
  PROVE  FileIInv'
<1>1. /\ lock = Stranded /\ lock' = Free
      /\ disk' = disk /\ mem' = mem /\ queue' = queue /\ edit' = edit
  BY DEF RemoveLock
<1>2. FileTypes'
  BY <1>1 DEF FileIInv, FileTypes
<1>3. SaverHolds'
  BY <1>1, FileAssumption DEF FileIInv, SaverHolds, FileTypes, EditRecord
<1>4. BasesFollow' /\ EditsInFile'
  BY <1>1 DEF FileIInv, BasesFollow, EditsInFile
<1> QED
  BY <1>2, <1>3, <1>4 DEF FileIInv

LEMMA LeftAloneKeeps ==
  ASSUME FileIInv, UNCHANGED <<disk, lock, mem, queue, edit>>
  PROVE  FileIInv'
BY DEF FileIInv, FileTypes, SaverHolds, BasesFollow, EditsInFile

\* A step that moves an edit on moves one that was under way, or ends it.
LEMMA MovesUnderWay ==
  ASSUME DownHasNone, FileTypes, NEW e \in Edits, NEW at \in Progress, At(e, at), process' = process,
         at \in Waiting \cup Saving => edit[e].at \in Waiting \cup Saving
  PROVE  DownHasNone'
BY MovesOne DEF DownHasNone

LEMMA DownKeeps ==
  ASSUME FileIInv, DownHasNone, [FileNext]_fileVars
  PROVE  DownHasNone'
<1> USE DEF Progress, Waiting, Saving
<1>0. FileTypes
  BY DEF FileIInv
<1>1. ASSUME NEW w \in Writers, Open(w) PROVE DownHasNone'
  BY <1>0, <1>1 DEF Open, DownHasNone, FileTypes, EditRecord
<1>2. ASSUME NEW w \in Writers, Die(w) PROVE DownHasNone'
  <2>1. process' = [process EXCEPT ![w] = "down"]
    BY <1>2 DEF Die
  <2> SUFFICES ASSUME NEW e \in Edits, process'[edit'[e].by] = "down"
               PROVE  edit'[e].at \notin Waiting \cup Saving
    BY <2>1 DEF DownHasNone
  <2>2. edit[e] \in EditRecord
    BY <1>0 DEF FileTypes
  <2>3. CASE edit[e].by = w /\ edit[e].at \in Waiting \cup Saving \cup {"stopping"}
    <3>1. edit'[e].at = "lost"
      BY <1>2, <2>2, <2>3 DEF Die, EditRecord
    <3> QED
      BY <3>1
  <2>4. CASE ~(edit[e].by = w /\ edit[e].at \in Waiting \cup Saving \cup {"stopping"})
    <3>1. edit'[e] = edit[e]
      BY <1>2, <2>4 DEF Die
    <3> QED
      BY <2>1, <2>2, <2>4, <3>1 DEF DownHasNone, EditRecord
  <2> QED
    BY <2>3, <2>4
<1>3. ASSUME NEW e \in Edits, NEW w \in Writers, Make(e, w) PROVE DownHasNone'
  BY <1>0, <1>3 DEF Make, MayEdit, DownHasNone, FileTypes
<1>4. ASSUME NEW e \in Edits, Replace(e) PROVE DownHasNone'
  <2>1. PICK at \in {"refused", "queued"} : At(e, at)
    BY <1>4 DEF Replace, At
  <2> QED
    BY <1>0, <1>4, <2>1, MovesUnderWay DEF Replace
<1>5. ASSUME NEW e \in Edits, Lock(e) PROVE DownHasNone'
  <2>1. PICK at \in {"refused", "locked"} : At(e, at)
    BY <1>5 DEF Lock
  <2> QED
    BY <1>0, <1>5, <2>1, MovesUnderWay DEF Lock, Saves
<1>6. ASSUME NEW e \in Edits, Compare(e) PROVE DownHasNone'
  <2>1. PICK at \in {"compared", "failed"} : At(e, at)
    BY <1>6 DEF Compare, Fails
  <2> QED
    BY <1>0, <1>6, <2>1, MovesUnderWay DEF Compare, Saves
<1>7. ASSUME NEW e \in Edits, Rename(e) PROVE DownHasNone'
  <2>1. PICK at \in {"renamed", "failed"} : At(e, at)
    BY <1>7 DEF Rename, Fails
  <2> QED
    BY <1>0, <1>7, <2>1, MovesUnderWay DEF Rename, Saves
<1>8. ASSUME NEW e \in Edits, Adopt(e) PROVE DownHasNone'
  BY <1>0, <1>8, MovesUnderWay DEF Adopt, Saves
<1>9. ASSUME NEW e \in Edits, Unlock(e) PROVE DownHasNone'
  <2>1. PICK at \in {"refused", "stopping", "saved"} : At(e, at)
    BY <1>9 DEF Unlock
  <2> QED
    BY <1>0, <1>9, <2>1, MovesUnderWay DEF Unlock
<1>10. ASSUME NEW e \in Edits, MediaStopped(e) PROVE DownHasNone'
  <2>1. PICK at \in {"refused", "saved"} : At(e, at)
    BY <1>10 DEF MediaStopped
  <2> QED
    BY <1>0, <1>10, <2>1, MovesUnderWay DEF MediaStopped
<1>11. ASSUME Register PROVE DownHasNone'
  BY <1>0, <1>11 DEF Register, DownHasNone, FileTypes, EditRecord
<1>12. ASSUME \/ RemoveLock \/ UNCHANGED fileVars
              \/ \E d \in Devices : BeginSignIn(d) \/ SignIn(d) \/ Leave(d)
       PROVE  DownHasNone'
  <2>1. process' = process /\ edit' = edit
    BY <1>12 DEF RemoveLock, fileVars, BeginSignIn, SignIn, Leave
  <2> QED
    BY <2>1 DEF DownHasNone
<1> QED
  BY <1>1, <1>2, <1>3, <1>4, <1>5, <1>6, <1>7, <1>8, <1>9, <1>10, <1>11, <1>12 DEF FileNext

LEMMA NextKeeps ==
  ASSUME FileIInv, DownHasNone, [FileNext]_fileVars
  PROVE  FileIInv'
<1>1. ASSUME \/ Register \/ UNCHANGED fileVars
             \/ \E d \in Devices : BeginSignIn(d) \/ SignIn(d) \/ Leave(d)
      PROVE  FileIInv'
  BY <1>1, LeftAloneKeeps DEF Register, fileVars, BeginSignIn, SignIn, Leave
<1>2. ASSUME NEW w \in Writers, Open(w) \/ Die(w) PROVE FileIInv'
  BY <1>2, OpenKeeps, DieKeeps
<1>3. ASSUME NEW e \in Edits, NEW w \in Writers, Make(e, w) PROVE FileIInv'
  BY <1>3, MakeKeeps
<1>4. ASSUME NEW e \in Edits, \/ Replace(e) \/ Lock(e) \/ Compare(e) \/ Rename(e) \/ Adopt(e)
                              \/ Unlock(e) \/ MediaStopped(e)
      PROVE  FileIInv'
  BY <1>4, ReplaceKeeps, LockKeeps, CompareKeeps, RenameKeeps, AdoptKeeps, UnlockKeeps,
     MediaStoppedKeeps
<1> QED
  BY <1>1, <1>2, <1>3, <1>4, RemoveLockKeeps DEF FileNext

-----------------------------------------------------------------------------
\* Every step is one of the register's, or none.

\* A step that moves an edit to another answer than "saved" tells nobody.
LEMMA TellsNobody ==
  ASSUME FileTypes, NEW e \in Edits, NEW at \in Progress \ {"saved"}, At(e, at), edit[e].at # "saved"
  PROVE  Told' = Told
<1>1. \A f \in Edits : edit'[f].at = IF f = e THEN at ELSE edit[f].at
  BY MovesOne
<1> QED
  BY <1>1 DEF Told

\* Whoever is told that an edit is saved finds it in the file.
LEMMA TellsOfHeld ==
  ASSUME FileIInv, NEW e \in Edits, At(e, "saved"), edit[e].at \in {"adopted", "stopping"}, disk' = disk
  PROVE  Content!Acknowledge(e)
<1>1. \A f \in Edits : edit'[f].at = IF f = e THEN "saved" ELSE edit[f].at
  BY MovesOne DEF FileIInv, Progress
<1>2. Told' = Told \cup {e}
  BY <1>1 DEF Told
<1>3. e \in Content!Held
  BY DEF FileIInv, EditsInFile, InFile, Content!Held
<1> QED
  BY <1>2, <1>3 DEF Content!Acknowledge

LEMMA EditMaps ==
  ASSUME FileIInv, NEW e \in Edits,
         \/ Replace(e) \/ Lock(e) \/ Compare(e) \/ Rename(e) \/ Adopt(e) \/ Unlock(e) \/ MediaStopped(e)
  PROVE  [Content!RegisterNext]_<<disk, Told>>
<1> USE DEF Progress
<1>0. FileTypes
  BY DEF FileIInv
<1>1. CASE Replace(e)
  <2>1. PICK at \in {"refused", "queued"} : At(e, at)
    BY <1>1 DEF Replace, At
  <2> QED
    BY <1>0, <1>1, <2>1, TellsNobody DEF Replace
<1>2. CASE Lock(e)
  <2>1. PICK at \in {"refused", "locked"} : At(e, at)
    BY <1>2 DEF Lock
  <2> QED
    BY <1>0, <1>2, <2>1, TellsNobody DEF Lock, Saves
<1>3. CASE Compare(e)
  <2>1. PICK at \in {"compared", "failed"} : At(e, at)
    BY <1>3 DEF Compare, Fails
  <2> QED
    BY <1>0, <1>3, <2>1, TellsNobody DEF Compare, Saves, Fails
<1>4. CASE Rename(e)
  <2>1. PICK at \in {"renamed", "failed"} : At(e, at)
    BY <1>4 DEF Rename, Fails
  <2>2. Told' = Told
    BY <1>0, <1>4, <2>1, TellsNobody DEF Rename, Saves
  <2>3. disk' # disk => Content!Apply(e)
    BY <1>4, <2>2, RenameAppends DEF Content!Apply, Content!Held, InFile
  <2> QED
    BY <2>2, <2>3 DEF Content!RegisterNext
<1>5. CASE Adopt(e)
  BY <1>0, <1>5, TellsNobody DEF Adopt, Saves
<1>6. CASE Unlock(e)
  <2>1. PICK at \in {"refused", "stopping", "saved"} :
          At(e, at) /\ (at = "saved" => edit[e].at = "adopted")
    BY <1>6 DEF Unlock
  <2>2. edit[e].at # "saved" /\ disk' = disk
    BY <1>6 DEF Unlock, Saves
  <2>3. CASE at = "saved"
    BY <2>1, <2>2, <2>3, TellsOfHeld DEF Content!RegisterNext
  <2>4. CASE at # "saved"
    BY <1>0, <2>1, <2>2, <2>4, TellsNobody
  <2> QED
    BY <2>3, <2>4
<1>7. CASE MediaStopped(e)
  <2>1. PICK at \in {"refused", "saved"} : At(e, at)
    BY <1>7 DEF MediaStopped
  <2>2. edit[e].at = "stopping" /\ disk' = disk
    BY <1>7 DEF MediaStopped
  <2>3. CASE at = "saved"
    BY <2>1, <2>2, <2>3, TellsOfHeld DEF Content!RegisterNext
  <2>4. CASE at # "saved"
    BY <1>0, <2>1, <2>2, <2>4, TellsNobody
  <2> QED
    BY <2>3, <2>4
<1> QED
  BY <1>1, <1>2, <1>3, <1>4, <1>5, <1>6, <1>7

LEMMA NextMaps ==
  ASSUME FileIInv, [FileNext]_fileVars
  PROVE  [Content!RegisterNext]_<<disk, Told>>
<1>1. ASSUME \/ Register \/ RemoveLock \/ UNCHANGED fileVars \/ \E w \in Writers : Open(w)
             \/ \E d \in Devices : BeginSignIn(d) \/ SignIn(d) \/ Leave(d)
      PROVE  [Content!RegisterNext]_<<disk, Told>>
  <2>1. disk' = disk /\ edit' = edit
    BY <1>1 DEF Register, RemoveLock, fileVars, Open, BeginSignIn, SignIn, Leave
  <2> QED
    BY <2>1 DEF Told
<1>2. ASSUME NEW w \in Writers, Die(w) PROVE [Content!RegisterNext]_<<disk, Told>>
  <2>1. \A e \in Edits : edit'[e].at = "saved" <=> edit[e].at = "saved"
    <3> SUFFICES ASSUME NEW e \in Edits PROVE edit'[e].at = "saved" <=> edit[e].at = "saved"
      OBVIOUS
    <3>1. edit[e] \in EditRecord
      BY DEF FileIInv, FileTypes
    <3>2. edit'[e] = edit[e] \/ (edit'[e].at = "lost" /\ edit[e].at # "saved")
      BY <1>2, <3>1 DEF Die, EditRecord, Waiting, Saving
    <3> QED
      BY <3>2
  <2> QED
    BY <1>2, <2>1 DEF Die, Told
<1>3. ASSUME NEW e \in Edits, NEW w \in Writers, Make(e, w)
      PROVE  [Content!RegisterNext]_<<disk, Told>>
  <2>1. \A f \in Edits : edit'[f].at = "saved" <=> edit[f].at = "saved"
    BY <1>3 DEF Make, FileIInv, FileTypes
  <2> QED
    BY <1>3, <2>1 DEF Make, Told
<1> QED
  BY <1>1, <1>2, <1>3, EditMaps DEF FileNext

\* However `config` and the server interleave, fail and die between two file operations, an edit
\* goes on top of all the earlier ones and one that was reported saved stays in the file.
THEOREM EditsKept == FileSpec => NoLostEdit
<1>1. FileInit => FileIInv /\ DownHasNone
  BY InitFile DEF FileInit, DownHasNone, Waiting, Saving
<1>2. (FileIInv /\ DownHasNone) /\ [FileNext]_fileVars => (FileIInv /\ DownHasNone)'
  BY NextKeeps, DownKeeps
<1>3. FileInit => Content!RegisterInit
  BY DEF FileInit, Content!RegisterInit, Told
<1>4. FileIInv /\ [FileNext]_fileVars => [Content!RegisterNext]_<<disk, Told>>
  BY NextMaps
<1> QED
  BY <1>1, <1>2, <1>3, <1>4, PTL DEF FileSpec, NoLostEdit, Content!RegisterSpec

-----------------------------------------------------------------------------
(* An applied policy governs everybody: what was applied is in the settings the process works from,
   so whoever is admitted after it has it, and who was admitted before is disconnected with it. *)

Applied == {"adopted", "stopping", "saved"}

SessionTypes ==
  /\ under \in [Devices -> Seq(Edits) \cup {NoSession}]
  /\ signing \in [Devices -> Seq(Edits) \cup {NoSession}]

\* A process works from every edit of its own that was applied, also after a new start.
AppliedHeld ==
  \A e \in Edits : edit[e].at \in Applied /\ process[edit[e].by] # "down" => InFile(mem[edit[e].by], e)

\* Sessions and sign-ins end with the server.
SignedInUp ==
  \A d \in Devices : under[d] # NoSession \/ signing[d] # NoSession => process[Server] # "down"

\* A policy governs every session from the turn that disconnected the devices.
Governed ==
  \A e \in Edits, d \in Devices :
    edit[e].at \in {"stopping", "saved"} /\ Controlled(e) /\ under[d] # NoSession => InFile(under[d], e)

GovernIInv == SessionTypes /\ AppliedHeld /\ SignedInUp /\ Governed

LEMMA InitGoverns == FileInit => GovernIInv
<1> SUFFICES ASSUME FileInit PROVE GovernIInv
  OBVIOUS
<1>1. SessionTypes /\ SignedInUp
  BY DEF FileInit, SessionTypes, SignedInUp
<1>2. AppliedHeld /\ Governed
  BY DEF FileInit, AppliedHeld, Governed, Applied
<1> QED
  BY <1>1, <1>2 DEF GovernIInv

\* An edit moves on, and is applied only if it was.
LEMMA MoveGoverns ==
  ASSUME FileTypes, GovernIInv, NEW e \in Edits, NEW at \in Progress, At(e, at),
         UNCHANGED <<file, mem, process, under, signing>>,
         at \in Applied => at = "saved" /\ edit[e].at = "stopping"
  PROVE  GovernIInv'
<1>1. \A f \in Edits : /\ edit'[f].by = edit[f].by
                        /\ edit'[f].at = IF f = e THEN at ELSE edit[f].at
  BY MovesOne
<1>2. SessionTypes' /\ SignedInUp'
  BY DEF GovernIInv, SessionTypes, SignedInUp
<1>3. AppliedHeld'
  BY <1>1 DEF GovernIInv, AppliedHeld, Applied
<1>4. Governed'
  BY <1>1 DEF GovernIInv, Governed, Controlled, Applied
<1> QED
  BY <1>2, <1>3, <1>4 DEF GovernIInv

LEMMA AdoptGoverns ==
  ASSUME FileIInv, GovernIInv, NEW e \in Edits, Adopt(e)
  PROVE  GovernIInv'
<1> DEFINE w == edit[e].by
<1>1. /\ edit[e].at = "renamed" /\ mem' = [mem EXCEPT ![w] = Append(edit[e].base, e)]
      /\ At(e, "adopted") /\ UNCHANGED <<file, process, under, signing>>
  BY DEF Adopt, Saves
<1>2. /\ w \in Writers /\ mem \in [Writers -> Seq(Edits)] /\ edit[e].base = mem[w]
      /\ \A f \in Edits : edit[f].by \in Writers
  BY <1>1 DEF FileIInv, FileTypes, EditRecord, BasesFollow
<1>3. \A f \in Edits : /\ edit'[f].by = edit[f].by
                        /\ edit'[f].at = IF f = e THEN "adopted" ELSE edit[f].at
  BY <1>1, MovesOne DEF FileIInv, Progress
<1>4. SessionTypes' /\ SignedInUp' /\ Governed'
  BY <1>1, <1>3 DEF GovernIInv, SessionTypes, SignedInUp, Governed, Controlled
<1>5. AppliedHeld'
  <2> SUFFICES ASSUME NEW f \in Edits, edit'[f].at \in Applied, process[edit[f].by] # "down"
               PROVE  InFile(mem'[edit[f].by], f)
    BY <1>1, <1>3 DEF AppliedHeld
  <2>1. f = e \/ InFile(mem[edit[f].by], f)
    BY <1>3 DEF GovernIInv, AppliedHeld
  <2>2. CASE edit[f].by = w
    <3>1. mem'[w] = Append(mem[w], e) /\ mem[w] \in Seq(Edits)
      BY <1>1, <1>2
    <3> QED
      BY <2>1, <2>2, <3>1, InAppended
  <2>3. CASE edit[f].by # w
    <3>1. mem'[edit[f].by] = mem[edit[f].by]
      BY <1>1, <1>2, <2>3
    <3> QED
      BY <2>1, <2>3, <3>1
  <2> QED
    BY <2>2, <2>3
<1> QED
  BY <1>4, <1>5 DEF GovernIInv

\* The save's answer: with a new policy every session ends.
LEMMA UnlockGoverns ==
  ASSUME FileIInv, GovernIInv, NEW e \in Edits, Unlock(e)
  PROVE  GovernIInv'
<1>1. PICK at \in {"refused", "stopping", "saved"} :
        /\ At(e, at)
        /\ at # "refused" => edit[e].at = "adopted"
        /\ under' = IF Controlled(e) /\ at # "refused" THEN [d \in Devices |-> NoSession] ELSE under
  BY DEF Unlock
<1>2. UNCHANGED <<file, mem, process, signing>>
  BY DEF Unlock
<1>3. \A f \in Edits : /\ edit'[f].by = edit[f].by
                        /\ edit'[f].at = IF f = e THEN at ELSE edit[f].at
  BY <1>1, MovesOne DEF FileIInv, Progress
<1>4. \A d \in Devices : under'[d] # NoSession => under'[d] = under[d]
  BY <1>1
<1>5. SessionTypes'
  BY <1>1, <1>2 DEF GovernIInv, SessionTypes
<1>6. SignedInUp'
  BY <1>2, <1>4 DEF GovernIInv, SignedInUp
<1>7. AppliedHeld'
  BY <1>1, <1>2, <1>3 DEF GovernIInv, AppliedHeld, Applied
<1>8. Governed'
  <2> SUFFICES ASSUME NEW f \in Edits, NEW d \in Devices, edit'[f].at \in {"stopping", "saved"},
                      Controlled(f), under'[d] # NoSession
               PROVE  InFile(under'[d], f)
    BY <1>2, <1>3 DEF Governed, Controlled
  <2>1. f # e
    BY <1>1, <1>3
  <2> QED
    BY <1>3, <1>4, <2>1 DEF GovernIInv, Governed
<1> QED
  BY <1>5, <1>6, <1>7, <1>8 DEF GovernIInv

LEMMA DieGoverns ==
  ASSUME FileIInv, DownHasNone, GovernIInv, NEW w \in Writers, Die(w)
  PROVE  GovernIInv'
<1>1. /\ mem' = mem /\ file' = file /\ process' = [process EXCEPT ![w] = "down"]
      /\ under' = IF w = Server THEN [d \in Devices |-> NoSession] ELSE under
      /\ signing' = IF w = Server THEN [d \in Devices |-> NoSession] ELSE signing
  BY DEF Die
<1>2. ASSUME NEW e \in Edits
      PROVE  edit'[e] = edit[e] \/ (edit'[e].at = "lost" /\ edit'[e].by = edit[e].by)
  <2>1. edit[e] \in EditRecord
    BY DEF FileIInv, FileTypes
  <2> QED
    BY <2>1 DEF Die, EditRecord
<1>3. process \in [Writers -> {"down", "open", "listed"}] /\ \A e \in Edits : edit[e].by \in Writers
  BY DEF DownHasNone, FileIInv, FileTypes, EditRecord
<1>4. SessionTypes'
  BY <1>1 DEF GovernIInv, SessionTypes
<1>5. SignedInUp'
  BY <1>1, <1>3 DEF GovernIInv, SignedInUp, Writers
<1>6. AppliedHeld'
  BY <1>1, <1>2, <1>3 DEF GovernIInv, AppliedHeld, Applied
<1>7. Governed'
  BY <1>1, <1>2 DEF GovernIInv, Governed, Controlled
<1> QED
  BY <1>4, <1>5, <1>6, <1>7 DEF GovernIInv

LEMMA OpenGoverns ==
  ASSUME FileIInv, DownHasNone, GovernIInv, NEW w \in Writers, Open(w)
  PROVE  GovernIInv'
<1>1. /\ mem' = [mem EXCEPT ![w] = disk] /\ process' = [process EXCEPT ![w] = "open"]
      /\ UNCHANGED <<file, edit, under, signing>>
  BY DEF Open
<1>2. /\ process \in [Writers -> {"down", "open", "listed"}] /\ mem \in [Writers -> Seq(Edits)]
      /\ \A e \in Edits : edit[e].by \in Writers
  BY DEF DownHasNone, FileIInv, FileTypes, EditRecord
<1>3. SessionTypes' /\ Governed'
  BY <1>1 DEF GovernIInv, SessionTypes, Governed, Controlled
<1>4. SignedInUp'
  BY <1>1, <1>2 DEF GovernIInv, SignedInUp, Writers
<1>5. AppliedHeld'
  <2> SUFFICES ASSUME NEW e \in Edits, edit[e].at \in Applied, process'[edit[e].by] # "down"
               PROVE  InFile(mem'[edit[e].by], e)
    BY <1>1 DEF AppliedHeld
  <2>1. CASE edit[e].by = w
    BY <1>1, <1>2, <2>1 DEF FileIInv, EditsInFile, Applied
  <2>2. CASE edit[e].by # w
    <3>1. mem'[edit[e].by] = mem[edit[e].by] /\ process'[edit[e].by] = process[edit[e].by]
      BY <1>1, <1>2, <2>2
    <3> QED
      BY <3>1 DEF GovernIInv, AppliedHeld
  <2> QED
    BY <2>1, <2>2
<1> QED
  BY <1>3, <1>4, <1>5 DEF GovernIInv

LEMMA MakeGoverns ==
  ASSUME FileIInv, GovernIInv, NEW e \in Edits, NEW w \in Writers, Make(e, w)
  PROVE  GovernIInv'
<1>1. UNCHANGED <<file, mem, process, under, signing>>
  BY DEF Make
<1>2. \A f \in Edits : edit'[f] = edit[f] \/ edit'[f].at = "made"
  BY DEF Make, FileIInv, FileTypes
<1>3. SessionTypes' /\ SignedInUp'
  BY <1>1 DEF GovernIInv, SessionTypes, SignedInUp
<1>4. AppliedHeld' /\ Governed'
  BY <1>1, <1>2 DEF GovernIInv, AppliedHeld, Governed, Controlled, Applied
<1> QED
  BY <1>3, <1>4 DEF GovernIInv

\* Whoever signs in is admitted under the settings of that moment.
LEMMA DeviceGoverns ==
  ASSUME FileIInv, GovernIInv, NEW d \in Devices, BeginSignIn(d) \/ SignIn(d) \/ Leave(d)
  PROVE  GovernIInv'
<1>1. UNCHANGED <<file, edit, mem, process>>
  BY DEF BeginSignIn, SignIn, Leave
<1>2. mem[Server] \in Seq(Edits)
  BY DEF FileIInv, FileTypes, Writers
<1>3. under \in [Devices -> Seq(Edits) \cup {NoSession}] /\ signing \in [Devices -> Seq(Edits) \cup {NoSession}]
  BY DEF GovernIInv, SessionTypes
<1>4. AppliedHeld'
  BY <1>1 DEF GovernIInv, AppliedHeld
<1>5. CASE BeginSignIn(d)
  <2>1. /\ under' = under /\ signing' = [signing EXCEPT ![d] = mem[Server]] /\ process[Server] # "down"
    BY <1>5 DEF BeginSignIn
  <2>2. SessionTypes' /\ SignedInUp'
    BY <1>1, <1>2, <1>3, <2>1 DEF SessionTypes, SignedInUp
  <2>3. Governed'
    BY <1>1, <2>1 DEF GovernIInv, Governed, Controlled
  <2> QED
    BY <1>4, <2>2, <2>3 DEF GovernIInv
<1>6. CASE SignIn(d)
  <2>1. /\ under' = [under EXCEPT ![d] = mem[Server]] /\ signing' = [signing EXCEPT ![d] = NoSession]
        /\ process[Server] # "down"
    BY <1>6 DEF SignIn, Plan, GovernIInv, SignedInUp
  <2>2. SessionTypes' /\ SignedInUp'
    BY <1>1, <1>2, <1>3, <2>1 DEF SessionTypes, SignedInUp
  <2>3. Governed'
    <3> SUFFICES ASSUME NEW e \in Edits, NEW c \in Devices, edit[e].at \in {"stopping", "saved"},
                        Controlled(e), under'[c] # NoSession
                 PROVE  InFile(under'[c], e)
      BY <1>1 DEF Governed, Controlled
    <3>1. CASE c = d
      <4>1. under'[c] = mem[Server] /\ edit[e].by = Server
        BY <1>3, <2>1, <3>1 DEF Controlled
      <4> QED
        BY <2>1, <4>1 DEF GovernIInv, AppliedHeld, Applied
    <3>2. CASE c # d
      BY <1>3, <2>1, <3>2 DEF GovernIInv, Governed
    <3> QED
      BY <3>1, <3>2
  <2> QED
    BY <1>4, <2>2, <2>3 DEF GovernIInv
<1>7. CASE Leave(d)
  <2>1. /\ under' = [under EXCEPT ![d] = NoSession] /\ signing' = [signing EXCEPT ![d] = NoSession]
    BY <1>7 DEF Leave
  <2>2. SessionTypes' /\ SignedInUp'
    BY <1>1, <1>3, <2>1 DEF GovernIInv, SessionTypes, SignedInUp
  <2>3. Governed'
    BY <1>1, <1>3, <2>1 DEF GovernIInv, Governed, Controlled
  <2> QED
    BY <1>4, <2>2, <2>3 DEF GovernIInv
<1> QED
  BY <1>5, <1>6, <1>7

LEMMA EditGoverns ==
  ASSUME FileIInv, GovernIInv, NEW e \in Edits,
         \/ Replace(e) \/ Lock(e) \/ Compare(e) \/ Rename(e) \/ MediaStopped(e)
  PROVE  GovernIInv'
<1> USE DEF Progress, Applied
<1>0. FileTypes
  BY DEF FileIInv
<1>1. CASE Replace(e)
  <2>1. PICK at \in {"refused", "queued"} : At(e, at)
    BY <1>1 DEF Replace, At
  <2> QED
    BY <1>0, <1>1, <2>1, MoveGoverns DEF Replace
<1>2. CASE Lock(e)
  <2>1. PICK at \in {"refused", "locked"} : At(e, at)
    BY <1>2 DEF Lock
  <2> QED
    BY <1>0, <1>2, <2>1, MoveGoverns DEF Lock
<1>3. CASE Compare(e)
  <2>1. PICK at \in {"compared", "failed"} : At(e, at)
    BY <1>3 DEF Compare, Fails
  <2> QED
    BY <1>0, <1>3, <2>1, MoveGoverns DEF Compare, Fails
<1>4. CASE Rename(e)
  <2>1. PICK at \in {"renamed", "failed"} : At(e, at)
    BY <1>4 DEF Rename, Fails
  <2> QED
    BY <1>0, <1>4, <2>1, MoveGoverns DEF Rename, Fails
<1>5. CASE MediaStopped(e)
  <2>1. PICK at \in {"refused", "saved"} : At(e, at)
    BY <1>5 DEF MediaStopped
  <2> QED
    BY <1>0, <1>5, <2>1, MoveGoverns DEF MediaStopped
<1> QED
  BY <1>1, <1>2, <1>3, <1>4, <1>5

LEMMA NextGoverns ==
  ASSUME FileIInv, DownHasNone, GovernIInv, [FileNext]_fileVars
  PROVE  GovernIInv'
<1>1. ASSUME Register PROVE GovernIInv'
  <2>1. /\ UNCHANGED <<file, mem, edit, under, signing>> /\ process' = [process EXCEPT ![Server] = "listed"]
        /\ process[Server] = "open" /\ process \in [Writers -> {"down", "open", "listed"}]
    BY <1>1 DEF Register, DownHasNone
  <2>2. \A w \in Writers : process'[w] = "down" <=> process[w] = "down"
    BY <2>1 DEF Writers
  <2>3. Server \in Writers /\ \A e \in Edits : edit[e].by \in Writers
    BY DEF Writers, FileIInv, FileTypes, EditRecord
  <2>4. SessionTypes' /\ SignedInUp' /\ Governed'
    BY <2>1, <2>2, <2>3 DEF GovernIInv, SessionTypes, SignedInUp, Governed, Controlled
  <2>5. AppliedHeld'
    BY <2>1, <2>2, <2>3 DEF GovernIInv, AppliedHeld
  <2> QED
    BY <2>4, <2>5 DEF GovernIInv
<1>2. ASSUME RemoveLock \/ UNCHANGED fileVars PROVE GovernIInv'
  <2>1. UNCHANGED <<file, mem, process, edit, under, signing>>
    BY <1>2 DEF RemoveLock, fileVars
  <2> QED
    BY <2>1 DEF GovernIInv, SessionTypes, SignedInUp, AppliedHeld, Governed, Controlled
<1>3. ASSUME NEW w \in Writers, Open(w) \/ Die(w) PROVE GovernIInv'
  BY <1>3, OpenGoverns, DieGoverns
<1>4. ASSUME NEW e \in Edits, NEW w \in Writers, Make(e, w) PROVE GovernIInv'
  BY <1>4, MakeGoverns
<1>5. ASSUME NEW d \in Devices, BeginSignIn(d) \/ SignIn(d) \/ Leave(d) PROVE GovernIInv'
  BY <1>5, DeviceGoverns
<1>6. ASSUME NEW e \in Edits, \/ Replace(e) \/ Lock(e) \/ Compare(e) \/ Rename(e) \/ MediaStopped(e)
                              \/ Adopt(e) \/ Unlock(e)
      PROVE  GovernIInv'
  BY <1>6, EditGoverns, AdoptGoverns, UnlockGoverns
<1> QED
  BY <1>1, <1>2, <1>3, <1>4, <1>5, <1>6 DEF FileNext

\* A policy the owner was told is applied governs every session, for any number of devices that
\* sign in and leave, and of edits, while it is saved and the old sessions are disconnected.
THEOREM Governs == FileSpec => []AppliedGovernsAll
<1>1. FileInit => FileIInv /\ DownHasNone /\ GovernIInv
  BY InitFile, InitGoverns DEF FileInit, DownHasNone, Waiting, Saving
<1>2. (FileIInv /\ DownHasNone /\ GovernIInv) /\ [FileNext]_fileVars => (FileIInv /\ DownHasNone /\ GovernIInv)'
  BY NextKeeps, DownKeeps, NextGoverns
<1>3. GovernIInv => AppliedGovernsAll
  BY DEF GovernIInv, Governed, InFile, AppliedGovernsAll
<1> QED
  BY <1>1, <1>2, <1>3, PTL DEF FileSpec

=============================================================================
