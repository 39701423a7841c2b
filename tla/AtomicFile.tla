----------------------------- MODULE AtomicFile -----------------------------
(***************************************************************************)
(* The file protocol of Store.Save (internal/state/state.go): write a      *)
(* temporary file beside the target, sync it, rename it over the target.   *)
(* The Agent configuration, the firewall rules, daemon.json and the        *)
(* installer's own binary are replaced by the same sequence of calls.      *)
(*                                                                         *)
(* Several writers may save at once.  A writer may fail at any call or be  *)
(* killed, and the power may fail: what was not synced is then lost, and   *)
(* the directory may still name the file it named before, since the code   *)
(* does not sync the directory.                                            *)
(***************************************************************************)
CONSTANTS
  Writer,   \* runs that may save at the same time
  Value,    \* what they save
  None,     \* no file
  Torn      \* a file that is empty or cut short

ASSUME ContentAssumption == None \notin Value /\ Torn \notin Value /\ None # Torn

VARIABLES
  pc,       \* Writer -> how far its Save is
  saving,   \* Writer -> the value it saves
  temp,     \* Writer -> its temporary file
  entry,    \* the file the path names
  durable   \* the file the path would name after a power failure

vars == <<pc, saving, temp, entry, durable>>

(* A file has what a reader finds and whether that is on the disk.         *)
File == [data : Value \union {None, Torn}, synced : BOOLEAN]

NoFile == [data |-> None, synced |-> TRUE]

(* What a power failure leaves of a file.                                  *)
Remains(file) == IF file.synced THEN file ELSE [data |-> Torn, synced |-> TRUE]

TypeOK ==
  /\ pc \in [Writer -> {"idle", "created", "written", "synced"}]
  /\ saving \in [Writer -> Value \union {None}]
  /\ temp \in [Writer -> File]
  /\ entry \in File
  /\ durable \in File

Init ==
  /\ pc = [w \in Writer |-> "idle"]
  /\ saving = [w \in Writer |-> None]
  /\ temp = [w \in Writer |-> NoFile]
  /\ entry = NoFile
  /\ durable = NoFile

Move(w, from, to) == pc[w] = from /\ pc' = [pc EXCEPT ![w] = to]

-----------------------------------------------------------------------------
(* Save                                                                    *)

(* A plausible bug: the target itself is opened, truncated and written, as *)
(* os.WriteFile does.                                                      *)
CreateInPlace(w) ==
  /\ Move(w, "idle", "created")
  /\ \E v \in Value : saving' = [saving EXCEPT ![w] = v]
  /\ temp' = [temp EXCEPT ![w] = [data |-> Torn, synced |-> FALSE]]
  /\ entry' = [data |-> Torn, synced |-> FALSE]
  /\ UNCHANGED durable

CreateTemp(w) ==
  /\ Move(w, "idle", "created")
  /\ \E v \in Value : saving' = [saving EXCEPT ![w] = v]
  /\ temp' = [temp EXCEPT ![w] = [data |-> Torn, synced |-> FALSE]]
  /\ UNCHANGED <<entry, durable>>

WriteTemp(w) ==
  /\ Move(w, "created", "written")
  /\ temp' = [temp EXCEPT ![w].data = saving[w]]
  /\ UNCHANGED <<saving, entry, durable>>

(* A plausible bug: the temporary file is closed without being synced.     *)
CloseTemp(w) ==
  /\ Move(w, "written", "synced")
  /\ UNCHANGED <<saving, temp, entry, durable>>

SyncTemp(w) ==
  /\ Move(w, "written", "synced")
  /\ temp' = [temp EXCEPT ![w].synced = TRUE]
  /\ UNCHANGED <<saving, entry, durable>>

RenameTemp(w) ==
  /\ Move(w, "synced", "idle")
  /\ entry' = temp[w]
  /\ temp' = [temp EXCEPT ![w] = NoFile]
  /\ saving' = [saving EXCEPT ![w] = None]
  /\ UNCHANGED durable

(* A call fails and the temporary file is removed, or the writer is killed *)
(* and leaves it behind under a name nobody reads.                         *)
Abandon(w) ==
  /\ pc[w] # "idle"
  /\ pc' = [pc EXCEPT ![w] = "idle"]
  /\ temp' = [temp EXCEPT ![w] = NoFile]
  /\ saving' = [saving EXCEPT ![w] = None]
  /\ UNCHANGED <<entry, durable>>

(* Load fails on what it cannot decode.                                    *)
LoadFails == entry.data = Torn

-----------------------------------------------------------------------------
(* The file system                                                         *)

(* The directory entry, or the content of a file, reaches the disk.        *)
WriteBack ==
  /\ durable' = entry
  /\ UNCHANGED <<pc, saving, temp, entry>>

PowerFailure ==
  /\ entry' = Remains(durable)
  /\ durable' = Remains(durable)
  /\ pc' = [w \in Writer |-> "idle"]
  /\ saving' = [w \in Writer |-> None]
  /\ temp' = [w \in Writer |-> NoFile]

Save(w) ==
  CreateTemp(w) \/ WriteTemp(w) \/ SyncTemp(w) \/ RenameTemp(w) \/ Abandon(w)

Next == (\E w \in Writer : Save(w)) \/ WriteBack \/ PowerFailure

Spec == Init /\ [][Next]_vars

-----------------------------------------------------------------------------
(* Properties                                                              *)

(* Whatever fails and whoever else saves, Load decodes what it finds, now  *)
(* and after a power failure.                                              *)
LoadNeverFails == ~LoadFails /\ Remains(durable).data # Torn

(* The file is replaced as a whole: it implements AtomicCell, a power      *)
(* failure taking it back to a value it held.                              *)
Cell == INSTANCE AtomicCell WITH cell <- entry.data, settled <- Remains(durable).data

CellSpec == Cell!CellSpec
=============================================================================
