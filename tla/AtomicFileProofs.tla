-------------------------- MODULE AtomicFileProofs --------------------------
(***************************************************************************)
(* Saving through a synced temporary file and a rename keeps the file      *)
(* whole, for any number of concurrent writers.                            *)
(***************************************************************************)
EXTENDS AtomicFile, TLAPS

(* A file that may be given the name: whole, and on the disk.              *)
Safe(file) == file.data # Torn /\ file.synced

(* A temporary file that is ready to be renamed is the value, synced.      *)
Prepared ==
  \A w \in Writer :
    /\ pc[w] # "idle" => saving[w] \in Value
    /\ pc[w] \in {"written", "synced"} => temp[w].data = saving[w]
    /\ pc[w] = "synced" => temp[w].synced

IInv == TypeOK /\ Prepared /\ Safe(entry) /\ Safe(durable)

(* No writer is alive at first and there is no file.                       *)
LEMMA InitIInv == Init => IInv
  BY ContentAssumption DEF Init, IInv, TypeOK, File, NoFile, Prepared, Safe

(* A safe file loses nothing when the power fails.                         *)
LEMMA SafeRemains ==
  ASSUME NEW file \in File, Safe(file)
  PROVE  Remains(file) = file
  BY DEF Safe, Remains

(* Every call of a Save keeps the invariant; RenameTemp relies on Prepared. *)
LEMMA SaveIInv ==
  ASSUME IInv, NEW w \in Writer, Save(w)
  PROVE  IInv'
  <1> USE DEF IInv, TypeOK, Prepared, Safe, File, Move
  <1>1. CASE CreateTemp(w)
    BY <1>1 DEF CreateTemp
  <1>2. CASE WriteTemp(w)
    BY <1>2 DEF WriteTemp
  <1>3. CASE SyncTemp(w)
    BY <1>3 DEF SyncTemp
  <1>4. CASE RenameTemp(w)
    <2>1. temp[w].data \in Value /\ temp[w].synced
      BY <1>4 DEF RenameTemp
    <2>2. Safe(entry') /\ Safe(durable')
      BY <1>4, <2>1, ContentAssumption DEF RenameTemp
    <2>3. TypeOK'
      BY <1>4 DEF RenameTemp, NoFile
    <2>4. Prepared'
      BY <1>4 DEF RenameTemp
    <2> QED BY <2>2, <2>3, <2>4
  <1>5. CASE Abandon(w)
    BY <1>5 DEF Abandon, NoFile
  <1> QED BY <1>1, <1>2, <1>3, <1>4, <1>5 DEF Save

(* The file system keeps the invariant: what it may bring back is safe.    *)
LEMMA FileSystemIInv ==
  ASSUME IInv, WriteBack \/ PowerFailure
  PROVE  IInv'
  <1>1. CASE WriteBack
    BY <1>1 DEF WriteBack, IInv, TypeOK, Prepared, Safe
  <1>2. CASE PowerFailure
    <2>1. entry' = durable /\ durable' = durable
      BY <1>2, SafeRemains DEF PowerFailure, IInv, TypeOK
    <2> QED BY <1>2, <2>1 DEF PowerFailure, IInv, TypeOK, Prepared, Safe, File, NoFile
  <1> QED BY <1>1, <1>2

(* The invariant is inductive.                                             *)
THEOREM Invariance == Spec => []IInv
  <1>1. IInv /\ [Next]_vars => IInv'
    <2> SUFFICES ASSUME IInv, [Next]_vars PROVE IInv'
      OBVIOUS
    <2>1. CASE UNCHANGED vars
      BY <2>1 DEF vars, IInv, TypeOK, Prepared, Safe
    <2>2. CASE Next
      BY <2>2, SaveIInv, FileSystemIInv DEF Next
    <2> QED BY <2>1, <2>2
  <1> QED BY InitIInv, <1>1, PTL DEF Spec

(* Load (internal/state/state.go:43) never meets a file it cannot decode,  *)
(* whatever fails and however many runs save at once.                      *)
THEOREM AlwaysDecodable == Spec => []LoadNeverFails
  <1>1. IInv => LoadNeverFails
    BY SafeRemains DEF IInv, TypeOK, LoadNeverFails, LoadFails, Safe
  <1> QED BY <1>1, Invariance, PTL

(* Every call of Save, and every failure, is a step of AtomicCell.         *)
LEMMA CellStep ==
  ASSUME IInv, IInv', [Next]_vars
  PROVE  [Cell!CellNext]_(Cell!cellVars)
  <1> USE DEF Cell!CellNext, Cell!cellVars
  <1>1. Remains(durable) = durable /\ Remains(durable)' = durable'
    BY SafeRemains DEF IInv, TypeOK, Remains, Safe
  <1>2. ASSUME NEW w \in Writer, RenameTemp(w)
        PROVE  Cell!Replace(saving[w]) /\ saving[w] \in Value
    BY <1>1, <1>2 DEF RenameTemp, Move, Cell!Replace, IInv, Prepared
  <1>3. ASSUME NEW w \in Writer, Save(w), ~RenameTemp(w)
        PROVE  UNCHANGED <<entry, durable>>
    BY <1>3 DEF Save, CreateTemp, WriteTemp, SyncTemp, Abandon
  <1>4. CASE WriteBack
    BY <1>1, <1>4 DEF WriteBack, Cell!Settle
  <1>5. CASE PowerFailure
    BY <1>1, <1>5 DEF PowerFailure, Cell!Revert
  <1>6. CASE UNCHANGED vars
    BY <1>1, <1>6 DEF vars
  <1> QED BY <1>1, <1>2, <1>3, <1>4, <1>5, <1>6 DEF Next

(* The file implements AtomicCell for any number of concurrent writers.    *)
THEOREM Refinement == Spec => CellSpec
  <1>1. Init => Cell!CellInit
    BY DEF Init, NoFile, Remains, Cell!CellInit
  <1>2. IInv /\ IInv' /\ [Next]_vars => [Cell!CellNext]_(Cell!cellVars)
    BY CellStep
  <1> QED BY <1>1, <1>2, Invariance, PTL DEF Spec, CellSpec, Cell!CellSpec
=============================================================================
