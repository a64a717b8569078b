-------------------------- MODULE ConfigStore_proofs --------------------------
(***************************************************************************)
(* Proofs about ConfigStore, for every number of backups, set of            *)
(* configurations and editor: the types, and that the rotation implements   *)
(* the log of dated snapshots.                                              *)
(***************************************************************************)
EXTENDS ConfigStore, TLAPS

(* The two parts of TypeOK: the Boolean variables, and the others. *)
Flags ==
  /\ running \in BOOLEAN /\ fd \in BOOLEAN /\ watch \in BOOLEAN /\ onPath \in BOOLEAN
  /\ told \in BOOLEAN /\ open \in BOOLEAN /\ clean \in BOOLEAN /\ lost \in BOOLEAN

Data ==
  /\ pc \in {"idle", "shift", "copy", "watch", "read", "truncate", "write",
             "remove", "copyFiles"}
  /\ job \in {"start", "reload", "load", "save", "restore", "default"}
  /\ slot \in 1..Slots
  /\ options \in Values
  /\ buf \in Content
  /\ events \subseteq {"write", "ignored"}
  /\ file \in Content \cup {"absent"}
  /\ backups \in [1..Slots -> [at : Nat, content : Content]]
  /\ clock \in Nat
  /\ lastRead \in Content \cup {"absent"}
  /\ edits \in 0..MaxEdits /\ clicks \in 0..MaxClicks /\ faults \in 0..MaxFaults

(* The slot that a rename or the copy writes to is free. *)
TargetIsFree ==
  /\ pc = "shift" /\ slot < Slots => ~Exists(slot + 1)
  /\ pc = "copy" => ~Exists(1)

(* The rotation begins at the oldest slot. *)
FromTheEnd == pc # "shift" => slot = Slots

(* The lower the number, the younger the backup. *)
YoungestFirst ==
  \A i, j \in 1..Slots :
    i < j /\ Exists(i) /\ Exists(j) => backups[j].at < backups[i].at

(* No backup is dated later than the clock. *)
Dated == \A i \in 1..Slots : backups[i].at <= clock

IInv == TypeOK /\ TargetIsFree /\ FromTheEnd /\ YoungestFirst /\ Dated

(* The snapshots there are. *)
Kept == {backups[i] : i \in {j \in 1..Slots : Exists(j)}}

-----------------------------------------------------------------------------
(* Shift either keeps the snapshots or gives up the oldest. *)
LEMMA ShiftStep ==
  ASSUME IInv, Shift
  PROVE  /\ TypeOK' /\ TargetIsFree' /\ FromTheEnd' /\ YoungestFirst' /\ Dated'
         /\ \/ Kept' = Kept
            \/ \E s \in Kept : (\A t \in Kept : s.at <= t.at) /\ Kept' = Kept \ {s}
         /\ clock' = clock
PROOF
<1> USE StoreAssumption
<1>1. /\ slot \in 1..Slots /\ pc = "shift" /\ Slots \in Nat
      /\ backups \in [1..Slots -> [at : Nat, content : Content]]
      /\ NoBackup \in [at : Nat, content : Content]
  BY DEF IInv, TypeOK, Shift, NoBackup, Content
<1>2. clock' = clock /\ clock \in Nat
  BY DEF Shift, IInv, TypeOK
<1>3a. /\ slot' \in 1..Slots /\ pc' \in {"shift", "copy"}
       /\ pc' = "copy" => slot' = Slots /\ slot = 1
       /\ pc' = "shift" => slot' = slot - 1
  BY <1>1 DEF Shift
<1>3b. backups' \in [1..Slots -> [at : Nat, content : Content]]
  <2>1. backups[slot] \in [at : Nat, content : Content]
    BY <1>1
  <2>2. \/ backups' = backups
        \/ backups' = [backups EXCEPT ![slot] = NoBackup]
        \/ backups' = [backups EXCEPT ![slot + 1] = backups[slot], ![slot] = NoBackup]
    BY DEF Shift
  <2> QED
    BY <2>1, <2>2, <1>1
<1>3. /\ backups' \in [1..Slots -> [at : Nat, content : Content]]
      /\ slot' \in 1..Slots /\ pc' \in {"shift", "copy"}
      /\ pc' = "copy" => slot' = Slots /\ slot = 1
      /\ pc' = "shift" => slot' = slot - 1
  BY <1>3a, <1>3b
<1>4. TypeOK' /\ FromTheEnd'
  <2>1. UNCHANGED <<running, job, options, buf, told, file, open, fd, watch, onPath,
                    events, lastRead, clean, lost, edits, clicks, faults>>
    BY DEF Shift, notify, history
  <2>2. TypeOK'
    BY <2>1, <1>2, <1>3 DEF IInv, TypeOK
  <2> QED
    BY <2>2, <1>3 DEF FromTheEnd
<1>8. ASSUME backups'[slot].at = 0 PROVE TargetIsFree'
  <2>1. pc' = "shift" => slot' + 1 = slot
    BY <1>1, <1>3
  <2>2. pc' = "shift" => ~(backups'[slot' + 1].at > 0)
    BY <2>1, <1>8
  <2>3. pc' = "copy" => ~(backups'[1].at > 0)
    BY <1>3, <1>8
  <2> QED
    BY <2>2, <2>3 DEF TargetIsFree, Exists
<1>5. CASE ~Exists(slot)
  <2>1. backups' = backups
    BY <1>5 DEF Shift
  <2>2. backups'[slot].at = 0
    BY <2>1, <1>1, <1>5 DEF Exists
  <2>4. YoungestFirst' /\ Dated'
    BY <2>1, <1>2 DEF IInv, YoungestFirst, Dated, Exists
  <2>3. Kept' = Kept
    BY <2>1 DEF Kept, Exists
  <2> QED
    BY <2>2, <2>3, <2>4, <1>2, <1>4, <1>8
<1>6. CASE Exists(slot) /\ slot = Slots
  <2>1. backups' = [backups EXCEPT ![slot] = NoBackup]
    BY <1>6 DEF Shift
  <2>2. /\ backups'[slot].at = 0
        /\ \A i \in 1..Slots : i # slot => backups'[i] = backups[i]
    BY <2>1, <1>1 DEF NoBackup
  <2>3. Dated'
    <3>1. \A i \in 1..Slots : i # slot => backups'[i].at <= clock'
      BY <2>2, <1>2 DEF IInv, Dated
    <3>2. backups'[slot].at <= clock'
      BY <2>2, <1>2
    <3> QED
      BY <3>1, <3>2 DEF Dated
  <2>7. \A i \in 1..Slots : backups'[i].at > 0 => backups'[i] = backups[i]
    BY <2>2
  <2>8. YoungestFirst'
    BY <2>7 DEF IInv, YoungestFirst, Exists
  <2>4. /\ backups[slot] \in Kept
        /\ \A t \in Kept : backups[slot].at <= t.at
    BY <1>1, <1>6 DEF Kept, IInv, YoungestFirst, Exists
  <2>5. \A i \in 1..Slots : i # slot /\ Exists(i) => backups[i] # backups[slot]
    BY <1>1, <1>6 DEF IInv, YoungestFirst, Exists
  <2>6. Kept' = Kept \ {backups[slot]}
    BY <2>2, <2>5, <1>1 DEF Kept, Exists
  <2> QED
    BY <2>2, <2>3, <2>8, <2>4, <2>6, <1>2, <1>4, <1>8
<1>7. CASE Exists(slot) /\ slot # Slots
  <2>1. /\ backups' = [backups EXCEPT ![slot + 1] = backups[slot], ![slot] = NoBackup]
        /\ slot + 1 \in 1..Slots /\ ~Exists(slot + 1)
    BY <1>1, <1>7 DEF Shift, IInv, TargetIsFree
  <2>2. /\ backups'[slot + 1] = backups[slot] /\ backups'[slot] = NoBackup
        /\ \A i \in 1..Slots : i # slot /\ i # slot + 1 => backups'[i] = backups[i]
    BY <2>1, <1>1
  <2>3. TargetIsFree'
    BY <2>2, <1>8 DEF NoBackup
  <2>4. Dated'
    <3>1. \A i \in 1..Slots : i # slot /\ i # slot + 1 => backups'[i].at <= clock'
      BY <2>2, <1>2 DEF IInv, Dated
    <3>2. backups'[slot].at <= clock' /\ backups'[slot + 1].at <= clock'
      BY <2>2, <1>1, <1>2 DEF IInv, Dated, NoBackup
    <3> QED
      BY <3>1, <3>2 DEF Dated
  <2>5. YoungestFirst'
    <3> DEFINE from(i) == IF i = slot + 1 THEN slot ELSE i   \* where it was
    <3>1. \A i \in 1..Slots : backups'[i].at > 0 =>
            i # slot /\ from(i) \in 1..Slots /\ backups'[i] = backups[from(i)]
      BY <2>2, <1>1 DEF NoBackup
    <3>2. \A i, j \in 1..Slots : i < j /\ i # slot /\ j # slot => from(i) < from(j)
      BY <1>1
    <3> HIDE DEF from
    <3>3. ASSUME NEW i \in 1..Slots, NEW j \in 1..Slots,
                 i < j, backups'[i].at > 0, backups'[j].at > 0
          PROVE  backups'[j].at < backups'[i].at
      <4>1. /\ from(i) \in 1..Slots /\ from(j) \in 1..Slots /\ from(i) < from(j)
            /\ backups'[i] = backups[from(i)] /\ backups'[j] = backups[from(j)]
        BY <3>1, <3>2, <3>3
      <4> QED
        BY <3>3, <4>1 DEF IInv, YoungestFirst, Exists
    <3> QED
      BY <3>3 DEF YoungestFirst, Exists
  <2>7. backups'[slot].at = 0
    BY <2>2 DEF NoBackup
  <2>6. Kept' = Kept
    <3>1. \A i \in 1..Slots : backups'[i].at > 0 =>
            \E j \in 1..Slots : backups[j].at > 0 /\ backups[j] = backups'[i]
      BY <2>1, <2>2, <2>7, <1>1, <1>7 DEF Exists
    <3>2. \A i \in 1..Slots : backups[i].at > 0 =>
            \E j \in 1..Slots : backups'[j].at > 0 /\ backups'[j] = backups[i]
      BY <2>1, <2>2, <2>7, <1>1, <1>7 DEF Exists
    <3> QED
      BY <3>1, <3>2 DEF Kept, Exists
  <2> QED
    BY <2>3, <2>4, <2>5, <2>6, <1>2, <1>4
<1> QED
  BY <1>5, <1>6, <1>7

(* A snapshot becomes the youngest of the kept ones. *)
LEMMA SnapshotStep ==
  ASSUME IInv, NEW c \in Content, pc = "copy", Snapshot(c)
  PROVE  /\ backups' \in [1..Slots -> [at : Nat, content : Content]]
         /\ clock' \in Nat /\ clock' = clock + 1
         /\ YoungestFirst' /\ Dated'
         /\ Kept' = Kept \cup {[at |-> clock + 1, content |-> c]}
PROOF
<1> USE StoreAssumption
<1> DEFINE new == [at |-> clock + 1, content |-> c]
<1>1. /\ clock \in Nat /\ Slots \in Nat /\ 1 \in 1..Slots
      /\ backups \in [1..Slots -> [at : Nat, content : Content]]
      /\ ~Exists(1)
  BY DEF IInv, TypeOK, TargetIsFree
<1>2. backups' = [backups EXCEPT ![1] = new] /\ clock' = clock + 1
  BY DEF Snapshot
<1>3. /\ backups'[1] = new
      /\ \A i \in 1..Slots : i # 1 => backups'[i] = backups[i]
  BY <1>1, <1>2
<1>4. Dated'
  BY <1>1, <1>2, <1>3 DEF IInv, Dated
<1>5. YoungestFirst'
  BY <1>1, <1>2, <1>3 DEF IInv, YoungestFirst, Dated, Exists
<1>6. Kept' = Kept \cup {new}
  BY <1>1, <1>2, <1>3 DEF Kept, Exists
<1> QED
  BY <1>1, <1>2, <1>4, <1>5, <1>6

-----------------------------------------------------------------------------
(* What all other actions do: the backups stay, and so does the rotation, or *)
(* a new one is to begin at the end.                                         *)
Rotation ==
  /\ UNCHANGED <<backups, clock>>
  /\ UNCHANGED <<pc, slot>> \/ (pc' # "copy" /\ slot' = Slots)

Keeps == TypeOK' /\ Rotation

LEMMA KeepsStep ==
  ASSUME IInv, Keeps
  PROVE  IInv' /\ Kept' = Kept
PROOF
<1>1. TargetIsFree' /\ FromTheEnd'
  <2>1. CASE UNCHANGED <<pc, slot>>
    BY <2>1 DEF IInv, Keeps, Rotation, TargetIsFree, FromTheEnd, Exists
  <2>2. CASE pc' # "copy" /\ slot' = Slots
    BY <2>2, StoreAssumption DEF TargetIsFree, FromTheEnd
  <2> QED
    BY <2>1, <2>2 DEF Keeps, Rotation
<1>2. YoungestFirst' /\ Dated' /\ Kept' = Kept
  BY DEF IInv, YoungestFirst, Dated, Kept, Exists, Keeps, Rotation
<1> QED
  BY <1>1, <1>2 DEF IInv, Keeps

(* The actions that are neither a step of the rotation nor a death. *)
Others ==
  \/ Start \/ Reload \/ MenuEdit \/ Save \/ RestoreLatest \/ LoadDefault
  \/ Watch \/ Read \/ Truncate \/ Write \/ Remove \/ CopyFiles \/ FailsQuietly \/ SaveFails

LEMMA OthersKeep ==
  ASSUME IInv, Others
  PROVE  Keeps
PROOF
<1>0. Flags /\ Data
  BY DEF IInv, TypeOK, Flags, Data
<1> USE StoreAssumption DEF IInv, Keeps, Content, FromTheEnd
<1>1. CASE Start
  <2>1. Flags'
    BY <1>0, <1>1 DEF Flags, Start, disk
  <2>2. Data' /\ Rotation
    BY <1>0, <1>1 DEF Data, Rotation, Start, disk
  <2> QED
    BY <2>1, <2>2 DEF TypeOK, Flags, Data, Rotation
<1>2. CASE Reload
  <2>1. Flags'
    BY <1>0, <1>2 DEF Flags, Reload, Step, disk, history
  <2>2. Data' /\ Rotation
    BY <1>0, <1>2 DEF Data, Rotation, Reload, Step, disk, history
  <2> QED
    BY <2>1, <2>2 DEF TypeOK, Flags, Data, Rotation
<1>3. CASE MenuEdit
  <2>1. Flags'
    BY <1>0, <1>3 DEF Flags, MenuEdit, disk, notify, history
  <2>2. Data' /\ Rotation
    BY <1>0, <1>3 DEF Data, Rotation, MenuEdit, disk, notify, history
  <2> QED
    BY <2>1, <2>2 DEF TypeOK, Flags, Data, Rotation
<1>4. CASE Save
  <2>1. Flags'
    BY <1>0, <1>4 DEF Flags, Save, Step, Click, disk, notify
  <2>2. Data' /\ Rotation
    BY <1>0, <1>4 DEF Data, Rotation, Save, Step, Click, disk, notify
  <2> QED
    BY <2>1, <2>2 DEF TypeOK, Flags, Data, Rotation
<1>5. CASE RestoreLatest
  <2>1. Flags'
    BY <1>0, <1>5 DEF Flags, RestoreLatest, Step, Click, disk, notify
  <2>2. Data' /\ Rotation
    BY <1>0, <1>5 DEF Data, Rotation, RestoreLatest, Step, Click, disk, notify
  <2> QED
    BY <2>1, <2>2 DEF TypeOK, Flags, Data, Rotation
<1>6. CASE LoadDefault
  <2>1. Flags'
    BY <1>0, <1>6 DEF Flags, LoadDefault, Step, Click, disk, notify
  <2>2. Data' /\ Rotation
    BY <1>0, <1>6 DEF Data, Rotation, LoadDefault, Step, Click, disk, notify
  <2> QED
    BY <2>1, <2>2 DEF TypeOK, Flags, Data, Rotation
<1>7. CASE Watch
  <2>1. Flags'
    BY <1>0, <1>7 DEF Flags, Watch, Step, disk, notify, history
  <2>2. Data' /\ Rotation
    BY <1>0, <1>7 DEF Data, Rotation, Watch, Step, disk, notify, history
  <2> QED
    BY <2>1, <2>2 DEF TypeOK, Flags, Data, Rotation
<1>8. CASE Read
  <2>1. Flags'
    BY <1>0, <1>8 DEF Flags, Read, Step, disk, notify
  <2>2. Data' /\ Rotation
    BY <1>0, <1>8 DEF Data, Rotation, Read, Step, disk, notify
  <2> QED
    BY <2>1, <2>2 DEF TypeOK, Flags, Data, Rotation
<1>9. CASE Truncate
  <2>1. Flags'
    BY <1>0, <1>9 DEF Flags, Truncate, Step, notify, history
  <2>2. Data' /\ Rotation
    BY <1>0, <1>9 DEF Data, Rotation, Truncate, Step, notify, history
  <2> QED
    BY <2>1, <2>2 DEF TypeOK, Flags, Data, Rotation
<1>10. CASE Write
  <2>1. Flags'
    BY <1>0, <1>10 DEF Flags, Write, Tell, history
  <2>2. Data' /\ Rotation
    BY <1>0, <1>10 DEF Data, Rotation, Write, Tell, history
  <2> QED
    BY <2>1, <2>2 DEF TypeOK, Flags, Data, Rotation
<1>11. CASE Remove
  <2>1. Flags'
    BY <1>0, <1>11 DEF Flags, Remove, Step, Unlink, Tell, notify, history
  <2>2. Data' /\ Rotation
    BY <1>0, <1>11 DEF Data, Rotation, Remove, Step, Unlink, Tell, notify, history
  <2> QED
    BY <2>1, <2>2 DEF TypeOK, Flags, Data, Rotation
<1>12. CASE CopyFiles
  <2>1. Flags'
    BY <1>0, <1>12 DEF Flags, CopyFiles, Step, notify, history
  <2>2. Data' /\ Rotation
    BY <1>0, <1>12 DEF Data, Rotation, CopyFiles, Step, notify, history
  <2> QED
    BY <2>1, <2>2 DEF TypeOK, Flags, Data, Rotation
<1>13. CASE FailsQuietly
  <2>1. Flags'
    BY <1>0, <1>13 DEF Flags, FailsQuietly, Tell
  <2>3. faults' \in 0..MaxFaults /\ file' \in Content \cup {"absent"}
    BY <1>0, <1>13 DEF Data, FailsQuietly
  <2>4. events' \subseteq {"write", "ignored"}
    BY <1>0, <1>13 DEF Data, FailsQuietly, Tell
  <2>5. /\ pc' = "shift" /\ slot' = Slots /\ job' \in {job, "load"}
        /\ UNCHANGED <<slot, options, buf, backups, clock, lastRead, edits, clicks>>
    BY <1>13 DEF FailsQuietly
  <2>2. Data' /\ Rotation
    BY <1>0, <2>3, <2>4, <2>5 DEF Data, Rotation
  <2> QED
    BY <2>1, <2>2 DEF TypeOK, Flags, Data, Rotation
<1>14. CASE SaveFails
  <2>1. Flags'
    BY <1>0, <1>14 DEF Flags, SaveFails, Tell
  <2>3. faults' \in 0..MaxFaults /\ file' \in Content \cup {"absent"}
    BY <1>0, <1>14 DEF Data, SaveFails
  <2>4. events' \subseteq {"write", "ignored"}
    BY <1>0, <1>14 DEF Data, SaveFails, Tell
  <2>5. /\ pc' = "idle"
        /\ UNCHANGED <<job, slot, options, buf, backups, clock, lastRead, edits, clicks>>
    BY <1>14 DEF SaveFails
  <2>6. slot = Slots
    BY <1>14 DEF SaveFails
  <2>2. Data' /\ Rotation
    BY <1>0, <2>3, <2>4, <2>5, <2>6 DEF Data, Rotation
  <2> QED
    BY <2>1, <2>2 DEF TypeOK, Flags, Data, Rotation
<1> QED
  BY <1>1, <1>2, <1>3, <1>4, <1>5, <1>6, <1>7, <1>8, <1>9, <1>10, <1>11, <1>12,
     <1>13, <1>14 DEF Others

LEMMA EditorKeeps ==
  ASSUME IInv, Editor
  PROVE  Keeps
PROOF
<1>0. Flags /\ Data
  BY DEF IInv, TypeOK, Flags, Data
<1> USE StoreAssumption DEF IInv, Keeps, Content, Edits, Tell, Unlink,
                            process, notify, history
<1>1. CASE EditorOpens
  <2>1. Flags'
    BY <1>0, <1>1 DEF Flags, EditorOpens
  <2>2. Data' /\ Rotation
    BY <1>0, <1>1 DEF Data, Rotation, EditorOpens
  <2> QED
    BY <2>1, <2>2 DEF TypeOK, Flags, Data, Rotation
<1>2. CASE EditorDeletes
  <2>1. Flags'
    BY <1>0, <1>2 DEF Flags, EditorDeletes
  <2>2. Data' /\ Rotation
    BY <1>0, <1>2 DEF Data, Rotation, EditorDeletes
  <2> QED
    BY <2>1, <2>2 DEF TypeOK, Flags, Data, Rotation
<1>3. CASE EditorMoves
  <2>1. Flags'
    BY <1>0, <1>3 DEF Flags, EditorMoves
  <2>2. Data' /\ Rotation
    BY <1>0, <1>3 DEF Data, Rotation, EditorMoves
  <2> QED
    BY <2>1, <2>2 DEF TypeOK, Flags, Data, Rotation
<1>4. ASSUME NEW c \in Values \cup {"bad"},
             EditorWrites(c) \/ EditorReplaces(c) \/ EditorCreates(c)
      PROVE  Keeps
  <2>1. CASE EditorWrites(c)
    <3>1. Flags'
      BY <1>0, <2>1 DEF Flags, EditorWrites
    <3>2. Data' /\ Rotation
      BY <1>0, <2>1 DEF Data, Rotation, EditorWrites
    <3> QED
      BY <3>1, <3>2 DEF TypeOK, Flags, Data, Rotation
  <2>2. CASE EditorReplaces(c)
    <3>1. Flags'
      BY <1>0, <2>2 DEF Flags, EditorReplaces
    <3>2. Data' /\ Rotation
      BY <1>0, <2>2 DEF Data, Rotation, EditorReplaces
    <3> QED
      BY <3>1, <3>2 DEF TypeOK, Flags, Data, Rotation
  <2>3. CASE EditorCreates(c)
    <3>1. Flags'
      BY <1>0, <2>3 DEF Flags, EditorCreates
    <3>2. Data' /\ Rotation
      BY <1>0, <2>3 DEF Data, Rotation, EditorCreates
    <3> QED
      BY <3>1, <3>2 DEF TypeOK, Flags, Data, Rotation
  <2> QED
    BY <1>4, <2>1, <2>2, <2>3
<1> QED
  BY <1>1, <1>2, <1>3, <1>4 DEF Editor

-----------------------------------------------------------------------------
(* What a step may do to the snapshots. *)
LogStep ==
  \/ Kept' = Kept /\ clock' = clock
  \/ /\ \E s \in Kept : (\A t \in Kept : s.at <= t.at) /\ Kept' = Kept \ {s}
     /\ clock' = clock
  \/ \E c \in Content :
       Kept' = Kept \cup {[at |-> clock + 1, content |-> c]} /\ clock' = clock + 1

(* The copy, and what is left of it when the process dies or gives up. *)
LEMMA CopyStep ==
  ASSUME IInv, Copy
  PROVE  IInv' /\ LogStep
PROOF
<1> USE StoreAssumption
<1>1. /\ pc = "copy" /\ pc' \in {"truncate", "remove", "watch"}
      /\ slot' = slot /\ slot = Slots
  BY DEF Copy, Step, AfterCopy, IInv, FromTheEnd
<1>2. CASE file = "absent"
  <2>1. Keeps
    BY <1>1, <1>2 DEF Copy, Step, notify, history, IInv, TypeOK, Keeps, Rotation
  <2> QED
    BY <2>1, KeepsStep DEF LogStep, Keeps, Rotation
<1>3. CASE file # "absent"
  <2>1. file \in Content /\ Snapshot(file)
    BY <1>3 DEF Copy, IInv, TypeOK
  <2>2. /\ backups' \in [1..Slots -> [at : Nat, content : Content]]
        /\ clock' \in Nat /\ clock' = clock + 1
        /\ YoungestFirst' /\ Dated'
        /\ Kept' = Kept \cup {[at |-> clock + 1, content |-> file]}
    BY <1>1, <2>1, SnapshotStep
  <2>3. TypeOK'
    BY <1>1, <2>2 DEF Copy, Step, notify, history, IInv, TypeOK
  <2>4. TargetIsFree' /\ FromTheEnd'
    BY <1>1 DEF TargetIsFree, FromTheEnd
  <2> QED
    BY <2>1, <2>2, <2>3, <2>4 DEF IInv, LogStep
<1> QED
  BY <1>2, <1>3

LEMMA CutShortStep ==
  ASSUME IInv, Die \/ FirstLoadFails
  PROVE  IInv' /\ LogStep
PROOF
<1> USE StoreAssumption
<1>1. pc' = "idle" /\ slot' = Slots /\ CutShort
  BY DEF Die, FirstLoadFails
<1>2. ASSUME backups' \in [1..Slots -> [at : Nat, content : Content]], clock' \in Nat,
             file' \in Content \cup {"absent"}
      PROVE  TypeOK'
  <2>1. Flags /\ Data
    BY DEF IInv, TypeOK, Flags, Data
  <2>2. Flags'
    BY <2>1 DEF Die, FirstLoadFails, notify, Flags
  <2>3. faults' \in 0..MaxFaults /\ slot' \in 1..Slots
    BY <1>1, <2>1 DEF Die, FirstLoadFails, Data
  <2>4. events' \subseteq {"write", "ignored"} /\ job' \in {"start", job}
    BY <2>1 DEF Die, FirstLoadFails, notify, Data
  <2>5. UNCHANGED <<options, buf, lastRead, edits, clicks>>
    BY DEF Die, FirstLoadFails
  <2>6. Data'
    BY <1>1, <1>2, <2>1, <2>3, <2>4, <2>5 DEF Data
  <2> QED
    BY <2>2, <2>6 DEF TypeOK, Flags, Data
<1>3. file' \in Content \cup {"absent"}
  BY <1>1 DEF CutShort, IInv, TypeOK, Content
<1>4. CASE UNCHANGED <<backups, clock>>
  <2>1. Keeps
    BY <1>1, <1>2, <1>3, <1>4 DEF IInv, TypeOK, Keeps, Rotation
  <2> QED
    BY <2>1, KeepsStep, <1>4 DEF LogStep
<1>5. CASE pc = "copy" /\ \E c \in {"empty", "bad"} : Snapshot(c)
  <2>1. PICK c \in {"empty", "bad"} : Snapshot(c)
    BY <1>5
  <2>2. c \in Content
    BY DEF Content
  <2>3. /\ backups' \in [1..Slots -> [at : Nat, content : Content]]
        /\ clock' \in Nat /\ clock' = clock + 1
        /\ YoungestFirst' /\ Dated'
        /\ Kept' = Kept \cup {[at |-> clock + 1, content |-> c]}
    BY <1>5, <2>1, <2>2, SnapshotStep
  <2>4. TargetIsFree' /\ FromTheEnd'
    BY <1>1 DEF TargetIsFree, FromTheEnd
  <2> QED
    BY <1>2, <1>3, <2>2, <2>3, <2>4 DEF IInv, LogStep
<1> QED
  BY <1>1, <1>4, <1>5 DEF CutShort

LEMMA Inductive ==
  ASSUME IInv, [Next]_vars
  PROVE  IInv' /\ LogStep
PROOF
<1>1. CASE Shift
  BY <1>1, ShiftStep DEF IInv, LogStep
<1>2. CASE Copy
  BY <1>2, CopyStep
<1>3. CASE Die \/ FirstLoadFails
  BY <1>3, CutShortStep
<1>4. CASE Others \/ Editor
  <2>1. Keeps
    BY <1>4, OthersKeep, EditorKeeps
  <2> QED
    BY <2>1, KeepsStep DEF LogStep, Keeps, Rotation
<1>5. CASE UNCHANGED vars
  <2>1. Keeps
    BY <1>5 DEF vars, disk, notify, process, history, IInv, TypeOK, Keeps, Rotation
  <2> QED
    BY <2>1, KeepsStep DEF LogStep, Keeps, Rotation
<1> QED
  BY <1>1, <1>2, <1>3, <1>4, <1>5 DEF Next, Program, Advance, Others

LEMMA Initially == Init => IInv /\ Kept = {}
PROOF
<1> SUFFICES ASSUME Init PROVE IInv /\ Kept = {}
  OBVIOUS
<1> USE StoreAssumption
<1>1. TypeOK
  <2>1. Flags
    BY DEF Init, Flags
  <2>2. Data
    BY DEF Init, Data, NoBackup, Content
  <2> QED
    BY <2>1, <2>2 DEF TypeOK, Flags, Data
<1>2. \A i \in 1..Slots : backups[i].at = 0
  BY DEF Init, NoBackup
<1>3. Kept = {}
  BY <1>2 DEF Kept, Exists
<1>4. TargetIsFree /\ FromTheEnd /\ YoungestFirst /\ Dated
  BY <1>2 DEF Init, TargetIsFree, FromTheEnd, YoungestFirst, Dated, Exists
<1> QED
  BY <1>1, <1>3, <1>4 DEF IInv

-----------------------------------------------------------------------------
(* Every variable has its type: options is a complete configuration whatever *)
(* the file holds, and the loop of rollBackup stays within its slots.        *)
THEOREM TypeCorrect == Spec => []TypeOK
PROOF
<1>1. Init => IInv
  BY Initially
<1>2. IInv /\ [Next]_vars => IInv'
  BY Inductive
<1>3. IInv => TypeOK
  BY DEF IInv
<1> QED
  BY <1>1, <1>2, <1>3, PTL DEF Spec

(* The rotation implements the log of snapshots, for any number of slots and *)
(* with a crash between any two file operations: nothing but the oldest      *)
(* backup is ever given up.                                                  *)
THEOREM RotationIsBackupLog == Spec => ImplementsBackupLog
PROOF
<1>1. Init => Log!Init
  BY Initially DEF Kept, Log!Init, Init
<1>2. IInv /\ [Next]_vars => [Log!Next]_Log!vars
  <2> SUFFICES ASSUME IInv, [Next]_vars PROVE [Log!Next]_Log!vars
    OBVIOUS
  <2>1. LogStep
    BY Inductive
  <2> QED
    BY <2>1 DEF LogStep, Kept, Log!Next, Log!ForgetOldest, Log!Push, Log!vars
<1>3. Init => IInv
  BY Initially
<1>4. IInv /\ [Next]_vars => IInv'
  BY Inductive
<1> QED
  BY <1>1, <1>2, <1>3, <1>4, PTL DEF Spec, ImplementsBackupLog, Log!Spec

-----------------------------------------------------------------------------
(* Why no change is missed. *)

(* Only a file that is there is watched. *)
WatchedIsThere == onPath => file # "absent"

(* A save does nothing but truncate and write, and the load of a new process *)
(* has no watch before it adds one.                                          *)
JobWhere ==
  /\ pc \in {"shift", "copy", "watch", "read", "remove", "copyFiles"} => job # "save"
  /\ pc \in {"copyFiles", "shift", "copy", "watch"} /\ job = "start" => ~fd
  /\ pc = "remove" => job = "default"

NInv == IInv /\ WatchedIsThere /\ JobWhere /\ ChangeIsPending

LEMMA NoticeStep ==
  ASSUME NInv, [Next]_vars
  PROVE  WatchedIsThere' /\ JobWhere' /\ ChangeIsPending'
PROOF
<1>0. Flags /\ Data /\ WatchedIsThere /\ JobWhere /\ ChangeIsPending
  BY DEF NInv, IInv, TypeOK, Flags, Data
<1> USE StoreAssumption, <1>0 DEF WatchedIsThere, JobWhere, ChangeIsPending
<1>1. CASE Start
  BY <1>1 DEF Start
<1>2. CASE Reload
  BY <1>2 DEF Reload, Step, disk, history
<1>3. CASE MenuEdit
  BY <1>3 DEF MenuEdit, disk, notify, history
<1>4. CASE Save
  BY <1>4 DEF Save, Step, disk, notify
<1>5. CASE RestoreLatest
  BY <1>5 DEF RestoreLatest, Step, disk, notify
<1>6. CASE LoadDefault
  BY <1>6 DEF LoadDefault, Step, disk, notify
<1>7. CASE Shift
  BY <1>7 DEF Shift, notify, history
<1>8. CASE Copy
  BY <1>8 DEF Copy, Step, AfterCopy, notify, history
<1>9. CASE Watch
  BY <1>9 DEF Watch, Step, disk, notify, history
<1>10. CASE Read
  BY <1>10 DEF Read, Step, disk, notify
<1>11. CASE Truncate
  BY <1>11 DEF Truncate, Step, notify, history
<1>12. CASE Write
  BY <1>12 DEF Write, Tell, history, Data, Content
<1>13. CASE Remove
  BY <1>13 DEF Remove, Step, Unlink, Tell, notify, history
<1>14. CASE CopyFiles
  BY <1>14 DEF CopyFiles, Step, notify, history
<1>15. CASE Die
  BY <1>15 DEF Die
<1>16. CASE FirstLoadFails
  BY <1>16 DEF FirstLoadFails, CutShort, notify
<1>17. CASE FailsQuietly
  BY <1>17 DEF FailsQuietly, Tell
<1>20. CASE SaveFails
  BY <1>20 DEF SaveFails, Tell
<1>18. CASE Editor
  <2> USE DEF Edits, Tell, Unlink, process, notify, history
  <2>1. CASE EditorOpens
    BY <2>1 DEF EditorOpens
  <2>2. CASE EditorDeletes
    BY <2>2 DEF EditorDeletes
  <2>3. CASE EditorMoves
    BY <2>3 DEF EditorMoves
  <2>4. ASSUME NEW c \in Values \cup {"bad"},
               EditorWrites(c) \/ EditorReplaces(c) \/ EditorCreates(c)
        PROVE  WatchedIsThere' /\ JobWhere' /\ ChangeIsPending'
    <3>1. CASE EditorWrites(c)
      BY <3>1 DEF EditorWrites
    <3>2. CASE EditorReplaces(c)
      BY <3>2 DEF EditorReplaces
    <3>3. CASE EditorCreates(c)
      BY <3>3 DEF EditorCreates
    <3> QED
      BY <2>4, <3>1, <3>2, <3>3
  <2> QED
    BY <1>18, <2>1, <2>2, <2>3, <2>4 DEF Editor
<1>19. CASE UNCHANGED vars
  BY <1>19 DEF vars, disk, notify, process, history
<1> QED
  BY <1>1, <1>2, <1>3, <1>4, <1>5, <1>6, <1>7, <1>8, <1>9, <1>10, <1>11, <1>12,
     <1>13, <1>14, <1>15, <1>16, <1>17, <1>18, <1>19, <1>20 DEF Next, Program, Advance

(* While the watch is on the file, a change that was not read is announced by *)
(* an event or about to be read, whoever makes it and in whatever step of the *)
(* program it falls.                                                          *)
THEOREM NoChangeIsMissed == Spec => []ChangeIsPending
PROOF
<1>1. Init => NInv
  BY Initially DEF NInv, Init, WatchedIsThere, JobWhere, ChangeIsPending
<1>2. NInv /\ [Next]_vars => NInv'
  BY Inductive, NoticeStep DEF NInv
<1>3. NInv => ChangeIsPending
  BY DEF NInv
<1> QED
  BY <1>1, <1>2, <1>3, PTL DEF Spec

-----------------------------------------------------------------------------
(* Why what was loaded is kept: no operation rotates more than twice before   *)
(* it reads the file again, so the backup is in one of the first three slots. *)

Rounds == IF job = "load" THEN 1 ELSE 0   \* rotations that may have gone before

(* The backup of what was read last has not gone further than this. *)
InReach(i) ==
  CASE pc = "idle" \/ job = "save" -> i = 1
    [] pc = "shift"                -> i <= Rounds + (IF i > slot THEN 2 ELSE 1)
    [] pc \in {"watch", "read"}    -> i <= 3
    [] OTHER                       -> i <= Rounds + 2

BackupOf(i) == Exists(i) /\ backups[i].content = lastRead /\ InReach(i)

BackupInReach == running /\ clean => \E i \in 1..Slots : BackupOf(i)

(* Which operation has which steps; a start has read nothing before its load. *)
StepsOf ==
  /\ pc \in {"truncate", "write"} => job \in {"save", "restore"}
  /\ pc = "remove" => job = "default"
  /\ pc = "copyFiles" => job \in {"start", "default"}
  /\ pc \in {"shift", "copy", "watch", "read"} => job # "save"
  /\ pc # "idle" /\ job = "start" => ~clean

KInv == IInv /\ StepsOf /\ BackupInReach

LEMMA StepsOfStep ==
  ASSUME IInv, StepsOf, [Next]_vars
  PROVE  StepsOf'
PROOF
<1> USE DEF StepsOf
<1>1. CASE Start \/ Reload \/ MenuEdit \/ Save \/ RestoreLatest \/ LoadDefault
  BY <1>1 DEF Start, Reload, MenuEdit, Save, RestoreLatest, LoadDefault, Step, history
<1>2. CASE Advance
  BY <1>2 DEF Advance, Shift, Copy, AfterCopy, Watch, Read, Truncate, Write, Remove,
              CopyFiles, Step, history
<1>3. CASE Die \/ FirstLoadFails \/ FailsQuietly \/ SaveFails
  BY <1>3 DEF Die, FirstLoadFails, FailsQuietly, SaveFails
<1>4. CASE Editor
  BY <1>4 DEF Editor, EditorOpens, EditorWrites, EditorReplaces, EditorDeletes,
              EditorMoves, EditorCreates, Edits, process, history
<1>5. CASE UNCHANGED vars
  BY <1>5 DEF vars, process, history
<1> QED
  BY <1>1, <1>2, <1>3, <1>4, <1>5 DEF Next, Program

(* A step that leaves the backups and the last content read alone keeps the   *)
(* backup where it was.                                                       *)
LEMMA StaysInReach ==
  ASSUME BackupInReach, UNCHANGED <<backups, lastRead>>,
         running' => running, clean' => clean,
         running /\ clean => \A i \in 1..Slots : InReach(i) => InReach(i)'
  PROVE  BackupInReach'
PROOF
<1> QED
  BY DEF BackupInReach, BackupOf, Exists

LEMMA ReachStep ==
  ASSUME KInv, [Next]_vars
  PROVE  BackupInReach'
PROOF
<1> USE StoreAssumption
<1>0. /\ IInv /\ StepsOf /\ BackupInReach
      /\ slot \in 1..Slots /\ Slots \in Nat /\ Slots >= 3
  BY DEF KInv, IInv, TypeOK
<1>1. CASE Start
  BY <1>1 DEF Start, BackupInReach
<1>2. CASE Reload
  BY <1>0, <1>2, StaysInReach DEF Reload, Step, disk, history, InReach, Rounds, IInv, FromTheEnd
<1>3. CASE MenuEdit
  BY <1>0, <1>3, StaysInReach DEF MenuEdit, disk, history, InReach, Rounds
<1>4. CASE Save
  BY <1>0, <1>4, StaysInReach DEF Save, Step, disk, InReach, Rounds
<1>5. CASE RestoreLatest
  BY <1>0, <1>5, StaysInReach DEF RestoreLatest, Step, disk, InReach, Rounds, IInv, FromTheEnd
<1>6. CASE LoadDefault
  BY <1>0, <1>6, StaysInReach DEF LoadDefault, Step, disk, InReach, Rounds, IInv, FromTheEnd
<1>9. CASE Watch
  BY <1>0, <1>9, StaysInReach DEF Watch, Step, disk, history, InReach, Rounds, StepsOf
<1>11. CASE Truncate
  BY <1>0, <1>11, StaysInReach DEF Truncate, Step, history, InReach, Rounds, StepsOf
<1>12. CASE Write
  BY <1>0, <1>12, StaysInReach
     DEF Write, history, InReach, Rounds, StepsOf, IInv, FromTheEnd
<1>13. CASE Remove
  BY <1>0, <1>13, StaysInReach DEF Remove, Step, history, InReach, Rounds, StepsOf
<1>14. CASE CopyFiles
  BY <1>0, <1>14, StaysInReach
     DEF CopyFiles, Step, history, InReach, Rounds, StepsOf, IInv, FromTheEnd
<1>15. CASE Die
  BY <1>15 DEF Die, BackupInReach
<1>16. CASE FirstLoadFails
  BY <1>0, <1>16 DEF FirstLoadFails, StepsOf, BackupInReach
<1>17. CASE FailsQuietly
  BY <1>0, <1>17, StaysInReach
     DEF FailsQuietly, InReach, Rounds, StepsOf, IInv, FromTheEnd
<1>20. CASE SaveFails
  BY <1>0, <1>20, StaysInReach DEF SaveFails, InReach, Rounds
<1>18. CASE Editor
  <2>1. UNCHANGED <<running, pc, job, slot, backups, lastRead, clean>>
    BY <1>18 DEF Editor, EditorOpens, EditorWrites, EditorReplaces, EditorDeletes,
                 EditorMoves, EditorCreates, Edits, process, history
  <2> QED
    BY <1>0, <2>1, StaysInReach DEF InReach, Rounds
<1>19. CASE UNCHANGED vars
  BY <1>0, <1>19, StaysInReach DEF vars, disk, process, history, InReach, Rounds
<1>10. CASE Read
  <2> SUFFICES ASSUME clean' PROVE \E i \in 1..Slots : BackupOf(i)'
    BY DEF BackupInReach
  <2>1. /\ Exists(1) /\ backups[1].content = file /\ lastRead' = file
        /\ pc' = "idle" /\ UNCHANGED backups /\ 1 \in 1..Slots
    <3>1. clean' = (Exists(1) /\ backups[1].content = file)
      BY <1>10 DEF Read
    <3>2. Exists(1) /\ backups[1].content = file
      BY <3>1, Zenon
    <3> QED
      BY <1>0, <1>10, <3>2 DEF Read, Step, disk
  <2>2. BackupOf(1)'
    BY <2>1 DEF BackupOf, Exists, InReach
  <2> QED
    BY <2>1, <2>2
<1>7. CASE Shift
  <2> SUFFICES ASSUME running, clean PROVE \E j \in 1..Slots : BackupOf(j)'
    BY <1>7 DEF BackupInReach, Shift, history
  <2>1. PICK i \in 1..Slots : BackupOf(i)
    BY <1>0 DEF BackupInReach
  <2>2. /\ pc = "shift" /\ job # "save" /\ UNCHANGED <<job, lastRead>>
        /\ Exists(i) /\ backups[i].content = lastRead
        /\ i <= Rounds + (IF i > slot THEN 2 ELSE 1)
        /\ Rounds \in 0..1 /\ Rounds' = Rounds
    BY <1>0, <1>7, <2>1 DEF Shift, StepsOf, BackupOf, InReach, history, Rounds
  <2>3. \/ pc' = "copy" /\ slot = 1
        \/ pc' = "shift" /\ slot' = slot - 1
    BY <1>7 DEF Shift
  <2>4. backups \in [1..Slots -> [at : Nat, content : Content]]
    BY <1>0 DEF IInv, TypeOK
  <2>5. ASSUME NEW j \in 1..Slots, backups'[j] = backups[i],
               j <= Rounds + 2, j > slot \/ (j < slot /\ j <= Rounds + 1)
        PROVE  BackupOf(j)'
    <3>1. InReach(j)'
      BY <1>0, <2>2, <2>3, <2>5 DEF InReach
    <3> QED
      BY <2>2, <2>5, <3>1 DEF BackupOf, Exists
  <2>6. CASE i = slot
    <3>1. /\ slot # Slots /\ slot + 1 \in 1..Slots
          /\ slot + 1 <= Rounds + 2 /\ slot + 1 > slot
      BY <1>0, <2>2, <2>6
    <3>2. backups' = [backups EXCEPT ![slot + 1] = backups[slot], ![slot] = NoBackup]
      BY <1>7, <2>2, <2>6, <3>1 DEF Shift
    <3>3. backups'[slot + 1] = backups[i]
      BY <2>4, <2>6, <3>1, <3>2
    <3> QED
      BY <2>5, <3>1, <3>3
  <2>7. CASE i # slot
    <3>1. i # slot + 1 \/ ~Exists(slot)
      BY <1>0, <2>2 DEF IInv, TargetIsFree
    <3>2. backups'[i] = backups[i]
      BY <1>0, <1>7, <2>4, <2>7, <3>1 DEF Shift
    <3>3. i <= Rounds + 2 /\ (i > slot \/ (i < slot /\ i <= Rounds + 1))
      BY <1>0, <2>2, <2>7
    <3> QED
      BY <2>5, <3>2, <3>3
  <2> QED
    BY <2>6, <2>7
<1>8. CASE Copy
  <2> SUFFICES ASSUME running, clean PROVE \E j \in 1..Slots : BackupOf(j)'
    BY <1>8 DEF BackupInReach, Copy, history
  <2>1. PICK i \in 1..Slots : BackupOf(i)
    BY <1>0 DEF BackupInReach
  <2>2. /\ Exists(i) /\ backups[i].content = lastRead /\ lastRead' = lastRead
        /\ pc = "copy" /\ job # "save" /\ UNCHANGED job /\ i <= Rounds + 2
    BY <1>0, <1>8, <2>1 DEF Copy, Step, StepsOf, BackupOf, InReach, history
  <2>3. i # 1
    BY <1>0, <2>2 DEF IInv, TargetIsFree
  <2>4. backups'[i] = backups[i]
    BY <1>0, <1>8, <2>3 DEF Copy, Snapshot, IInv, TypeOK
  <2>5. InReach(i)'
    BY <1>8, <2>2 DEF Copy, Step, AfterCopy, InReach, Rounds
  <2> QED
    BY <2>2, <2>4, <2>5 DEF BackupOf, Exists
<1> QED
  BY <1>1, <1>2, <1>3, <1>4, <1>5, <1>6, <1>7, <1>8, <1>9, <1>10, <1>11, <1>12,
     <1>13, <1>14, <1>15, <1>16, <1>17, <1>18, <1>19, <1>20 DEF Next, Program, Advance

(* What the program runs with is in a backup at every moment, with three or   *)
(* more slots, so that no crash loses it.                                     *)
THEOREM WhatIsLoadedIsKept == Spec => []LoadedIsKept
PROOF
<1>1. Init => KInv
  BY Initially DEF KInv, Init, StepsOf, BackupInReach
<1>2. KInv /\ [Next]_vars => KInv'
  BY Inductive, StepsOfStep, ReachStep DEF KInv
<1>3. KInv => LoadedIsKept
  BY DEF KInv, BackupInReach, BackupOf, LoadedIsKept
<1> QED
  BY <1>1, <1>2, <1>3, PTL DEF Spec
=============================================================================
