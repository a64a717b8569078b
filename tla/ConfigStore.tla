------------------------------ MODULE ConfigStore ------------------------------
(***************************************************************************)
(* The configuration of pulse-visualizer: Config::options in memory, the    *)
(* file config.yml, its rolling backups, and the inotify watch by which the *)
(* program notices that the file was changed.                               *)
(*                                                                         *)
(* The program works on the file in steps: a remove, a rename, a copy, a    *)
(* truncation, a write.  Between two steps the user's editor can change the *)
(* file, and the process can die or a file operation can fail.              *)
(*                                                                         *)
(* All of the options are one value.  A file that was cut short holds       *)
(* "empty" (nothing usable, every option keeps its value) or "bad" (a parse *)
(* error).  The Linux build is modelled; others compare modification times. *)
(***************************************************************************)
EXTENDS Naturals

CONSTANTS
  Values,      (* complete configurations                                *)
  Template,    (* the one in config.yml.template                         *)
  Slots,       (* how many backups are kept: 10 in the code              *)
  EditorOps,   (* what the user does to the file                         *)
  MaxEdits,    (* bound: how often                                       *)
  MaxClicks,   (* bound: saves, "Load default", "Restore latest"         *)
  MaxFaults    (* bound: deaths of the process and failed operations     *)

ASSUME StoreAssumption ==
  /\ Template \in Values
  /\ Values \cap {"empty", "bad", "absent"} = {}
  /\ Slots \in Nat /\ Slots >= 3
  /\ EditorOps \subseteq {"write", "replace", "delete", "move"}
  /\ MaxEdits \in Nat /\ MaxClicks \in Nat /\ MaxFaults \in Nat

Content == Values \cup {"empty", "bad"}

VARIABLES
  running,   \* the process is alive
  pc,        \* the next step of the operation on the file, or "idle"
  job,       \* which operation: a load, a save, or one of the two buttons
  slot,      \* the loop variable of rollBackup
  options,   \* Config::options
  buf,       \* the copy of the backup in restoreBackup
  fd,        \* inotifyFd # -1
  watch,     \* inotifyWatch # -1
  onPath,    \* the watched file is the one config.yml names
  events,    \* what inotify has queued
  told,      \* plugins were told of what was loaded last
  file,      \* what config.yml holds, or "absent"
  open,      \* the editor has truncated the file and not written it yet
  backups,   \* config.bak.1 .. config.bak.<Slots>; at = 0: does not exist
  clock,     \* history: backups made
  lastRead,  \* history: what this process has read last
  clean,     \* history: the backup made just before that was the same
  lost,      \* history: the user or a failed operation took the file away
  edits, clicks, faults   \* bounds

disk    == <<file, open, backups, clock>>
notify  == <<fd, watch, onPath, events>>
process == <<running, pc, job, slot, options, buf, told>>
history == <<lastRead, clean, lost, edits, clicks, faults>>
vars    == <<disk, notify, process, history>>

NoBackup == [at |-> 0, content |-> "empty"]

TypeOK ==
  /\ running \in BOOLEAN
  /\ pc \in {"idle", "shift", "copy", "watch", "read", "truncate", "write",
             "remove", "copyFiles"}
  /\ job \in {"start", "reload", "load", "save", "restore", "default"}
  /\ slot \in 1..Slots
  /\ options \in Values
  /\ buf \in Content
  /\ fd \in BOOLEAN /\ watch \in BOOLEAN /\ onPath \in BOOLEAN
  /\ events \subseteq {"write", "ignored"}
  /\ told \in BOOLEAN
  /\ file \in Content \cup {"absent"}
  /\ open \in BOOLEAN
  /\ backups \in [1..Slots -> [at : Nat, content : Content]]
  /\ clock \in Nat
  /\ lastRead \in Content \cup {"absent"}
  /\ clean \in BOOLEAN /\ lost \in BOOLEAN
  /\ edits \in 0..MaxEdits /\ clicks \in 0..MaxClicks /\ faults \in 0..MaxFaults

Init ==
  /\ running = FALSE
  /\ pc = "idle" /\ job = "start" /\ slot = Slots
  /\ options = Template /\ buf = "empty"
  /\ fd = FALSE /\ watch = FALSE /\ onPath = FALSE /\ events = {}
  /\ told = TRUE
  /\ file \in Content \cup {"absent"} /\ open = FALSE
  /\ backups = [i \in 1..Slots |-> NoBackup] /\ clock = 0
  /\ lastRead = "absent" /\ clean = FALSE /\ lost = FALSE
  /\ edits = 0 /\ clicks = 0 /\ faults = 0

-----------------------------------------------------------------------------
(* Helpers. *)

Exists(i) == backups[i].at > 0

(* The process goes from one step of its operation to the next. *)
Step(from, to) == running /\ pc = from /\ pc' = to

(* The kernel tells the watcher of the inode at the path. *)
Tell(e) == events' = IF onPath THEN events \cup {e} ELSE events

(* The inode at the path is gone: its watch goes with it. *)
Unlink == Tell("ignored") /\ onPath' = FALSE /\ UNCHANGED <<fd, watch>>

-----------------------------------------------------------------------------
(* The operations that begin. *)

(* main(): copyFiles, then load, with the statics and globals of a new process. *)
Start ==
  /\ ~running
  /\ running' = TRUE
  /\ pc' = "copyFiles" /\ job' = "start" /\ slot' = Slots
  /\ options' = Template /\ buf' = "empty" /\ told' = TRUE
  /\ fd' = FALSE /\ watch' = FALSE /\ onPath' = FALSE /\ events' = {}
  /\ lastRead' = "absent" /\ clean' = FALSE
  /\ UNCHANGED <<disk, lost, edits, clicks, faults>>

(* FAULT: IN_IGNORED is taken for any other event. *)
ReloadKeepsDeadWatch ==
  /\ Step("idle", "shift")
  /\ fd /\ watch /\ events # {}
  /\ job' = "reload"
  /\ events' = {}
  /\ UNCHANGED <<fd, watch, onPath, running, slot, options, buf, told, disk, history>>

(* Config::reload has read events: after IN_IGNORED the descriptor and the *)
(* watch are forgotten, then load() begins.                                *)
Reload ==
  /\ Step("idle", "shift")
  /\ fd /\ watch /\ events # {}
  /\ job' = "reload"
  /\ events' = {}
  /\ IF "ignored" \in events
       THEN fd' = FALSE /\ watch' = FALSE /\ onPath' = FALSE
       ELSE UNCHANGED <<fd, watch, onPath>>
  /\ UNCHANGED <<running, slot, options, buf, told, disk, history>>

(* A tick or a slider of the menu, a drop: the options change in memory. *)
MenuEdit ==
  /\ running /\ pc = "idle"
  /\ options' \in Values
  /\ UNCHANGED <<running, pc, job, slot, buf, told, disk, notify, history>>

Click == clicks < MaxClicks /\ clicks' = clicks + 1

Save ==
  /\ Step("idle", "truncate")
  /\ Click
  /\ job' = "save"
  /\ UNCHANGED <<running, slot, options, buf, told, disk, notify,
                 lastRead, clean, lost, edits, faults>>

(* "Restore latest": restoreBackup reads config.bak.1 first; without it only *)
(* the load that follows is done.                                            *)
RestoreLatest ==
  /\ Step("idle", "shift")
  /\ Click
  /\ IF Exists(1) THEN job' = "restore" /\ buf' = backups[1].content
                  ELSE job' = "load" /\ UNCHANGED buf
  /\ UNCHANGED <<running, slot, options, told, disk, notify,
                 lastRead, clean, lost, edits, faults>>

LoadDefault ==
  /\ Step("idle", "shift")
  /\ Click
  /\ job' = "default"
  /\ UNCHANGED <<running, slot, options, buf, told, disk, notify,
                 lastRead, clean, lost, edits, faults>>

-----------------------------------------------------------------------------
(* rollBackup. *)

(* FAULT: the backups are shifted from the young end. *)
ShiftUpwards ==
  /\ running /\ pc = "shift"
  /\ LET i == Slots + 1 - slot IN
     backups' = IF ~Exists(i) THEN backups
                ELSE IF i = Slots THEN [backups EXCEPT ![i] = NoBackup]
                ELSE [backups EXCEPT ![i + 1] = backups[i], ![i] = NoBackup]
  /\ IF slot = 1 THEN pc' = "copy" /\ slot' = Slots
                 ELSE slot' = slot - 1 /\ UNCHANGED pc
  /\ UNCHANGED <<running, job, options, buf, told, file, open, clock, notify, history>>

(* FAULT: the loop ends before the youngest. *)
ShiftAllButFirst ==
  /\ running /\ pc = "shift"
  /\ backups' = IF ~Exists(slot) THEN backups
                ELSE IF slot = Slots THEN [backups EXCEPT ![slot] = NoBackup]
                ELSE [backups EXCEPT ![slot + 1] = backups[slot], ![slot] = NoBackup]
  /\ IF slot = 2 THEN pc' = "copy" /\ slot' = Slots
                 ELSE slot' = slot - 1 /\ UNCHANGED pc
  /\ UNCHANGED <<running, job, options, buf, told, file, open, clock, notify, history>>

(* The oldest is removed, the others are renamed, oldest first. *)
Shift ==
  /\ running /\ pc = "shift"
  /\ backups' = IF ~Exists(slot) THEN backups
                ELSE IF slot = Slots THEN [backups EXCEPT ![slot] = NoBackup]
                ELSE [backups EXCEPT ![slot + 1] = backups[slot], ![slot] = NoBackup]
  /\ IF slot = 1 THEN pc' = "copy" /\ slot' = Slots
                 ELSE slot' = slot - 1 /\ UNCHANGED pc
  /\ UNCHANGED <<running, job, options, buf, told, file, open, clock, notify, history>>

(* A snapshot becomes config.bak.1. *)
Snapshot(c) ==
  /\ backups' = [backups EXCEPT ![1] = [at |-> clock + 1, content |-> c]]
  /\ clock' = clock + 1

AfterCopy == CASE job = "restore" -> "truncate"
               [] job = "default" -> "remove"
               [] OTHER           -> "watch"

Copy ==
  /\ Step("copy", AfterCopy)
  /\ IF file = "absent" THEN UNCHANGED <<backups, clock>> ELSE Snapshot(file)
  /\ UNCHANGED <<running, job, slot, options, buf, told, file, open, notify, history>>

-----------------------------------------------------------------------------
(* load, after its rollBackup. *)

(* inotify_add_watch fails when there is no file. *)
Watch ==
  /\ Step("watch", "read")
  /\ IF fd THEN UNCHANGED notify
     ELSE /\ fd' = TRUE
          /\ watch' = (file # "absent")
          /\ onPath' = (file # "absent")
          /\ events' = {}
  /\ UNCHANGED <<running, job, slot, options, buf, told, disk, history>>

(* FAULT: what could be parsed of a broken file is used. *)
ReadAnything ==
  /\ Step("read", "idle")
  /\ lastRead' = file
  /\ clean' = (Exists(1) /\ backups[1].content = file)
  /\ options' = IF file # "absent" THEN file ELSE options
  /\ told' = (job = "reload" \/ (told /\ (job = "start" \/ file \notin Values \ {lastRead})))
  /\ UNCHANGED <<running, job, slot, buf, disk, notify, lost, edits, clicks, faults>>

(* The file is read.  After a reload, and only then, plugins are notified. *)
Read ==
  /\ Step("read", "idle")
  /\ lastRead' = file
  /\ clean' = (Exists(1) /\ backups[1].content = file)
  /\ options' = IF file \in Values THEN file ELSE options
  /\ told' = (job = "reload" \/ (told /\ (job = "start" \/ file \notin Values \ {lastRead})))
  /\ UNCHANGED <<running, job, slot, buf, disk, notify, lost, edits, clicks, faults>>

-----------------------------------------------------------------------------
(* Writing the file. *)

(* The stream is opened: the file is there, and empty. *)
Truncate ==
  /\ Step("truncate", "write")
  /\ file' = "empty"
  /\ UNCHANGED <<running, job, slot, options, buf, told, open, backups, clock,
                 notify, history>>

(* FAULT: the program drops the event of its own writing. *)
WriteUnnoticed ==
  /\ running /\ pc = "write"
  /\ \/ job = "save" /\ file' = options /\ pc' = "idle" /\ UNCHANGED job
     \/ job = "restore" /\ file' = buf /\ pc' = "shift" /\ job' = "load"
  /\ events' = {}
  /\ UNCHANGED <<running, slot, options, buf, told, open, backups, clock,
                 fd, watch, onPath, history>>

(* save() writes the options and is done; restoreBackup() writes its copy,  *)
(* and load() follows.                                                      *)
Write ==
  /\ running /\ pc = "write"
  /\ \/ job = "save" /\ file' = options /\ pc' = "idle" /\ UNCHANGED job
     \/ job = "restore" /\ file' = buf /\ pc' = "shift" /\ job' = "load"
  /\ Tell("write")
  /\ UNCHANGED <<running, slot, options, buf, told, open, backups, clock,
                 fd, watch, onPath, history>>

(* "Load default": the file is removed ... *)
Remove ==
  /\ Step("remove", "copyFiles")
  /\ file' = "absent"
  /\ open' = FALSE
  /\ IF file = "absent" THEN UNCHANGED notify ELSE Unlink
  /\ UNCHANGED <<running, job, slot, options, buf, told, backups, clock, history>>

(* ... and copied from the template, as at every start when there is none. *)
CopyFiles ==
  /\ Step("copyFiles", "shift")
  /\ job' = IF job = "default" THEN "load" ELSE job
  /\ file' = IF file = "absent" THEN Template ELSE file
  /\ UNCHANGED <<running, slot, options, buf, told, open, backups, clock,
                 notify, history>>

-----------------------------------------------------------------------------
(* The end of the process, and failures. *)

(* What a step that is cut short leaves behind. *)
CutShort ==
  \/ UNCHANGED <<file, backups, clock>>
  \/ pc = "copy" /\ file # "absent" /\ UNCHANGED file
       /\ \E c \in {"empty", "bad"} : Snapshot(c)
  \/ /\ \/ pc = "write"
        \/ pc = "copyFiles" /\ file = "absent"
     /\ file' \in {"empty", "bad"}
     /\ UNCHANGED <<backups, clock>>

(* The process ends, by itself when idle, killed at any step, or by the     *)
(* exception of a failed file operation, which ends the main loop.          *)
Die ==
  /\ running
  /\ faults < MaxFaults
  /\ running' = FALSE
  /\ pc' = "idle" /\ job' = "start" /\ slot' = Slots
  /\ faults' = faults + 1
  /\ fd' = FALSE /\ watch' = FALSE /\ onPath' = FALSE /\ events' = {}
  /\ CutShort
  /\ UNCHANGED <<options, buf, told, open, lastRead, clean, lost, edits, clicks>>

(* main() catches the exception of its first load(): it goes on with the    *)
(* options it has, and without a watch.                                     *)
FirstLoadFails ==
  /\ running
  /\ faults < MaxFaults
  /\ pc \in {"shift", "copy"} /\ job = "start"
  /\ pc' = "idle" /\ slot' = Slots
  /\ faults' = faults + 1
  /\ lost' = TRUE
  /\ CutShort
  /\ UNCHANGED <<running, job, options, buf, told, open, notify,
                 lastRead, clean, edits, clicks>>

(* restoreBackup() gives up without a word when it cannot open or write the *)
(* file, and copyFiles() when it cannot copy: load() follows all the same.  *)
FailsQuietly ==
  /\ running
  /\ faults < MaxFaults
  /\ pc' = "shift" /\ faults' = faults + 1
  /\ job' = IF job = "start" THEN job ELSE "load"
  /\ \/ pc = "truncate" /\ job = "restore" /\ UNCHANGED <<file, events>>
     \/ pc = "write" /\ job = "restore" /\ file' \in {"empty", "bad"} /\ Tell("write")
     \/ /\ pc = "copyFiles" /\ file = "absent"
        /\ file' \in {"absent", "empty", "bad"} /\ UNCHANGED events
  /\ lost' = (lost \/ file' = "absent")
  /\ UNCHANGED <<running, slot, options, buf, told, open, backups, clock,
                 fd, watch, onPath, lastRead, clean, edits, clicks>>

(* The Save button catches what permissions() and save() throw: the file is *)
(* as it was, or half-written.                                              *)
SaveFails ==
  /\ running
  /\ faults < MaxFaults
  /\ job = "save" /\ pc' = "idle" /\ faults' = faults + 1
  /\ \/ pc = "truncate" /\ UNCHANGED <<file, events>>
     \/ pc = "write" /\ file' \in {"empty", "bad"} /\ Tell("write")
  /\ UNCHANGED <<running, job, slot, options, buf, told, open, backups, clock,
                 fd, watch, onPath, lastRead, clean, lost, edits, clicks>>

-----------------------------------------------------------------------------
(* The user's editor. *)

Edits(op) ==
  /\ op \in EditorOps
  /\ edits < MaxEdits
  /\ edits' = edits + 1
  /\ UNCHANGED <<process, backups, clock, lastRead, clean, clicks, faults>>

(* The file is opened for writing, and closed when it is complete. *)
EditorOpens ==
  /\ Edits("write")
  /\ file # "absent" /\ ~open
  /\ file' = "empty" /\ open' = TRUE
  /\ UNCHANGED <<notify, lost>>

EditorWrites(c) ==
  /\ open
  /\ file' = c /\ open' = FALSE
  /\ Tell("write")
  /\ UNCHANGED <<process, fd, watch, onPath, backups, clock, history>>

(* Another file is renamed over it. *)
EditorReplaces(c) ==
  /\ Edits("replace")
  /\ file # "absent" /\ ~open
  /\ file' = c
  /\ Unlink
  /\ UNCHANGED <<open, lost>>

EditorDeletes ==
  /\ Edits("delete")
  /\ file # "absent" /\ ~open
  /\ file' = "absent"
  /\ lost' = TRUE
  /\ Unlink
  /\ UNCHANGED open

(* The watch follows the file to its new name: no event. *)
EditorMoves ==
  /\ Edits("move")
  /\ file # "absent" /\ ~open
  /\ file' = "absent"
  /\ lost' = TRUE
  /\ onPath' = FALSE
  /\ UNCHANGED <<fd, watch, events, open>>

EditorCreates(c) ==
  /\ file = "absent" /\ ~open
  /\ file' = c
  /\ UNCHANGED <<process, open, backups, clock, notify, history>>

-----------------------------------------------------------------------------
Advance ==
  \/ Shift \/ Copy \/ Watch \/ Read \/ Truncate \/ Write \/ Remove \/ CopyFiles

Program ==
  \/ Start \/ Reload \/ MenuEdit \/ Save \/ RestoreLatest \/ LoadDefault
  \/ Advance \/ Die \/ FirstLoadFails \/ FailsQuietly \/ SaveFails

Editor ==
  \/ EditorOpens \/ EditorDeletes \/ EditorMoves
  \/ \E c \in Values \cup {"bad"} :
       EditorWrites(c) \/ EditorReplaces(c) \/ EditorCreates(c)

Next == Program \/ Editor

(* The main loop goes round: what was begun is finished, and reload() is    *)
(* called again.  Nothing is assumed of the user, nor that a dead program   *)
(* is started again.                                                        *)
Fairness == WF_vars(Advance) /\ WF_vars(Reload)

Spec == Init /\ [][Next]_vars
FairSpec == Spec /\ Fairness

-----------------------------------------------------------------------------
(* Properties. *)

(* No change is missed while the watch is on the file: when the file is not *)
(* what was read last, a load is under way or an event is queued.  (load()  *)
(* adds the watch before it reads, and reload() empties the queue before it *)
(* loads.)                                                                  *)
ChangeIsPending ==
  running /\ fd /\ watch /\ onPath /\ ~open /\ file # lastRead
    => \/ "write" \in events
       \/ pc # "idle" /\ job # "save"
       \/ pc = "write"

(* What the program runs with survives any crash: the content it read last  *)
(* is in some backup, in the middle of a rotation, of a save and of both    *)
(* buttons, unless the file was changed between the backup and the read.    *)
LoadedIsKept ==
  running /\ clean
    => \E i \in 1..Slots : Exists(i) /\ backups[i].content = lastRead

(* The rotation, cut short anywhere and begun again over the gaps it left,  *)
(* never loses, doubles or reorders a backup: it gives up only the oldest.  *)
Log == INSTANCE BackupLog
         WITH kept <- {backups[i] : i \in {j \in 1..Slots : Exists(j)}}
ImplementsBackupLog == Log!Spec

(* "Theme and config changes reload live": what the file holds, if it stays *)
(* so, is read, as long as nobody has taken the file away.                  *)
EditsAreRead ==
  \A c \in Content :
    running /\ ~open /\ file = c
      ~> lastRead = c \/ file # c \/ open \/ lost \/ ~running

(* "Call pvPluginOnConfigReload after host config reloads": the buttons     *)
(* notify nobody, but the change they make is noticed, and then plugins are *)
(* told.                                                                    *)
PluginsAreTold == ~told ~> told \/ lost \/ ~running

=============================================================================
