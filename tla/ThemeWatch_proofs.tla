--------------------------- MODULE ThemeWatch_proofs ---------------------------
(***************************************************************************)
(* Proofs about ThemeWatch, for every finite set of themes and any number   *)
(* of changes from outside.                                                 *)
(***************************************************************************)
EXTENDS ThemeWatch, FiniteSetTheorems, FunctionTheorems, TLAPS

-----------------------------------------------------------------------------
(* The kernel. *)

(* A queue holds events of finitely many descriptors. *)
LEMMA QueuedFinite ==
  ASSUME queue \in Seq(Event)
  PROVE  IsFiniteSet({queue[k].wd : k \in DOMAIN queue})
  <1> DEFINE S == DOMAIN queue
             T == {queue[k].wd : k \in S}
             f == [k \in S |-> queue[k].wd]
  <1>1. IsFiniteSet(S)
    <2>1. S = 1 .. Len(queue) /\ Len(queue) \in Nat
      OBVIOUS
    <2> QED BY <2>1, FS_Interval
  <1>2. f \in Surjection(S, T)
    BY DEF Surjection
  <1> HIDE DEF f, S
  <1>3. IsFiniteSet(T)
    BY <1>1, <1>2, FS_Surjection
  <1> QED BY <1>3 DEF S

(* Some number is free, so the next descriptor is a new one. *)
LEMMA NextWdIsNew ==
  ASSUME queue \in Seq(Event), IsFiniteSet(DOMAIN wds)
  PROVE  NextWd \in Wds /\ NextWd \notin DOMAIN wds
  <1>1. IsFiniteSet(Used)
    <2>1. IsFiniteSet({queue[k].wd : k \in DOMAIN queue})
      BY QueuedFinite
    <2>2. IsFiniteSet(DOMAIN wds \cup {watch})
      BY FS_AddElement
    <2> QED BY <2>1, <2>2, FS_Union DEF Used
  <1> DEFINE n == Cardinality(Used)
  <1>2. n \in Nat
    BY <1>1, FS_CardinalityType
  <1> HIDE DEF n
  <1>3. \E w \in 1 .. n + 1 : w \notin Used
    <2> SUFFICES ASSUME 1 .. n + 1 \subseteq Used PROVE FALSE
      OBVIOUS
    <2>1. Cardinality(1 .. n + 1) <= n
      BY <1>1, FS_Subset DEF n
    <2>2. Cardinality(1 .. n + 1) = n + 1
      <3>1. 1 \in Int /\ n + 1 \in Int /\ ~(1 > n + 1) /\ (n + 1) - 1 + 1 = n + 1
        BY <1>2
      <3> QED BY <3>1, FS_Interval
    <2> QED BY <1>2, <2>1, <2>2
  <1>4. NextWd \in 1 .. n + 1 /\ NextWd \notin Used
    BY <1>3 DEF NextWd, n
  <1> QED BY <1>2, <1>4 DEF Wds, Used

(* A report never empties the queue. *)
LEMMA ReportedType ==
  ASSUME NEW q \in Seq(Event), NEW e \in Event
  PROVE  Reported(q, e) \in Seq(Event) /\ Reported(q, e) # << >>
  <1>1. Append(q, e) \in Seq(Event) /\ Len(Append(q, e)) = Len(q) + 1
    OBVIOUS
  <1>2. Append(q, e) # << >>
    <2>1. Len(q) \in Nat /\ Len(<< >>) = 0
      OBVIOUS
    <2> QED BY <1>1, <2>1
  <1> QED BY <1>1, <1>2 DEF Reported

LEMMA AllIgnoredType ==
  ASSUME NEW q \in Seq(Event), NEW ws \in SUBSET Wds
  PROVE  /\ AllIgnored(q, ws) \in Seq(Event)
         /\ AllIgnored(q, ws) = << >> => q = << >> /\ ws = {}
  <1>1. CASE ws = {}
    BY <1>1 DEF AllIgnored
  <1>2. CASE ws # {}
    <2> DEFINE w == CHOOSE x \in ws : TRUE
    <2>1. w \in Wds
      BY <1>2
    <2> HIDE DEF w
    <2>2. Ignored(w) \in Event
      BY <2>1 DEF Ignored, Event
    <2>3. AllIgnored(q, ws) = Reported(q, Ignored(w))
      BY <1>2 DEF AllIgnored, w
    <2> QED BY <2>2, <2>3, <1>2, ReportedType
  <1> QED BY <1>1, <1>2

(* A finite set of watches, each of an inode. *)
WatchTable(ws) ==
  /\ DOMAIN ws \subseteq Wds /\ IsFiniteSet(DOMAIN ws)
  /\ \A w \in DOMAIN ws : ws[w] \in Inodes

LEMMA WithoutType ==
  ASSUME NEW ws, WatchTable(ws), NEW gone
  PROVE  /\ WatchTable(Without(ws, gone))
         /\ DOMAIN Without(ws, gone) = DOMAIN ws \ gone
         /\ \A w \in DOMAIN ws \ gone : Without(ws, gone)[w] = ws[w]
  <1>1. /\ DOMAIN Without(ws, gone) = DOMAIN ws \ gone
        /\ \A w \in DOMAIN ws \ gone : Without(ws, gone)[w] = ws[w]
    BY DEF Without
  <1>2. IsFiniteSet(DOMAIN ws \ gone)
    BY FS_Subset DEF WatchTable
  <1> QED BY <1>1, <1>2 DEF WatchTable

-----------------------------------------------------------------------------
(* Type correctness. *)

LEMMA InodesFacts ==
  ASSUME ThemeWatchAssumption
  PROVE  /\ Cardinality(Themes) \in Nat
         /\ Inodes \subseteq Nat
         /\ changes \in 0 .. MaxChanges /\ changes < MaxChanges => Fresh \in Inodes
  <1>1. Cardinality(Themes) \in Nat /\ MaxChanges \in Nat
    BY FS_CardinalityType DEF ThemeWatchAssumption
  <1> QED BY <1>1 DEF Inodes, Fresh

(* The numbering of the themes exists because they are finitely many. *)
LEMMA NumberType ==
  ASSUME ThemeWatchAssumption
  PROVE  Number \in [Themes -> 1 .. Cardinality(Themes)]
  <1>1. IsFiniteSet(Themes)
    BY DEF ThemeWatchAssumption
  <1>2. ExistsBijection(1 .. Cardinality(Themes), Themes)
    BY <1>1, FS_CardinalityType
  <1>3. ExistsBijection(Themes, 1 .. Cardinality(Themes))
    BY <1>2, Fun_ExistsBijSymmetric
  <1>4. PICK n \in Bijection(Themes, 1 .. Cardinality(Themes)) : TRUE
    BY <1>3 DEF ExistsBijection
  <1>5. /\ n \in [Themes -> 1 .. Cardinality(Themes)]
        /\ \A a, b \in Themes : a # b => n[a] # n[b]
    BY <1>4 DEF Bijection, Injection, IsInjective
  <1> QED BY <1>5 DEF Number

LEMMA InitType ==
  ASSUME ThemeWatchAssumption, Init
  PROVE  TypeOK
  <1>1. PICK present \in SUBSET Themes, t \in Themes :
          /\ file = [a \in Themes |-> IF a \in present THEN Number[a] ELSE 0]
          /\ option = t /\ onDisk = [theme |-> t, unread |-> FALSE]
    BY DEF Init
  <1>2. Cardinality(Themes) \in Nat /\ MaxChanges \in Nat
    BY InodesFacts DEF ThemeWatchAssumption
  <1>3. \A a \in Themes : Number[a] \in Inodes
    <2>1. 1 .. Cardinality(Themes) \subseteq Inodes
      BY <1>2 DEF Inodes
    <2> QED BY <2>1, NumberType
  <1>4. file \in [Themes -> Inodes \cup {0}]
    BY <1>1, <1>3
  <1>5. changes \in 0 .. MaxChanges
    BY <1>2 DEF Init
  <1>6. /\ DOMAIN wds \subseteq Wds /\ IsFiniteSet(DOMAIN wds)
        /\ \A w \in DOMAIN wds : wds[w] \in Inodes
    <2>1. DOMAIN wds = {}
      BY DEF Init
    <2> QED BY <2>1, FS_EmptySet
  <1>7. queue \in Seq(Event)
    BY DEF Init
  <1> QED BY <1>1, <1>4, <1>5, <1>6, <1>7 DEF Init, TypeOK, Points, Wds

LEMMA OpenThemeType ==
  ASSUME TypeOK, OpenTheme
  PROVE  TypeOK'
  BY DEF TypeOK, OpenTheme, disk, kernel, config, Points, Loading

(* What FinishLoad makes of the watches and of the queue. *)
Removed == IF MovesWatch THEN {watch} \cap DOMAIN wds ELSE {}
Kept    == Without(wds, Removed)
There   == file[option]
Same    == WatchesOf(Kept, There)
Added   == CASE ~MovesWatch -> watch
             [] MovesWatch /\ There = 0 -> -1
             [] MovesWatch /\ There # 0 /\ Same # {} -> CHOOSE w \in Same : TRUE
             [] MovesWatch /\ There # 0 /\ Same = {} -> NextWd
Watched == IF ~MovesWatch \/ Added = -1 THEN Kept
           ELSE [w \in DOMAIN Kept \cup {Added} |-> IF w = Added THEN There ELSE Kept[w]]
Freed   == IF opened \in away \cup {file[t] : t \in Themes} THEN {}
           ELSE WatchesOf(Watched, opened)

LEMMA FinishLoadSteps ==
  ASSUME FinishLoad
  PROVE  /\ watch' = Added
         /\ wds' = Without(Watched, Freed)
         /\ queue' = AllIgnored(AllIgnored(queue, Removed), Freed)
  BY Zenon DEF FinishLoad, Removed, Kept, There, Same, Added, Watched, Freed

LEMMA KeptType ==
  ASSUME TypeOK
  PROVE  WatchTable(Kept) /\ Removed \in SUBSET Wds
  <1>1. WatchTable(wds)
    BY DEF TypeOK, WatchTable
  <1>2. WatchTable(Kept)
    BY <1>1, WithoutType, Zenon DEF Kept
  <1>3. Removed \in SUBSET Wds
    BY <1>1 DEF Removed, WatchTable
  <1> QED BY <1>2, <1>3

LEMMA AddedType ==
  ASSUME TypeOK
  PROVE  /\ Added \in Wds \cup {-1}
         /\ MovesWatch /\ There # 0 => Added \in Wds
  <1>1. CASE ~MovesWatch
    BY <1>1 DEF Added, TypeOK
  <1>2. CASE MovesWatch /\ There = 0
    BY <1>2 DEF Added
  <1>3. CASE MovesWatch /\ There # 0 /\ Same # {}
    <2>1. Same \subseteq Wds
      BY KeptType DEF Same, WatchesOf, WatchTable
    <2>2. Added = CHOOSE w \in Same : TRUE
      BY <1>3 DEF Added
    <2> QED BY <1>3, <2>1, <2>2
  <1>4. CASE MovesWatch /\ There # 0 /\ Same = {}
    <2>1. Added = NextWd
      BY <1>4 DEF Added
    <2>2. NextWd \in Wds
      BY NextWdIsNew DEF TypeOK
    <2> QED BY <2>1, <2>2
  <1> QED BY <1>1, <1>2, <1>3, <1>4, Zenon

LEMMA WatchedType ==
  ASSUME TypeOK
  PROVE  WatchTable(Watched)
  <1>1. CASE ~MovesWatch \/ Added = -1
    BY <1>1, KeptType DEF Watched
  <1>2. CASE MovesWatch /\ Added # -1
    <2>1. Added \in Wds
      BY <1>2, AddedType
    <2>2. DOMAIN Watched = DOMAIN Kept \cup {Added}
      BY <1>2 DEF Watched
    <2>3. \A w \in DOMAIN Watched : Watched[w] = IF w = Added THEN There ELSE Kept[w]
      BY <1>2 DEF Watched
    <2>4. There \in Inodes
      <3>1. There # 0
        BY <1>2, Zenon DEF Added
      <3>2. There \in Inodes \cup {0}
        BY DEF TypeOK, There
      <3> QED BY <3>1, <3>2
    <2>5. IsFiniteSet(DOMAIN Watched)
      BY <2>2, KeptType, FS_AddElement DEF WatchTable
    <2> QED BY <2>1, <2>2, <2>3, <2>4, <2>5, KeptType DEF WatchTable
  <1> QED BY <1>1, <1>2

LEMMA FinishLoadType ==
  ASSUME TypeOK, FinishLoad
  PROVE  TypeOK'
  <1>1. Freed \in SUBSET Wds
    BY WatchedType DEF Freed, WatchesOf, WatchTable
  <1>2. watch' \in Wds \cup {-1}
    BY FinishLoadSteps, AddedType
  <1>3. /\ DOMAIN wds' \subseteq Wds /\ IsFiniteSet(DOMAIN wds')
        /\ \A w \in DOMAIN wds' : wds'[w] \in Inodes
    <2>1. wds' = Without(Watched, Freed)
      BY FinishLoadSteps
    <2>2. WatchTable(Without(Watched, Freed))
      BY WatchedType, WithoutType, Zenon
    <2> QED BY <2>1, <2>2 DEF WatchTable
  <1>4. queue' \in Seq(Event)
    <2>1. AllIgnored(queue, Removed) \in Seq(Event)
      BY KeptType, AllIgnoredType DEF TypeOK
    <2> QED BY <1>1, <2>1, FinishLoadSteps, AllIgnoredType
  <1>5. opened' = 0 /\ at' \in Points
    BY DEF FinishLoad, AfterLoad, Loading, Points
  <1>6. UNCHANGED << file, away, content, broken, option, onDisk, changes >>
    BY DEF FinishLoad, disk, config
  <1> QED BY <1>2, <1>3, <1>4, <1>5, <1>6 DEF TypeOK, Inodes

LEMMA TurnType ==
  ASSUME TypeOK, ReloadConfig \/ NextTurn \/ Quit \/ Cleanup
  PROVE  TypeOK'
  <1>1. CASE ReloadConfig
    <2>1. option' \in Themes /\ onDisk' \in [theme : Themes, unread : BOOLEAN]
      BY <1>1 DEF TypeOK, ReloadConfig, config
    <2>2. at' \in Points /\ opened' = 0
      BY <1>1 DEF TypeOK, ReloadConfig, Points, Loading
    <2> QED BY <1>1, <2>1, <2>2 DEF TypeOK, ReloadConfig, disk, kernel, Inodes
  <1>2. CASE NextTurn \/ Quit
    BY <1>2 DEF TypeOK, NextTurn, Quit, disk, kernel, config, Points, Loading, Inodes
  <1>3. CASE Cleanup
    <2>1. DOMAIN wds' = {} /\ queue' = << >> /\ watch' = -1
      BY <1>3 DEF Cleanup
    <2>2. IsFiniteSet(DOMAIN wds')
      BY <2>1, FS_EmptySet
    <2>3. queue' \in Seq(Event)
      BY <2>1
    <2> QED BY <1>3, <2>1, <2>2, <2>3
            DEF TypeOK, Cleanup, disk, config, Points, Loading, Inodes
  <1> QED BY <1>1, <1>2, <1>3

LEMMA ReloadThemeType ==
  ASSUME TypeOK, ReloadTheme
  PROVE  TypeOK'
  <1>1. queue' \in Seq(Event)
    <2>1. queue' = << >> \/ queue' = queue
      BY DEF ReloadTheme
    <2>2. << >> \in Seq(Event) /\ queue \in Seq(Event)
      BY DEF TypeOK
    <2> QED BY <2>1, <2>2
  <1>2. watch' \in Wds \cup {-1}
    BY DEF TypeOK, ReloadTheme, WatchAfter
  <1>3. at' \in Points /\ opened' = 0
    BY DEF TypeOK, ReloadTheme, Points, Loading
  <1> QED BY <1>1, <1>2, <1>3 DEF TypeOK, ReloadTheme, disk, config, Inodes

(* A change is counted, and the number of an inode it creates is in range. *)
LEMMA ChangeType ==
  ASSUME ThemeWatchAssumption, TypeOK, Change
  PROVE  changes' \in 0 .. MaxChanges /\ Fresh \in Inodes
  BY InodesFacts DEF ThemeWatchAssumption, TypeOK, Change

LEMMA EditType ==
  ASSUME ThemeWatchAssumption, TypeOK, NEW t \in Themes, Edit(t)
  PROVE  TypeOK'
  <1> DEFINE ws == WatchesOf(wds, file[t])
  <1>1. broken' \subseteq Inodes
    BY DEF TypeOK, Edit
  <1>2. queue' \in Seq(Event)
    <2>1. CASE ws = {}
      BY <2>1 DEF TypeOK, Edit
    <2>2. CASE ws # {}
      <3> DEFINE w == CHOOSE x \in ws : TRUE
      <3>1. w \in Wds
        BY <2>2 DEF TypeOK, WatchesOf
      <3> HIDE DEF w
      <3>2. Written(w) \in Event
        BY <3>1 DEF Written, Event
      <3>3. queue' = Reported(queue, Written(w))
        BY <2>2 DEF Edit, w
      <3> QED BY <3>2, <3>3, ReportedType DEF TypeOK
    <2> QED BY <2>1, <2>2
  <1>3. changes' \in 0 .. MaxChanges
    BY ChangeType DEF Edit
  <1> QED BY <1>1, <1>2, <1>3 DEF TypeOK, Edit, config, program, Inodes, Loading

LEMMA RelinkType ==
  ASSUME ThemeWatchAssumption, TypeOK, NEW t \in Themes, NEW i \in Inodes \cup {0},
         Relink(t, i)
  PROVE  TypeOK'
  <1> DEFINE gone == IF file[t] \in {0, opened} THEN {} ELSE WatchesOf(wds, file[t])
  <1>1. wds' = Without(wds, gone) /\ queue' = AllIgnored(queue, gone)
    BY DEF Relink
  <1>2. gone \in SUBSET Wds
    BY DEF TypeOK, WatchesOf
  <1> HIDE DEF gone
  <1>3. WatchTable(Without(wds, gone))
    BY WithoutType DEF TypeOK, WatchTable
  <1>4. queue' \in Seq(Event)
    BY <1>1, <1>2, AllIgnoredType DEF TypeOK
  <1>5. file' \in [Themes -> Inodes \cup {0}]
    BY DEF TypeOK, Relink
  <1>6. changes' \in 0 .. MaxChanges
    BY ChangeType DEF Relink
  <1> QED BY <1>1, <1>3, <1>4, <1>5, <1>6
          DEF TypeOK, WatchTable, Relink, config, program, Inodes, Loading

LEMMA OutsideType ==
  ASSUME ThemeWatchAssumption, TypeOK, Outside
  PROVE  TypeOK'
  <1> PICK t \in Themes : \/ PickTheme(t) \/ SaveConfig(t)
                          \/ Edit(t) \/ Replace(t) \/ Delete(t) \/ MoveAway(t)
    BY DEF Outside
  <1>1. CASE PickTheme(t)
    <2>1. changes' \in 0 .. MaxChanges
      BY <1>1, ChangeType DEF PickTheme
    <2> QED BY <1>1, <2>1 DEF TypeOK, PickTheme, disk, kernel, program, Inodes, Loading
  <1>2. CASE SaveConfig(t)
    <2>1. changes' \in 0 .. MaxChanges
      BY <1>2, ChangeType DEF SaveConfig
    <2> QED BY <1>2, <2>1 DEF TypeOK, SaveConfig, disk, kernel, program, Inodes, Loading
  <1>3. CASE Edit(t)
    BY <1>3, EditType
  <1>4. CASE Replace(t)
    <2>1. Fresh \in Inodes
      BY <1>4, ChangeType DEF Replace, Relink
    <2> QED BY <1>4, <2>1, RelinkType DEF Replace
  <1>5. CASE Delete(t)
    BY <1>5, RelinkType DEF Delete
  <1>6. CASE MoveAway(t)
    <2>1. changes' \in 0 .. MaxChanges
      BY <1>6, ChangeType DEF MoveAway
    <2>2. file' \in [Themes -> Inodes \cup {0}] /\ away' \subseteq Inodes
      BY <1>6 DEF TypeOK, MoveAway
    <2> QED BY <1>6, <2>1, <2>2 DEF TypeOK, MoveAway, kernel, config, program, Inodes, Loading
  <1> QED BY <1>1, <1>2, <1>3, <1>4, <1>5, <1>6

(* The variables hold values of their kinds: descriptors are positive, the   *)
(* queue holds events, and a file is open only while load() runs.            *)
THEOREM TypeCorrect == Spec => []TypeOK
  <1>1. Init => TypeOK
    BY InitType, ThemeWatchAssumption
  <1>2. TypeOK /\ [Next]_vars => TypeOK'
    <2> SUFFICES ASSUME TypeOK, [Next]_vars PROVE TypeOK'
      OBVIOUS
    <2>1. CASE MainLoop
      BY <2>1, OpenThemeType, FinishLoadType, TurnType, ReloadThemeType DEF MainLoop
    <2>2. CASE Quit \/ Cleanup
      BY <2>2, TurnType
    <2>3. CASE Outside
      BY <2>3, OutsideType, ThemeWatchAssumption
    <2>4. CASE UNCHANGED vars
      BY <2>4 DEF TypeOK, vars, disk, kernel, config, program, Inodes, Loading
    <2> QED BY <2>1, <2>2, <2>3, <2>4 DEF Next
  <1> QED BY <1>1, <1>2, PTL DEF Spec

-----------------------------------------------------------------------------
(* No edit is missed. *)

Resting == at \in {"config", "theme", "events"}

(* The path is the bare name of a theme, or nothing before the first load. *)
PathIsName == current = << >> \/ \E t \in Themes : current = Name(t)

(* While load() holds a file open, it is the one the option names. *)
OpenIsNamed == opened # 0 /\ ~blind => file[option] = opened

(* Between loads: the watch lies on the file the path names, and the colors  *)
(* are the file's, as long as no event says otherwise.                       *)
WatchIsOnFile ==
  Resting /\ ~blind =>
    /\ watch # -1 /\ current[1] \in Themes
    /\ queue = << >> => /\ file[current[1]] # 0 /\ shown = Latest
                       /\ watch \in DOMAIN wds /\ wds[watch] = file[current[1]]

IInv == PathIsName /\ OpenIsNamed /\ WatchIsOnFile

LEMMA OpenThemeSeen ==
  ASSUME TypeOK, IInv, OpenTheme
  PROVE  IInv'
  <1>1. PathIsName'
    BY DEF IInv, PathIsName, OpenTheme
  <1>2. OpenIsNamed'
    BY DEF IInv, OpenIsNamed, OpenTheme, disk, config
  <1>3. ~Resting'
    BY DEF OpenTheme, Resting, Loading
  <1> QED BY <1>1, <1>2, <1>3 DEF IInv, WatchIsOnFile

(* load() always moves the watch, for it compares the path it built with the *)
(* bare name it stored.                                                      *)
LEMMA AlwaysMoves ==
  ASSUME PathIsName
  PROVE  MovesWatch
  <1>1. \A t \in Themes : Path(option) # Name(t)
    <2>1. \A t : Len(Path(option)) = 2 /\ Len(Name(t)) = 1
      BY DEF Path, Name
    <2> QED BY <2>1
  <1>2. Path(option) # << >>
    BY DEF Path
  <1> QED BY <1>1, <1>2 DEF PathIsName, MovesWatch

LEMMA FinishLoadSeen ==
  ASSUME TypeOK, IInv, FinishLoad
  PROVE  IInv'
  <1>1. current' = Name(option) /\ option \in Themes /\ current'[1] = option
    BY DEF FinishLoad, TypeOK, Name
  <1>2. PathIsName'
    BY <1>1 DEF PathIsName
  <1>3. OpenIsNamed'
    BY DEF FinishLoad, OpenIsNamed
  <1>4. WatchIsOnFile'
    <2> SUFFICES ASSUME ~blind
                 PROVE  /\ watch' # -1 /\ current'[1] \in Themes
                        /\ file'[current'[1]] # 0 /\ shown' = Latest'
                        /\ watch' \in DOMAIN wds' /\ wds'[watch'] = file'[current'[1]]
      BY DEF WatchIsOnFile, FinishLoad
    <2>1. There = opened /\ opened # 0 /\ file' = file /\ content' = content
      BY DEF IInv, OpenIsNamed, FinishLoad, There, disk
    <2>2. MovesWatch
      BY AlwaysMoves DEF IInv
    <2>3. Added \in Wds /\ Added # -1
      BY <2>1, <2>2, AddedType DEF Wds
    <2>4. Added \in DOMAIN Watched /\ Watched[Added] = There
      BY <2>2, <2>3 DEF Watched
    <2>5. Freed = {}
      BY <2>1, <1>1 DEF Freed, There
    <2>6. wds' = Without(Watched, Freed) /\ watch' = Added
      BY FinishLoadSteps
    <2>7. Added \in DOMAIN wds' /\ wds'[Added] = There
      BY <2>4, <2>5, <2>6 DEF Without
    <2>8. shown' = Latest'
      BY <1>1, <2>1 DEF FinishLoad, Latest, ColorsOf, There
    <2> QED BY <1>1, <2>1, <2>3, <2>6, <2>7, <2>8 DEF There
  <1> QED BY <1>2, <1>3, <1>4 DEF IInv

LEMMA TurnSeen ==
  ASSUME TypeOK, IInv, ReloadConfig \/ ReloadTheme \/ NextTurn \/ Quit \/ Cleanup
  PROVE  IInv'
  <1>1. UNCHANGED << disk, current, shown, opened, blind >>
    BY DEF ReloadConfig, ReloadTheme, NextTurn, Quit, Cleanup
  <1>2. PathIsName'
    BY <1>1 DEF IInv, PathIsName
  <1>3. OpenIsNamed'
    <2>1. option' = option \/ opened = 0
      BY DEF TypeOK, ReloadConfig, ReloadTheme, NextTurn, Quit, Cleanup, config, Loading
    <2> QED BY <1>1, <2>1 DEF IInv, OpenIsNamed, disk
  <1>4. WatchIsOnFile'
    <2>1. CASE ~Resting'
      BY <2>1 DEF WatchIsOnFile
    <2>2. CASE Resting'
      <3>1. Resting /\ UNCHANGED << wds, queue, watch >>
        BY <2>2 DEF Resting, ReloadConfig, ReloadTheme, NextTurn, Quit, Cleanup, kernel
      <3> QED BY <1>1, <3>1 DEF IInv, WatchIsOnFile, Latest, ColorsOf, disk
    <2> QED BY <2>1, <2>2
  <1> QED BY <1>2, <1>3, <1>4 DEF IInv

LEMMA EditSeen ==
  ASSUME TypeOK, IInv, NEW t \in Themes, Edit(t)
  PROVE  IInv'
  <1>1. UNCHANGED << file, wds, option, watch, current, at, opened, shown, blind >>
    BY DEF Edit, config, program
  <1>2. PathIsName' /\ OpenIsNamed'
    BY <1>1 DEF IInv, PathIsName, OpenIsNamed
  <1>3. WatchIsOnFile'
    <2> DEFINE ws == WatchesOf(wds, file[t])
    <2>1. ws # {} => queue' # << >>
      <3> SUFFICES ASSUME ws # {} PROVE queue' # << >>
        OBVIOUS
      <3> DEFINE w == CHOOSE x \in ws : TRUE
      <3>1. w \in Wds
        BY DEF TypeOK, WatchesOf
      <3> HIDE DEF w
      <3>2. Written(w) \in Event
        BY <3>1 DEF Written, Event
      <3>3. queue' = Reported(queue, Written(w))
        BY DEF Edit, w
      <3> QED BY <3>2, <3>3, ReportedType DEF TypeOK
    <2>2. ws = {} => queue' = queue
      BY DEF Edit
    <2> SUFFICES ASSUME Resting, ~blind
                 PROVE  /\ watch # -1 /\ current[1] \in Themes
                        /\ queue' = << >> => /\ file[current[1]] # 0 /\ shown = Latest'
                                            /\ watch \in DOMAIN wds
                                            /\ wds[watch] = file[current[1]]
      BY <1>1 DEF WatchIsOnFile, Resting
    <2>3. watch # -1 /\ current[1] \in Themes
      BY DEF IInv, WatchIsOnFile
    <2>4. ASSUME queue' = << >>
          PROVE  /\ file[current[1]] # 0 /\ shown = Latest'
                 /\ watch \in DOMAIN wds /\ wds[watch] = file[current[1]]
      <3>1. queue = << >> /\ ws = {}
        BY <2>1, <2>2, <2>4
      <3>2. /\ file[current[1]] # 0 /\ shown = Latest
            /\ watch \in DOMAIN wds /\ wds[watch] = file[current[1]]
        BY <3>1 DEF IInv, WatchIsOnFile
      <3>3. file[current[1]] # file[t]
        BY <3>1, <3>2 DEF WatchesOf
      <3>4. content'[file[current[1]]] = content[file[current[1]]]
        <4>1. content' = [content EXCEPT ![file[t]] = changes + 1]
          BY DEF Edit
        <4> QED BY <3>3, <4>1
      <3>5. Latest' = Latest
        BY <1>1, <3>4 DEF Latest, ColorsOf
      <3> QED BY <3>2, <3>5
    <2> QED BY <2>3, <2>4
  <1> QED BY <1>2, <1>3 DEF IInv

LEMMA RelinkSeen ==
  ASSUME TypeOK, IInv, NEW t \in Themes, NEW i, Relink(t, i)
  PROVE  IInv'
  <1> DEFINE gone == IF file[t] \in {0, opened} THEN {} ELSE WatchesOf(wds, file[t])
  <1>1. wds' = Without(wds, gone) /\ queue' = AllIgnored(queue, gone)
    BY DEF Relink
  <1>2. UNCHANGED << content, option, watch, current, at, opened, shown >>
    BY DEF Relink, config, program
  <1>3. file' = [file EXCEPT ![t] = i] /\ file \in [Themes -> Inodes \cup {0}]
    BY DEF Relink, TypeOK
  <1>4. ~blind' => ~blind /\ (opened # 0 => file[t] # opened)
    BY DEF Relink
  <1>5. PathIsName'
    BY <1>2 DEF IInv, PathIsName
  <1>6. OpenIsNamed'
    BY <1>2, <1>3, <1>4 DEF IInv, OpenIsNamed, TypeOK
  <1>7. WatchIsOnFile'
    <2> SUFFICES ASSUME Resting, ~blind'
                 PROVE  /\ watch # -1 /\ current[1] \in Themes
                        /\ queue' = << >> => /\ file'[current[1]] # 0 /\ shown = Latest'
                                            /\ watch \in DOMAIN wds'
                                            /\ wds'[watch] = file'[current[1]]
      BY <1>2 DEF WatchIsOnFile, Resting
    <2>1. watch # -1 /\ current[1] \in Themes
      BY <1>4 DEF IInv, WatchIsOnFile
    <2>2. ASSUME queue' = << >>
          PROVE  /\ file'[current[1]] # 0 /\ shown = Latest'
                 /\ watch \in DOMAIN wds' /\ wds'[watch] = file'[current[1]]
      <3>1. queue = << >> /\ gone = {}
        <4>1. gone \in SUBSET Wds
          BY DEF TypeOK, WatchesOf
        <4> HIDE DEF gone
        <4> QED BY <1>1, <2>2, <4>1, AllIgnoredType DEF TypeOK
      <3>2. /\ file[current[1]] # 0 /\ shown = Latest
            /\ watch \in DOMAIN wds /\ wds[watch] = file[current[1]]
        BY <1>4, <3>1 DEF IInv, WatchIsOnFile
      <3>3. opened = 0
        BY DEF TypeOK, Resting, Loading
      <3>4. file[current[1]] # file[t]
        BY <3>1, <3>2, <3>3 DEF WatchesOf
      <3>5. file'[current[1]] = file[current[1]]
        BY <1>3, <2>1, <3>4
      <3>6. Latest' = Latest
        BY <1>2, <3>5 DEF Latest, ColorsOf
      <3>7. watch \in DOMAIN wds' /\ wds'[watch] = wds[watch]
        BY <1>1, <3>1, <3>2 DEF Without
      <3> QED BY <3>2, <3>5, <3>6, <3>7
    <2> QED BY <2>1, <2>2
  <1> QED BY <1>5, <1>6, <1>7 DEF IInv

LEMMA OtherChangeSeen ==
  ASSUME TypeOK, IInv, NEW t \in Themes, PickTheme(t) \/ SaveConfig(t) \/ MoveAway(t)
  PROVE  IInv'
  <1>1. UNCHANGED << content, wds, queue, watch, current, at, opened, shown >>
    BY DEF PickTheme, SaveConfig, MoveAway, disk, kernel, program
  <1>2. ~blind' => ~blind
    BY DEF PickTheme, SaveConfig, MoveAway
  <1>3. PathIsName'
    BY <1>1 DEF IInv, PathIsName
  <1>4. ASSUME ~blind', opened # 0 \/ (queue = << >> /\ Resting)
        PROVE  /\ opened # 0 => file'[option'] = opened
               /\ queue = << >> /\ Resting => file'[current[1]] = file[current[1]]
    <2>1. CASE PickTheme(t) \/ SaveConfig(t)
      <3>1. file' = file /\ (opened # 0 => option' = option)
        BY <2>1 DEF PickTheme, SaveConfig, disk, TypeOK, Loading
      <3> QED BY <1>2, <1>4, <3>1 DEF IInv, OpenIsNamed
    <2>2. CASE MoveAway(t)
      <3>1. /\ option' = option /\ file' = [file EXCEPT ![t] = 0]
            /\ file[t] # opened /\ WatchesOf(wds, file[t]) = {}
            /\ file \in [Themes -> Inodes \cup {0}]
        BY <1>4, <2>2 DEF MoveAway, config, TypeOK
      <3>2. opened # 0 => file'[option'] = opened
        BY <1>2, <1>4, <3>1 DEF IInv, OpenIsNamed, TypeOK
      <3>3. ASSUME queue = << >>, Resting
            PROVE  file'[current[1]] = file[current[1]]
        <4>1. watch \in DOMAIN wds /\ wds[watch] = file[current[1]] /\ current[1] \in Themes
          BY <1>2, <1>4, <3>3 DEF IInv, WatchIsOnFile
        <4> QED BY <3>1, <4>1 DEF WatchesOf
      <3> QED BY <3>2, <3>3
    <2> QED BY <2>1, <2>2
  <1>5. OpenIsNamed'
    BY <1>1, <1>4 DEF OpenIsNamed
  <1>6. WatchIsOnFile'
    BY <1>1, <1>2, <1>4 DEF IInv, WatchIsOnFile, Resting, Latest, ColorsOf
  <1> QED BY <1>3, <1>5, <1>6 DEF IInv

(* Between loads the program watches, and either an event waits to be read   *)
(* or the colors are those of the theme file as it is now, unless the file   *)
(* was renamed, or replaced while load() had it open.                        *)
THEOREM EditIsSeenHolds == Spec => []EditIsSeen
  <1>1. Init => IInv
    BY DEF Init, IInv, PathIsName, OpenIsNamed, WatchIsOnFile, Resting
  <1>2. TypeOK /\ IInv /\ [Next]_vars => IInv'
    <2> SUFFICES ASSUME TypeOK, IInv, [Next]_vars PROVE IInv'
      OBVIOUS
    <2>1. CASE MainLoop
      BY <2>1, OpenThemeSeen, FinishLoadSeen, TurnSeen DEF MainLoop
    <2>2. CASE Quit \/ Cleanup
      BY <2>2, TurnSeen
    <2>3. CASE Outside
      BY <2>3, EditSeen, RelinkSeen, OtherChangeSeen DEF Outside, Replace, Delete
    <2>4. CASE UNCHANGED vars
      BY <2>4 DEF IInv, PathIsName, OpenIsNamed, WatchIsOnFile, Resting, Latest, ColorsOf,
                  vars, disk, kernel, config, program
    <2> QED BY <2>1, <2>2, <2>3, <2>4 DEF Next
  <1>3. IInv => EditIsSeen
    BY DEF IInv, WatchIsOnFile, EditIsSeen, Resting
  <1> QED BY <1>1, <1>2, <1>3, TypeCorrect, PTL DEF Spec

=============================================================================
