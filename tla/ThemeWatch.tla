----------------------------- MODULE ThemeWatch -----------------------------
(***************************************************************************)
(* The live reload of the theme (theme.cpp): Theme::load opens the theme   *)
(* file named by the options, moves an inotify watch onto it and reads the *)
(* colors; Theme::reload, once per turn of the main loop, reads what the   *)
(* watch reported and loads again.  Linux only.                            *)
(*                                                                         *)
(* A file is an inode with a content; the inode is what the kernel         *)
(* watches, the name is what the program opens.  Removing a watch and      *)
(* freeing a watched inode both report IN_IGNORED.  The colors are         *)
(* abstracted to the content they were read from.                          *)
(*                                                                         *)
(* Every counter stays small because each change made from outside the     *)
(* main loop (on the disk, in the menu) is counted in changes, which       *)
(* MaxChanges bounds; the queue then stays below the 16 events that one    *)
(* read takes.                                                             *)
(***************************************************************************)
EXTENDS Integers, Sequences, FiniteSets, SequencesExt

CONSTANTS Themes,        \* the names the option window.theme can hold
          MaxChanges     \* bound on the changes made from outside

ASSUME ThemeWatchAssumption == IsFiniteSet(Themes) /\ MaxChanges \in Nat

VARIABLES file,      \* theme name -> inode, 0 when no such file exists
          away,      \* inodes that were renamed to another name
          content,   \* inode -> number of the last edit of its content
          broken,    \* inodes with a one-component value for an RGBA key
          wds,       \* the kernel's live watches: descriptor -> inode
          queue,     \* the events reported and not read yet
          option,    \* Config::options.window.theme
          onDisk,    \* the theme config.yml names, and whether it is unread
          watch,     \* themeInotifyWatch
          current,   \* currentThemePath, as a path
          at,        \* where the main loop is
          opened,    \* the inode load() holds open, 0 when none
          shown,     \* the content the colors come from
          blind,     \* history: the watched inode is known not to be the file
          changes    \* changes made from outside so far

disk == << file, away, content, broken >>
kernel == << wds, queue >>
config == << option, onDisk >>
program == << watch, current, at, opened, shown >>
vars == << disk, kernel, config, program, blind, changes >>

Inodes == 1 .. Cardinality(Themes) + MaxChanges
Points == {"startup", "config", "reconf", "theme", "reload", "events",
           "quit",      \* the loop ended as it should
           "died",      \* an exception ended the loop
           "crashed"}   \* the process ended without its cleanup

\* Theme::load is called from three places, and returns to three others.
Loading == at \in {"startup", "reconf", "reload"}
AfterLoad == CASE at = "startup" -> "config"
               [] at = "reconf"  -> "theme"
               [] at = "reload"  -> "events"

\* The path load() builds; currentThemePath holds the bare name instead.
Path(t) == << "themes", t >>
Name(t) == << t >>

-----------------------------------------------------------------------------
(* inotify *)

\* Equal events in a row are one event.
Reported(q, e) == IF q # << >> /\ Last(q) = e THEN q ELSE Append(q, e)

Ignored(w) == [wd |-> w, kind |-> "IN_IGNORED"]
Written(w) == [wd |-> w, kind |-> "IN_CLOSE_WRITE"]

WatchesOf(watches, i) == {w \in DOMAIN watches : watches[w] = i}
Without(watches, gone) == [w \in DOMAIN watches \ gone |-> watches[w]]

\* The kernel counts descriptors upwards and so gives none twice; here a
\* number that nothing refers to any more stands for the next.
Used == DOMAIN wds \cup {watch} \cup {queue[k].wd : k \in DOMAIN queue}
NextWd == CHOOSE w \in 1 .. Cardinality(Used) + 1 : w \notin Used

\* An inode has at most one watch, so the set has at most one member.
AllIgnored(q, ws) == IF ws = {} THEN q ELSE Reported(q, Ignored(CHOOSE w \in ws : TRUE))

-----------------------------------------------------------------------------
\* The inodes the themes have at first.
Number == CHOOSE n \in [Themes -> 1 .. Cardinality(Themes)] :
            \A a, b \in Themes : a # b => n[a] # n[b]

\* config.yml may name a theme that has no file.
Init ==
  \E present \in SUBSET Themes, t \in Themes :
    /\ file = [a \in Themes |-> IF a \in present THEN Number[a] ELSE 0]
    /\ away = {} /\ broken = {}
    /\ content = [i \in Inodes |-> 0]
    /\ wds = << >> /\ queue = << >>
    /\ option = t /\ onDisk = [theme |-> t, unread |-> FALSE]
    /\ watch = -1 /\ current = << >> /\ shown = << >>
    /\ at = "startup" /\ opened = 0
    /\ blind = FALSE /\ changes = 0

-----------------------------------------------------------------------------
(* Theme::load *)

\* The file is opened first.  Without it load() throws: at startup nothing
\* catches it, in the loop the handler around the loop ends the program.
OpenTheme ==
  /\ Loading /\ opened = 0
  /\ IF file[option] = 0
       THEN /\ at' = IF at = "startup" THEN "crashed" ELSE "died"
            /\ UNCHANGED << opened, blind >>
       ELSE /\ opened' = file[option]
            /\ blind' = FALSE
            /\ UNCHANGED at
  /\ UNCHANGED << disk, kernel, config, watch, current, shown, changes >>

\* FAULT: the watch is added once and stays where it is.
AddsWatch == watch = -1

\* The test that decides whether the watch moves.
MovesWatch == Path(option) # current \/ watch = -1

\* What the parser leaves in the colors: all are cleared, then set from the
\* lines of the file, whatever was shown before.
ColorsOf(i) == << i, content[i] >>

\* Then the watch is moved to the path, and the colors are read from the
\* open file.  A one-component value for an RGBA key writes through an end
\* iterator: the program may die or go on.  Closing the file frees its inode
\* if nothing names it any more.
FinishLoad ==
  /\ Loading /\ opened # 0
  /\ LET removed == IF MovesWatch THEN {watch} \cap DOMAIN wds ELSE {}
         kept == Without(wds, removed)
         there == file[option]
         same == WatchesOf(kept, there)
         added == CASE ~MovesWatch -> watch
                    [] MovesWatch /\ there = 0 -> -1
                    [] MovesWatch /\ there # 0 /\ same # {} -> CHOOSE w \in same : TRUE
                    [] MovesWatch /\ there # 0 /\ same = {} -> NextWd
         watched == IF ~MovesWatch \/ added = -1 THEN kept
                    ELSE [w \in DOMAIN kept \cup {added} |->
                            IF w = added THEN there ELSE kept[w]]
         linked == opened \in away \cup {file[t] : t \in Themes}
         freed == IF linked THEN {} ELSE WatchesOf(watched, opened)
     IN  /\ watch' = added
         /\ wds' = Without(watched, freed)
         /\ queue' = AllIgnored(AllIgnored(queue, removed), freed)
  /\ current' = Name(option)
  /\ shown' = ColorsOf(opened)
  /\ opened' = 0
  /\ \/ at' = AfterLoad
     \/ opened \in broken /\ at' = "crashed"
  /\ UNCHANGED << disk, config, blind, changes >>

-----------------------------------------------------------------------------
(* One turn of the main loop *)

\* Config::reload; when config.yml changed, reconfigure() loads the theme.
ReloadConfig ==
  /\ at = "config"
  /\ IF onDisk.unread
       THEN /\ option' = onDisk.theme
            /\ onDisk' = [onDisk EXCEPT !.unread = FALSE]
            /\ at' = "reconf"
       ELSE /\ at' = "theme"
            /\ UNCHANGED config
  /\ UNCHANGED << disk, kernel, watch, current, opened, shown, blind, changes >>

\* FAULT: only the IN_IGNORED of the watch it holds counts.
OnlyOurs(events) ==
  IF \E k \in DOMAIN events : events[k] = Ignored(watch) THEN -1 ELSE watch

\* FAULT: the descriptor is reset to zero.
ResetToZero(events) ==
  IF \E k \in DOMAIN events : events[k].kind = "IN_IGNORED" THEN 0 ELSE watch
\* The descriptor reload() keeps after the events it read: none after any
\* IN_IGNORED, of whichever watch it was.
WatchAfter(events) ==
  IF \E k \in DOMAIN events : events[k].kind = "IN_IGNORED" THEN -1 ELSE watch

\* Theme::reload reads every event there is, then loads.
ReloadTheme ==
  /\ at = "theme"
  /\ IF watch # -1 /\ queue # << >>
       THEN /\ queue' = << >>
            /\ watch' = WatchAfter(queue)
            /\ at' = "reload"
       ELSE /\ at' = "events"
            /\ UNCHANGED << queue, watch >>
  /\ UNCHANGED << disk, wds, config, current, opened, shown, blind,
                  changes >>

\* The rest of the turn leaves the theme alone.
NextTurn ==
  /\ at = "events" /\ at' = "config"
  /\ UNCHANGED << disk, kernel, config, watch, current, opened, shown, blind,
                  changes >>

Quit ==
  /\ at = "events" /\ at' = "quit"
  /\ UNCHANGED << disk, kernel, config, watch, current, opened, shown, blind,
                  changes >>

\* Theme::cleanup: the watch is removed and the descriptor closed.
Cleanup ==
  /\ at \in {"quit", "died"} /\ wds # << >>
  /\ wds' = << >> /\ queue' = << >> /\ watch' = -1
  /\ UNCHANGED << disk, config, current, at, opened, shown, blind,
                  changes >>

MainLoop == OpenTheme \/ FinishLoad \/ ReloadConfig \/ ReloadTheme \/ NextTurn

-----------------------------------------------------------------------------
(* Changes from outside *)

Running == at \notin {"quit", "died", "crashed"}
Change == Running /\ changes < MaxChanges /\ changes' = changes + 1
Fresh == Cardinality(Themes) + changes + 1

\* The menu stores the picked theme in the options at once ...
PickTheme(t) ==
  /\ Change /\ at = "events" /\ t # option
  /\ option' = t
  /\ UNCHANGED << disk, kernel, onDisk, program, blind >>

\* ... and writes config.yml later; an edit by hand names any theme.
SaveConfig(t) ==
  /\ Change
  /\ onDisk' = [theme |-> t, unread |-> TRUE]
  /\ UNCHANGED << disk, kernel, option, program, blind >>

\* An editor writes the file in place.
Edit(t) ==
  /\ Change /\ file[t] # 0
  /\ content' = [content EXCEPT ![file[t]] = changes + 1]
  /\ \/ broken' = broken \cup {file[t]}
     \/ broken' = broken \ {file[t]}
  /\ queue' = IF WatchesOf(wds, file[t]) = {} THEN queue
              ELSE Reported(queue, Written(CHOOSE w \in WatchesOf(wds, file[t]) : TRUE))
  /\ UNCHANGED << file, away, wds, config, program, blind >>

\* The name loses its inode and gets another, or none.  The watches of an
\* inode end when it is freed: at once, or when load() closes it.
Relink(t, i) ==
  /\ Change /\ file[t] # i
  /\ file' = [file EXCEPT ![t] = i]
  /\ LET gone == IF file[t] \in {0, opened} THEN {} ELSE WatchesOf(wds, file[t])
     IN  /\ wds' = Without(wds, gone)
         /\ queue' = AllIgnored(queue, gone)
  /\ blind' = (blind \/ (opened # 0 /\ file[t] = opened))
  /\ UNCHANGED << away, content, broken, config, program >>

\* Created, or replaced by a rename over it; deleted.
Replace(t) == Relink(t, Fresh)
Delete(t) == Relink(t, 0)

\* Renamed: the watch stays with the inode and nothing is reported.
MoveAway(t) ==
  /\ Change /\ file[t] # 0
  /\ file' = [file EXCEPT ![t] = 0]
  /\ away' = away \cup {file[t]}
  /\ blind' = (blind \/ file[t] = opened \/ WatchesOf(wds, file[t]) # {})
  /\ UNCHANGED << content, broken, kernel, config, program >>

Outside ==
  \E t \in Themes :
    \/ PickTheme(t) \/ SaveConfig(t)
    \/ Edit(t) \/ Replace(t) \/ Delete(t) \/ MoveAway(t)

Next == MainLoop \/ Quit \/ Cleanup \/ Outside

Spec == Init /\ [][Next]_vars

\* The main loop keeps turning: it waits for nothing but the 100 ms frame wait.
FairSpec == Spec /\ WF_vars(MainLoop)

-----------------------------------------------------------------------------
(* Properties *)

\* The variables hold values of their kinds; an open file only while loading.
Wds == Nat \ {0}
Event == [wd : Wds, kind : {"IN_IGNORED", "IN_CLOSE_WRITE"}]
TypeOK ==
  /\ changes \in 0 .. MaxChanges
  /\ file \in [Themes -> Inodes \cup {0}]
  /\ away \subseteq Inodes /\ broken \subseteq Inodes
  /\ DOMAIN wds \subseteq Wds /\ IsFiniteSet(DOMAIN wds)
  /\ \A w \in DOMAIN wds : wds[w] \in Inodes
  /\ queue \in Seq(Event)
  /\ option \in Themes /\ onDisk \in [theme : Themes, unread : BOOLEAN]
  /\ watch \in Wds \cup {-1}
  /\ at \in Points
  /\ opened \in Inodes \cup {0} /\ (opened # 0 => Loading)

\* The content the colors should come from.
Latest == ColorsOf(file[current[1]])

\* Between loads, the program still watches, and either an event waits to be
\* read or the colors are those of the theme file as it is now; unless the
\* file was renamed, or replaced while load() had it open: load() opens the
\* file before it adds the watch, and a rename reports nothing.
EditIsSeen ==
  (at \in {"config", "theme", "events"} /\ ~blind) =>
    /\ watch # -1
    /\ queue = << >> => file[current[1]] # 0 /\ shown = Latest

\* Every load that moves the watch reports an IN_IGNORED to itself and so
\* causes another load; when nobody changes anything the loads still end.
LoadsEnd == <>[]~Loading

=============================================================================
