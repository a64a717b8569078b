----------------------------- MODULE PluginHost -----------------------------
(***************************************************************************)
(* The main thread as a plugin sees it: loading, the startup, the frame    *)
(* loop, the cleanup; the registry of visualizers and the options that     *)
(* plugins put into the configuration.                                     *)
(*                                                                         *)
(* A callback of a plugin is two steps, the call and the return, and the   *)
(* plugin may use the API in between.  `pc` is where main is, `queue` whom *)
(* the pass that runs there still has to call, `inside` whose code runs.   *)
(***************************************************************************)
EXTENDS Naturals, Sequences, FiniteSets, SequencesExt

CONSTANTS
  Plugin,     (* the libraries in the plugin folder                       *)
  Key,        (* the key each one gives itself                            *)
  Provides,   (* the ids of the visualizers it may register               *)
  Builtin,    (* the ids of the program's own visualizers                 *)
  Value,      (* values of an option                                      *)
  Default,    (* the value of every option nobody has set                 *)
  Nothing,    (* no value: the file or the map has no entry               *)
  Nobody,     (* no plugin, no owner                                      *)
  Layouts,    (* the sets of ids that the user may lay out                *)
  MaxEdits    (* bound: how often the user writes config.yml              *)

Host == "host"            \* the program as the owner of a visualizer
Keys == {Key[p] : p \in Plugin}
Ids  == Builtin \cup UNION {Provides[p] : p \in Plugin}
Visualizer == [id : Ids, owner : Plugin \cup {Host}]
Slot       == [id : Ids, owner : Plugin \cup {Host, Nobody}]

ASSUME HostAssumption ==
  /\ IsFiniteSet(Builtin)
  /\ Host \notin Plugin
  /\ Nobody \notin Plugin \cup {Host}
  /\ Default \in Value /\ Nothing \notin Value
  /\ Layouts \subseteq SUBSET Ids
  /\ MaxEdits \in Nat

VARIABLES
  pc,        \* where main is
  queue,     \* whom this pass still has to call
  inside,    \* the plugin whose code runs
  todo,      \* the files that loadAll() has not come to
  mapped,    \* the libraries that are mapped
  plugins,   \* Plugin::plugins
  registry,  \* VisualizerRegistry::visualizers, the null pointers left out
  builtins,  \* ensureBuiltinsRegistered() has run
  tree,      \* the visualizers that the layout points to
  released,  \* WindowManager::cleanup() has made those pointers null
  options,   \* Config::pluginOptions, with one option for each key
  file,      \* the options of plugins that config.yml holds
  layout,    \* the visualizers that config.yml names
  readable,  \* config.yml can be parsed
  changed,   \* the watch has an event
  dead,      \* the process was ended by an exception or by undefined behaviour
  edits,
  failed,    \* history: libraries that were not taken, or closed again
  unread,    \* history: options of the file that were not loaded
  late,      \* history: options registered since the file was last loaded
  harm       \* history: undefined behaviour that was met

control == <<pc, queue, inside, dead>>
libs    == <<todo, mapped, plugins, failed>>
reg     == <<registry, builtins>>
shown   == <<tree, released>>
disk    == <<file, layout, readable, changed, edits>>
opts    == <<options, unread, late>>
vars == <<control, libs, reg, shown, disk, opts, harm>>

Passes == {"starting", "reloading", "event", "drawing", "unloading"}

TypeOK ==
  /\ pc \in Passes \cup {"loading", "configuring", "layout", "top", "events",
                         "releasing", "unregistering", "ended"}
  /\ queue \in Seq(Plugin) /\ plugins \in Seq(Plugin)
  /\ inside \in Plugin \cup {Nobody}
  /\ todo \subseteq Plugin /\ mapped \subseteq Plugin /\ failed \subseteq Plugin
  /\ registry \in Seq(Visualizer)
  /\ builtins \in BOOLEAN /\ released \in BOOLEAN
  /\ tree \subseteq Slot
  /\ options \in [Keys -> Value \cup {Nothing}]
  /\ file \in [Keys -> Value \cup {Nothing}]
  /\ layout \subseteq Ids
  /\ readable \in BOOLEAN /\ changed \in BOOLEAN /\ dead \in BOOLEAN
  /\ edits \in 0 .. MaxEdits
  /\ unread \subseteq Keys /\ late \subseteq Keys
  /\ harm \subseteq [what : {"call", "null", "save"}, on : Slot]

Init ==
  /\ pc = "loading" /\ queue = <<>> /\ inside = Nobody
  /\ todo = Plugin /\ mapped = {} /\ plugins = <<>> /\ failed = {}
  /\ registry = <<>> /\ builtins = FALSE
  /\ tree = {} /\ released = FALSE
  /\ options = [k \in Keys |-> Nothing]
  /\ file \in [Keys -> Value \cup {Nothing}]
  /\ layout \in Layouts
  /\ readable = TRUE /\ changed = FALSE /\ dead = FALSE /\ edits = 0
  /\ unread = {k \in Keys : file[k] # Nothing}
  /\ late = {} /\ harm = {}

Running == ~dead /\ inside = Nobody
InPlugin(p) == ~dead /\ inside = p /\ p # Nobody

(* Undefined behaviour ends the process. *)
Harm(hs) == harm' = harm \cup hs /\ dead' = (hs # {})

(* Calling a virtual function of each of these visualizers: the code is in   *)
(* the library of the owner.                                                 *)
CallsInto(vs) ==
  {[what |-> "call", on |-> v] : v \in {w \in vs : w.owner \in Plugin \ mapped}}
  \cup {[what |-> "null", on |-> v] : v \in {w \in vs : w.owner = Nobody}}

-----------------------------------------------------------------------------
(* The registry. *)

BuiltinsOf == SetToSeq({[id |-> i, owner |-> Host] : i \in Builtin})
Known      == IF builtins THEN registry ELSE registry \o BuiltinsOf

Push(v) == Append(registry, v)

(* find() takes the first with this id; the layout keeps a null pointer when *)
(* there is none.                                                            *)
Find(i) == LET js == {j \in DOMAIN Known : Known[j].id = i} IN
           IF js = {} THEN [id |-> i, owner |-> Nobody]
           ELSE Known[CHOOSE j \in js : \A l \in js : j <= l]

-----------------------------------------------------------------------------
(* The configuration. *)

(* FAULT: an option that was set is not read again. *)
ReadsUnset(k) == options[k] = Default
Reads(k)      == options[k] # Nothing

(* The watch is set up by the first load and taken down in the cleanup. *)
Watched == pc \notin {"loading", "configuring", "unregistering", "unloading", "ended"}

(* Config::load().  A file that cannot be parsed leaves everything as it was. *)
Load ==
  /\ changed' = FALSE
  /\ IF readable
     THEN /\ registry' = Known /\ builtins' = TRUE
          /\ tree' = {Find(i) : i \in layout}
          /\ options' = [k \in Keys |-> IF Reads(k) /\ file[k] # Nothing
                                        THEN file[k] ELSE options[k]]
          /\ unread' = {k \in unread : ~Reads(k)}
          /\ late' = {}
     ELSE UNCHANGED <<reg, tree, opts>>
  /\ UNCHANGED <<released, file, layout, readable, edits>>

(* Config::save() writes what is in memory; it asks each layout pointer for  *)
(* its id, and a null one has none.                                          *)
Nulls == {v \in tree : released \/ v.owner = Nobody}
Saved ==
  /\ Harm({[what |-> "save", on |-> v] : v \in Nulls})
  /\ file' = options
  /\ layout' = {v.id : v \in tree}
  /\ readable' = TRUE /\ changed' = Watched
  /\ unread' = {}
  /\ UNCHANGED <<edits, late>>

(* The user's editor. *)
UserEdit ==
  /\ ~dead /\ pc # "ended" /\ edits < MaxEdits
  /\ edits' = edits + 1
  /\ changed' = Watched
  /\ \/ \E k \in Keys, v \in Value : /\ file' = [file EXCEPT ![k] = v]
                                     /\ unread' = unread \cup {k}
                                     /\ readable' = TRUE /\ UNCHANGED layout
     \/ \E l \in Layouts : layout' = l /\ UNCHANGED <<file, unread, readable>>
     \/ readable' = FALSE /\ UNCHANGED <<file, layout, unread>>
  /\ UNCHANGED <<control, libs, reg, shown, options, late, harm>>

-----------------------------------------------------------------------------
(* Plugin::loadAll(). *)

(* dlopen() fails or a symbol is missing: no code of the plugin has run. *)
Skip(p) ==
  /\ Running /\ pc = "loading" /\ p \in todo
  /\ todo' = todo \ {p} /\ failed' = failed \cup {p}
  /\ UNCHANGED <<control, mapped, plugins, reg, shown, disk, opts, harm>>

LoadEntry(p) ==
  /\ Running /\ pc = "loading" /\ p \in todo
  /\ todo' = todo \ {p}
  /\ mapped' = mapped \cup {p}
  /\ plugins' = Append(plugins, p)
  /\ inside' = p
  /\ UNCHANGED <<pc, queue, dead, failed, reg, shown, disk, opts, harm>>

InitSucceeds(p) ==
  /\ InPlugin(p) /\ pc = "loading"
  /\ inside' = Nobody
  /\ UNCHANGED <<pc, queue, dead, libs, reg, shown, disk, opts, harm>>

(* FAULT: the entry of the failed plugin stays; the handle is left there. *)
Kept      == plugins
PoppedAll == [i \in DOMAIN Front(plugins) |-> Nobody]
Popped    == Front(plugins)

(* unloadCurrent(): what the plugin registered stays. *)
InitFails(p) ==
  /\ InPlugin(p) /\ pc = "loading"
  /\ inside' = Nobody
  /\ mapped' = mapped \ {p}
  /\ plugins' = Popped
  /\ failed' = failed \cup {p}
  /\ UNCHANGED <<pc, queue, dead, todo, reg, shown, disk, opts, harm>>

-----------------------------------------------------------------------------
(* The rest of the startup. *)

Configure ==
  /\ Running
  /\ \/ pc = "loading" /\ todo = {} /\ pc' = "configuring"
        /\ UNCHANGED <<reg, shown, disk, opts>>
     \/ pc = "configuring" /\ pc' = "layout" /\ Load
  /\ UNCHANGED <<queue, inside, dead, libs, harm>>

(* Theme, SDL and audio come before the layout; they may throw, and nobody   *)
(* catches it.                                                               *)
StartupFails ==
  /\ Running /\ pc \in {"loading", "layout"}
  /\ dead' = TRUE
  /\ UNCHANGED <<pc, queue, inside, libs, reg, shown, disk, opts, harm>>

Layout ==
  /\ Running /\ pc = "layout"
  /\ Harm(CallsInto(tree))
  /\ pc' = "starting" /\ queue' = plugins
  /\ UNCHANGED <<inside, libs, reg, shown, disk, opts>>

-----------------------------------------------------------------------------
(* startAll, notifyConfigReload, handleEvent, drawAll and unloadAll. *)

(* FAULT: the plugins are closed before the registry is cleared. *)
UnloadFirst == [starting |-> "top", reloading |-> "events", event |-> "events", drawing |-> "top",
                releasing |-> "unloading", unloading |-> "unregistering", unregistering |-> "ended"]
After == [starting |-> "top", reloading |-> "events", event |-> "events", drawing |-> "top",
          releasing |-> "unregistering", unregistering |-> "unloading", unloading |-> "ended"]

Call ==
  /\ Running /\ pc \in Passes /\ queue # <<>>
  /\ inside' = Head(queue) /\ queue' = Tail(queue)
  /\ UNCHANGED <<pc, dead, libs, reg, shown, disk, opts, harm>>

Return(p) ==
  /\ InPlugin(p) /\ pc \in Passes
  /\ inside' = Nobody
  /\ mapped' = IF pc = "unloading" THEN mapped \ {p} ELSE mapped
  /\ UNCHANGED <<pc, queue, dead, todo, plugins, failed, reg, shown, disk, opts, harm>>

PassEnds ==
  /\ Running /\ pc \in Passes /\ queue = <<>>
  /\ pc' = After[pc]
  /\ plugins' = IF pc = "unloading" THEN <<>> ELSE plugins
  /\ UNCHANGED <<queue, inside, dead, todo, mapped, failed, reg, shown, disk, opts, harm>>

-----------------------------------------------------------------------------
(* What a plugin may do inside a callback. *)

(* Visualizers are registered in init or start. *)
RegisterVisualizer(p, i) ==
  /\ InPlugin(p) /\ pc \in {"loading", "starting"}
  /\ i \in Provides[p]
  /\ LET v == [id |-> i, owner |-> p] IN
       /\ v \notin Range(registry)
       /\ registry' = Push(v)
  /\ UNCHANGED <<control, libs, builtins, shown, disk, opts, harm>>

(* A second registration is refused. *)
RegisterOption(p) ==
  /\ InPlugin(p) /\ options[Key[p]] = Nothing
  /\ options' = [options EXCEPT ![Key[p]] = Default]
  /\ late' = IF pc = "loading" THEN late ELSE late \cup {Key[p]}
  /\ UNCHANGED <<control, libs, reg, shown, disk, unread, harm>>

SetOption(p, v) ==
  /\ InPlugin(p) /\ options[Key[p]] # Nothing
  /\ options' = [options EXCEPT ![Key[p]] = v]
  /\ UNCHANGED <<control, libs, reg, shown, disk, unread, late, harm>>

SaveConfig(p) ==
  /\ InPlugin(p) /\ Saved
  /\ UNCHANGED <<pc, queue, inside, libs, reg, shown, options>>

(* The file cannot be written.  Only the loop catches this. *)
SaveThrows(p) ==
  /\ InPlugin(p)
  /\ IF pc \in {"reloading", "event", "drawing"}
     THEN pc' = "releasing" /\ queue' = <<>> /\ inside' = Nobody /\ UNCHANGED dead
     ELSE dead' = TRUE /\ UNCHANGED <<pc, queue, inside>>
  /\ UNCHANGED <<libs, reg, shown, disk, opts, harm>>

-----------------------------------------------------------------------------
(* The frame loop. *)

(* Config::reload(), and reconfigure(), which may throw. *)
Top ==
  /\ Running /\ pc = "top"
  /\ IF changed
     THEN /\ Load
          /\ Harm(CallsInto(tree'))
          /\ \/ pc' = "reloading" /\ queue' = plugins
             \/ pc' = "releasing" /\ queue' = <<>>
     ELSE /\ pc' = "events" /\ UNCHANGED <<queue, dead, reg, shown, disk, opts, harm>>
  /\ UNCHANGED <<inside, libs>>

(* Dragging a visualizer in the menu, to a window or to the hidden ones. *)
MenuMoves(i) ==
  LET others == {v \in tree : v.id # i} IN
  /\ \/ Find(i).owner # Nobody /\ tree' = others \cup {Find(i)}
     \/ others # {} /\ tree' = others
  /\ file' = options /\ layout' = {v.id : v \in tree'}
  /\ readable' = TRUE /\ changed' = TRUE /\ unread' = {}
  /\ UNCHANGED <<released, options, edits, late, dead, harm>>

MenuSets(k, v) ==
  /\ options[k] # Nothing
  /\ options' = [options EXCEPT ![k] = v]
  /\ UNCHANGED <<shown, disk, unread, late, dead, harm>>

(* The menu and the windows see an event before the plugins do. *)
Event ==
  /\ Running /\ pc = "events"
  /\ \/ UNCHANGED <<shown, disk, opts, dead, harm>>
     \/ \E i \in Ids : MenuMoves(i)
     \/ \E k \in Keys, v \in Value : MenuSets(k, v)
     \/ Saved /\ UNCHANGED <<shown, options>>
  /\ pc' = "event" /\ queue' = plugins
  /\ UNCHANGED <<inside, libs, reg>>

(* No more events: the loop stops, or a frame is drawn. *)
Check ==
  /\ Running /\ pc = "events"
  /\ \/ pc' = "releasing" /\ UNCHANGED <<queue, dead, harm>>
     \/ pc' = "drawing" /\ queue' = plugins /\ Harm(CallsInto(tree))
  /\ UNCHANGED <<inside, libs, reg, shown, disk, opts>>

-----------------------------------------------------------------------------
(* The cleanup. *)

(* WindowManager::cleanup(), and the watch of the file is gone. *)
Release ==
  /\ Running /\ pc = "releasing"
  /\ released' = TRUE /\ changed' = FALSE
  /\ pc' = After[pc] /\ queue' = plugins
  /\ UNCHANGED <<inside, dead, libs, reg, tree, file, layout, readable, edits, opts, harm>>

(* VisualizerRegistry::cleanup() drops the last reference: destructors run. *)
Unregister ==
  /\ Running /\ pc = "unregistering"
  /\ Harm(CallsInto(Range(registry)))
  /\ registry' = <<>>
  /\ pc' = After[pc] /\ queue' = plugins
  /\ UNCHANGED <<inside, libs, builtins, shown, disk, opts>>

Ended == (dead \/ pc = "ended") /\ UNCHANGED vars

Next ==
  \/ \E p \in Plugin :
       \/ Skip(p) \/ LoadEntry(p) \/ InitSucceeds(p) \/ InitFails(p) \/ Return(p)
       \/ \E i \in Ids : RegisterVisualizer(p, i)
       \/ RegisterOption(p) \/ (\E v \in Value : SetOption(p, v))
       \/ SaveConfig(p) \/ SaveThrows(p)
  \/ Configure \/ StartupFails \/ Layout \/ Call \/ PassEnds
  \/ Top \/ Event \/ Check \/ Release \/ Unregister
  \/ UserEdit \/ Ended

Spec == Init /\ [][Next]_vars

-----------------------------------------------------------------------------
(* How far a plugin has come that is in the deque. *)
StageOf(p) ==
  CASE pc = "loading"   -> IF inside = p THEN "initialising" ELSE "ready"
    [] pc \in {"configuring", "layout"} -> "ready"
    [] pc = "starting"  -> IF p \in Range(queue) THEN "ready"
                           ELSE IF inside = p THEN "starting" ELSE "running"
    [] pc = "unloading" -> IF p \in Range(queue) THEN "running"
                           ELSE IF inside = p THEN "stopping" ELSE "gone"
    [] OTHER -> "running"

Life(p) == IF p \in todo THEN "absent"
           ELSE IF p \in failed THEN "out"
           ELSE IF p \notin Range(plugins) THEN "gone"
           ELSE StageOf(p)

Lifecycle == INSTANCE PluginLife WITH life <- [p \in Plugin |-> Life(p)]

(* The passes over the deque of plugins, with plugins that fail, callbacks   *)
(* that throw and a shutdown from any point of the loop, give every plugin   *)
(* the promised lifecycle: nobody is served before everybody was started,    *)
(* stopped twice, or called after its stop.                                  *)
ImplementsPluginLife == Lifecycle!Spec

(* The only undefined behaviour the host can be led into: a call into the    *)
(* library of a plugin whose init failed, an id in the layout that belongs   *)
(* to nobody, and a plugin that saves in its stop callback, when the layout  *)
(* has been released.  In particular the order of the cleanup leaves no      *)
(* destructor of a plugin's visualizer to be called after the library went.  *)
HarmIsKnown == \A h \in harm :
  \/ h.what = "call" /\ h.on.owner \in failed
  \/ h.what = "null" /\ h.on.id \notin Builtin
  \/ h.what = "save" /\ pc = "unloading"

(* What the file holds and memory does not is about to be loaded, cannot be  *)
(* parsed, or belongs to an option that was not registered at the last load. *)
UnreadIsPending == \A k \in unread : Watched =>
  changed \/ ~readable \/ k \in late \/ options[k] = Nothing

=============================================================================
