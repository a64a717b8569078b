# pulse-visualizer in TLA+

This directory models [pulse-visualizer](../src/README.md), an audio visualizer
in C++20 (SDL3, OpenGL, FFTW, libebur128; PipeWire, PulseAudio or WASAPI). All
paths below are under `src/`. `PROJECT.json` maps every definition to the
lines it models.

Contents: [inventory](#inventory) · [modules](#modules) · [runs](#runs) ·
[proofs](#proofs) · [findings](#findings) · [not modelled](#not-modelled) ·
[plan](#plan).

## Inventory

| Component | State | Operations | Talks to | Hard because |
|---|---|---|---|---|
| **main loop** `src/main.cpp` | `running`, the jthread, stop source | init order, `reconfigure()`, event loop, cleanup | everything | one loop feeds and tears down three other threads |
| **DSP threads** `src/dsp.cpp` | `BoolSignal`s, stop tokens, `FFT::mutexMid/Side`, `LUFS::mutex`, FFTW plans and buffers, Constant-Q kernels, biquads, spectra, `LUFS::state`, statics that remember what was built | `Threads::mainThread`, `FFTMain`, `FFTAlt`, `recreatePlans`, `regenerate`, `reconfigure`, `LUFS::init/reset` | audio engine (blocks), main (dataRdy, options without a lock), visualizers (spectra without a lock), registry | races, lock order, teardown order, lost signals |
| **sample ring** `bufferMid`, `bufferSide`, `writePos` | 32768 samples, write position, `lastWritePos` of `FIR::process` | vector and scalar stores, reads behind `writePos` | written by a backend (in the DSP thread or in a callback), read by all DSP code | wrap-around, SIMD stores, no lock |
| **audio engine** `src/audio_engine.cpp` | per backend `initialized`, `running`, stream or thread, `readSig`, `lastDevice`… | `init`, `reconfigure`, `read`, `enumerate`, `cleanup`, callbacks | DSP thread, server callbacks | failure half-way, callbacks, fallback from PipeWire to Pulse |
| **configuration store** `src/config.cpp` | `options`, the file, ten backups, inotify descriptor and watch | `load`, `save`, `reload`, `rollBackup`, `restoreBackup` | menu, window manager, plugins, the user's editor | rotation is not atomic; every save comes back as a reload |
| **themes** `src/theme.cpp` | colours, a watch | `load`, `reload`, `cleanup` | main loop, menu (the option), the user's editor | the watch is moved by every load; a missing file throws |
| **window layout** `src/window_manager.cpp` | for each group a tree of splitters and visualizers; bounds | swap, insert, add, remove, `initialize`, `updateBounds`, events | SDL windows, menu, config | trees edited while they are walked |
| **SDL windows** `src/sdl_window.cpp` | `states`: group → window, context, `removable` | create, destroy, events | window layout, menu | two maps that must agree |
| **settings menu** `src/config_window.cpp` | shown, pages, focus, copies of plugin options, drag state | widgets, pages, drop of a visualizer, save, default and restore buttons | config, layout, main's `reconfigure`, plugins | edits options at any time; closing saves; a widget may own the mouse |
| **update check** `src/update_window.cpp` | thread, window | check, hide | main | one thread, joined at exit |
| **plugins** `src/plugin.cpp` | deque of loaded libraries | load, start, draw, notify, unload | registry, config, SDL events | failed init leaves registrations behind |
| **visualizer registry** `src/visualizer_registry.cpp` | vector of visualizers | find, register, cleanup | layout, FFT threads, plugins | lifetime against the threads |
| **visualizers** `src/spectrum_analyzer.cpp` … | cursors, textures | `render`, `configure` | DSP data | drawing; read shared vectors |
| **graphics**, **shaders**, **config schema** | – | drawing, a compile-time table | – | not state machines of interest |

What makes each component correct:

* *threads*: no plan is executed after it was destroyed; mutexes are held only
  in their critical sections; nothing is freed under a running thread; every
  block that was read is analysed; the loop never stalls; shutdown completes.
* *ring*: it is the window of the last samples; each consumer sees each sample
  once; nothing is stored outside.
* *audio engine*: exactly one backend is open while the loop runs, on the stream
  the options ask for; whatever fails half-way is closed; no call hangs.
* *configuration*: what was saved is what is loaded; live reload keeps working;
  a backup of the last good file exists.
* *themes*: the colours are those of the file, or an event is on its way; the
  watch does not keep the program reloading.
* *menu*: it is shown exactly while it has a window, never stops to answer, writes
  back what it shows, and is saved when it closes.
* *layout*: drags and moves lose and double no visualizer, the main window is never
  empty, and every group has its window, after any sequence of drops.
* *plugins*: started once, told of every reload, stopped before unloading, and
  nothing points into an unloaded one.

## Modules

| Module | Models |
|---|---|
| `DspThreads` | the four threads: main loop, reconfigure, cleanup, `mainThread`, `FFTMain`, `FFTAlt` |
| `DspThreads_proofs` | its theorems |
| `MCDspThreads` | small sets of options for TLC |
| `SampleWindow` | abstract: the last `Size` samples of a stream |
| `RingBuffer` | the ring, the stores, `FIR::process`, `LUFS::addSamples` |
| `RingBuffer_proofs` | its theorems |
| `MCRingBuffer` | a ring of 6 samples for TLC |
| `BackupLog` | abstract: dated snapshots, of which only the oldest is given up |
| `ConfigStore` | config.yml, its backups, the inotify watch, load, save, reload, the two file buttons, the user's editor, crashes |
| `ConfigStore_proofs` | its theorems |
| `MCConfigStore` | two configurations and three backup slots for TLC |
| `WindowLayout` | the trees of visualizers, drag and drop in the windows and in the menu, SDL windows, reloads of the layout |
| `WindowLayout_proofs` | its theorems |
| `MCWindowLayout` | three visualizers and two windows for TLC |
| `AudioEngine` | the three backends, their servers' calls and callbacks, the fallback, reconfigure, the DSP thread's reads |
| `AudioEngine_proofs` | its theorems |
| `MCAudioEngine` | four builds and two devices for TLC |
| `PluginLife` | abstract: the lifecycle `docs/PLUGINS.md` promises |
| `PluginHost` | loading, passes over the plugins, registry, plugin options, layout pointers, reload, unloading |
| `PluginHost_proofs` | theorems of the host, and its refinement of `PluginLife` |
| `MCPluginHost` | two plugins with the same key for TLC |
| `Menu` | windows, pages and widgets of the settings menu, plugin copies, saving, the announcement of an update |
| `Menu_proofs` | its theorems |
| `MCMenu` | one option under six widgets for TLC |
| `ThemeWatch` | `Theme::load`, `reload`, `cleanup`, inotify, the theme files |
| `ThemeWatch_proofs` | its theorems |
| `MCThemeWatch` | two themes for TLC |

### DspThreads

Each thread has a program counter (`mainPc`, `dspPc`, `fftPc[c]`), and a step is
the code between two points where another thread could tell the difference.

| State | Code |
|---|---|
| `sig` | `BoolSignal::flag_` of `dataRdy`, `fftMainSig`, `fftAltSig` |
| `stop` | the stop tokens of the three jthreads |
| `holder` | `FFT::mutexMid`, `FFT::mutexSide`, `LUFS::mutex` |
| `options` | the fields of `Config::options` the threads depend on |
| `last` | the function-local statics of `recreatePlans`, `regenerate`, `Lowpass::reconfigure` |
| `bufSize`, `kernels`, `raw`, `smoothed` | lengths of the FFTW buffers, Constant-Q kernels and spectra |
| `lufsState`, `registry`, `plugins` | whether each is still there |
| `crashed` | a thread touched memory that was freed, short or being rebuilt, and the process died |

A memory fault is a *possible* outcome (`Fault`): the thread may die with the
process or get away with it, as undefined behaviour may. A null plan is certain
to be dereferenced only when it is executed (`FftNoPlan`). `FftExposed`, `DrawExposed`,
`StoreExposed` and `DspExposed` list what can fault: buffers shorter than the new
`fft.size`, kernels, biquads and spectra that are being rebuilt, a look-up in the
registry while a plugin may be registering (`Registering`: `Plugin::startAll`, after the DSP
thread was started, and every callback from the loop), and the vector store at the
end of the ring. The last two need no change of the options, so no invariant here says
that some phase of the program is free of faults: there is none. A fault ends a
behaviour, so what the invariants say holds up to there.

`MainReload` is `Config::reload` and the menu's two file buttons,
`MainMenuEdit` a tick or a slider of the menu, which writes `Config::options`
from the event handlers or while it is drawn. `MainCheckTables` to `MainLufsInit`
are `reconfigure()` in its order. Values of samples, magnitudes and the pitch
are left out; whether they could be read safely is not.

### RingBuffer

Samples are numbered as they arrive, so a cell's content says when it was
stored. A vector of `Lanes` samples is stored at `writePos` without wrapping its
lanes; what falls past the end is lost to the buffer (`overrun` remembers how
much). `backend = "pulse"`: the DSP thread stores the block itself, between
its consumers. `"callback"`: PipeWire's or WASAPI's thread stores blocks of any
length while the DSP thread runs. A frame may have no block (`NoBlock`): while Pulse is
set up again `read()` returns true at once (`src/audio_engine.cpp:211`), and a block that
was read is dropped when `running` was cleared meanwhile (`src/dsp.cpp:923`);
`got` says which it was, and the loudness is measured all the same. `FirEnd` may remember a later write position
than the one that was filtered up to, because `lastWritePos = writePos` reads
the global again. The ring and its refinement of `SampleWindow` hold through
`count <- total` and `latest[k] <- mem[Behind(k)]`.

### ConfigStore

The operations of `config.cpp` are sequences of file operations, and `pc` names
the next one; `job` says whose sequence it is (a start, a reload, a save, the
buttons "Restore latest" and "Load default" of the menu). `Shift` is one round
of the loop in `rollBackup` (`slot` is its variable), `Copy` the copy after it,
`Watch` and `Read` the rest of `load`, `Truncate` and `Write` opening and writing
the stream, `Remove` and `CopyFiles` the default button. Between any two of them
the editor may act, the process may die (`Die`, which leaves a half-written file
or backup if the step was a write), or the operation may fail the way the code
lets it: an exception that ends the loop (also `Die`), one that `main` catches
(`FirstLoadFails`), one that the Save button catches (`SaveFails`), or without a
word (`FailsQuietly`).

All options are one value. `onPath` says whether the watched inode is the one at
the path; the kernel's part is `Tell` (IN_CLOSE_WRITE) and `Unlink` (IN_IGNORED). A file
that was moved away keeps its watch and sends no IN_IGNORED, unlike the
comment at `src/config.cpp:653` says. `ConfigStore` implements `BackupLog`
with the set of existing backups as `kept`; slots, gaps and the order of the slots disappear.

### WindowLayout

The trees are the heap they are in C++: `child` says what is in each place (the
root of a group, or a child slot of a splitter), and a splitter has an identity,
because the question is whether it still exists when somebody reads it.

| State | Code |
|---|---|
| `child` | `Config::options.visualizers`; a group exists when its root is not empty. `Slot(s, side)` is the member `primary` or `secondary` of the splitter `s` |
| `windows` | `SDLWindow::states`: no entry, a window, or the empty entry that `operator[]` makes |
| `group`, `dragging` | the members of `VisualizerWindow` |
| `drag`, `newWindowCounter` | the statics of the visualizer list in the menu |
| `walk` | the event `WindowManager::handleEvent` is delivering: the groups still to come and the stack of `walkTree`, each frame with the references it holds |

`Removed`, `Added`, `Swapped` and `Inserted` are the functions of
`window_manager.cpp` on the heap; `initialize` and `Looked` what is done to the
windows. A button release is delivered step by step: `NextTree` enters a tree,
`Descend` reads a child of the splitter the frame points to, `VisitLeaf` is
`VisualizerWindow::handleEvent` with the whole drop in it, and `ReadFreed` stands
for a read of a splitter that was destroyed meanwhile, after which the program
dies or that call gets by. `Reload` is a changed file: a visualizer was taken out of a
tree, put into one, or moved, and one may be put in that is shown already, since
`src/config.cpp:252-300` builds whatever tree the file describes. `OutOfDate` says that the
visualizer which the menu drops is no longer where it was picked up. A press and the menu's clicks change no tree during a
walk and are one step each. The layout file names only `main` and `win_N`; a
`hidden` entry in it and unknown ids, which become null leaves, are left out.

### AudioEngine

Main is in a `job` (startup, a reload, listing the devices, the cleanup, or none);
within it, `init()` and `cleanup()` of a backend are sequences of calls to a server.
`at` says which call is next, `on` whose it is, `step` how far `init()` has come
through `Calls[on]`, `next` where `cleanup()` goes back to. Each call succeeds
(`PwTakes`, `WaTakes`, `PaOpen`) or fails the way the code then handles it; what
a backend holds is a set (`held`). Beside main run PipeWire's loop with its
callbacks (only while main does not have its lock), WASAPI's thread, and the DSP
thread in `AudioEngine::read`. WASAPI's thread is in its outer loop (`"loop"`), which tests
`running`, or in the inner one (`"packet"`), which does not (`src/audio_engine.cpp:614-677`).
Its device may go away at any moment (`WaGone`), after which the event brings no new packet
(`WaWakes`) and the inner loop ends only if the failed call at `:674` happens to
leave zero (`WaDrains`, without fairness then). `held` leaves out COM, the event handle and
the enumerator of WASAPI, so what its error paths do with these is not checked. What a callback stores is in `RingBuffer`; rates
and latencies are left out, a changed rate takes the way of a changed device.
`harm` remembers undefined behaviour that was met: a read of a freed Pulse stream,
the second free of the mix format, a device list that moved while the menu read it.

### PluginHost and PluginLife

A callback is two steps, the call (`Call`, `LoadEntry`) and its return, and the
plugin may register, set and save in between: a visualizer and an option in `init`
or `start`, `setConfigOption` and `saveConfig` in any. `pc` says which pass of main
runs, `queue` whom it still has to call, `inside` whose code runs. The configuration
file is reduced to the plugin options and the ids of the layout. `Harm` is a call into
a library that is not mapped, or through a null pointer of the layout, after which
the process may die. `PluginHost` implements `PluginLife` with `Life(p)` read off
the passes; every plugin registers at most once per id, and a save that throws does
so in a callback of a pass (`SaveThrows`) but is not modelled for the menu's own save.

### Menu

One instance has one option, on a page of the schema or on the plugins' page,
under one of the kinds of widget; where elements lie is left out, so an event
says what the mouse is over. `focus` holds the widgets that take all clicks,
`click` what acts on the release, `tall` the open dropdowns whose rectangle covers
their choices (it follows one frame late). `copy` is the plugins' page's
`PluginConfigValue`; every widget of that page writes it back. The check box toggles
between the first and last value that is offered. Windows come and go with
`shown`, `announced` and each reload; an event of the window system can arrive for a
window that is already gone. The save of `Config::save` is one step here; its
steps are in `ConfigStore`. Popups, scrolling, modifier keys and the text of
labels are left out, and so is a layout group named `menu` or `update`.

### ThemeWatch

`at` is where the main loop is, `Loading` names the three calls of `Theme::load`.
A load is two steps, the opening of the file and everything after it
(`FinishLoad`), because only between the opening and the new watch does an
editor's step make a difference that no event reports. The kernel's part is `wds`
(descriptor → inode) and `queue`; `NextWd` is a number that neither the program nor an
event refers to any more, since the kernel counts up; a load removes the watch it has, which queues an
IN_IGNORED, so each load is followed by another one, which finds no watch to remove.
The path is compared with the bare name (`Path`, `Name`), as in the code, so
`MovesWatch` always holds. `blind` remembers that the watched inode is not the
file any more, which no event tells: the file was renamed, or replaced while it
was being loaded. The colours stand for the content they were read from.

## Runs

| Run | Shows | Bounds |
|---|---|---|
| `threads_safety` | plans and teardown in order, the unlocked `LUFS::reset` meets nobody | 1 block, 2 changes between two sets of options |
| `threads_frames` | every block is analysed (`FrameAnalysed`) | 2 blocks, whose signals may fold into one, fair |
| `threads_liveness` | the loop keeps rendering, shutdown completes | 2 changes, silent source, fair |
| `threads_stale_plans` | **violated**: reload changes `fft.size`, the buffers stay | 1 change |
| `ring_window` | the ring is the window; FIR and LUFS take each sample of the blocks once, frames without a block in between | 6 cells, vectors of 2, 18 samples |
| `store_files` | no change of the file is missed, what was loaded is kept, the rotation is a log, plugins hear of every change | 3 slots, 1 edit, 1 click, 1 crash or failure |
| `layout_moves` | trees stay trees, drags keep what is shown, no drag or move doubles a visualizer, windows follow | 3 visualizers, 2 windows, 3 splitters, 3 leaves |
| `layout_walk` | **violated**: `walkTree` reads a splitter that the drop destroyed | as above |
| `audio_backends` | one backend is open and the others hold nothing, its stream is the configured one, a reload does not free the stream under the reader, all is closed at the end, startup, reloads and exit end but for three hangs | 4 builds, 2 devices, 2 reloads, 2 failures, fair |
| `plugins` | the lifecycle of `PluginLife`; calls into unmapped code only for a plugin whose init failed; no option of the file is forgotten | 2 plugins, 1 edit of the file |
| `menu` | shown exactly with a window, focus never stuck, copies written back, closing saves | 1 option, 6 widgets, 3 values |
| `theme_reload` | no edit of the watched theme is missed, reloads come to an end | 2 themes, 4 changes from outside, fair |

Why the bounds are enough. *Threads*: one block of audio passes every program
point of the three DSP threads, and a worker also runs on a timeout without a
block, so for the safety properties more blocks repeat the same states with another number; two are the
fewest whose signals can meet in one flag. The first
change of the options only initialises the statics and the second is the first
that rebuilds anything, so two changes reach every step of `reconfigure()`; the
two sets of options differ in length, Constant-Q and mono, so every rebuild and
both branches of the workers are taken. `threads_safety` has a view (`Decides`): the states of
a process that died count as one, and so do states that differ only in the lengths of kernels
and spectra, which no guard but those of `Fault` reads. *Ring*: two lanes are the smallest vector that is not a single sample; the block
lengths 1 to 4 give whole vectors, a vector and a rest, and a rest alone; 18
samples wrap six cells three times, so that a reader meets both old and
rewritten cells. *Store*: three slots are the fewest in which an
operation that rotates twice ("Restore latest", "Load default") keeps what was
loaded, and they have a first, a middle and a last one; the proofs cover ten.
One edit, one click and one failure can fall into any step of each other, and the
saves and reloads they cause run to their end. *Layout*: three visualizers are the fewest with
a splitter inside another one, so that the dragged one and the hovered one have the
same parent or different ones, above or below each other; two windows give a
source and a target; the third splitter is the one an insertion makes before the
old one is gone. `MaxShown`, three leaves, lets the file or an out-of-date drop of the menu
show one visualizer twice beside another one, in one tree or in two, after which the
properties must go on to hold. Nothing is dragged in a
window while the menu drags (one pointer). Visualizers and splitters are symmetric:
no definition tells them apart, and whichever free splitter `New` picks, the
results differ by a renaming of free ones. *Audio*: two
reloads are the fewest, because the first only initialises `lastDevice`; two
failures let the fallback, or a retry of a reload, fail as well; of the two wishes
one is plugged in and one is not. *Plugins*: two plugins can share a key, one can
fail while the other lives, and a pass can stop between them. One edit of the file
falls into any step; saves by the plugins are not bounded. *Menu*: options do not
share anything but the page and `focus`, and of two widgets of one page only the
one that is clicked changes; two values that are offered and one spelt
differently reach every branch of ticks, detents and sliders. *Themes*: four
changes allow, for instance, an edit, a pick in the menu, and an edit and a rename of the
theme that is no longer shown. `MaxFrames`, `MaxChanges`, `MaxSamples`,
`MaxEdits`, `MaxClicks`, `MaxFaults`, `MaxReloads`, `MaxValue`, `MaxWindows`, `MaxShown` and `Splitters`
are the only other bounds; the event queue of `ThemeWatch` stays below the 16 events that
one `read` takes.

`CHECK_DEADLOCK FALSE` is set for the ring, whose stream ends when `MaxSamples`
have arrived, and for the store, the layout, the audio engine and the themes, where the process may be dead and nothing has to
start it again. `DspThreads` has a `Stopped` step instead, and TLC
looks for deadlocks of the threads.

Fairness (`Fairness` in `DspThreads`): each thread is scheduled for ever (strong
fairness of all its steps together), which includes that a mutex it keeps
asking for is granted in the end. The code justifies it: each holder releases
the mutex within its frame, the FFT threads wait up to 100 ms between frames and
the DSP thread sleeps to the end of its frame. Every wait of the main loop, of the FFT threads and of
PipeWire's and WASAPI's `read` has a timeout of 100 ms; that of Pulse
is assumed to return, with a block or an error. Nothing is assumed of the user,
of the file watch, of the audio source, or of faults.

For `ConfigStore`: the main loop goes round, so an operation on the file that was
begun is finished (`WF_vars(Advance)`) and `reload()`, called in each round, reads
queued events (`WF_vars(Reload)`). An editor may keep the file open for ever, nobody
has to start the program, and crashes and failures are never required.

For `AudioEngine`: calls to a server return, with a result or an error, WASAPI's
thread and the DSP thread are scheduled, and WASAPI's thread empties a device that is there
faster than it fills (`WF_vars(~gone /\ WaDrains)`); nothing is assumed of callbacks, of
reloads, of failures, or of a device that went away. `JobsComplete` says how each job
ends: a startup in the idle loop or the death of the process, a reload in the loop, an
exit in the end, and each of them by waiting for ever where the code does
(`LoopIsLocked`, `StartsLate`, `Spins`, each with what caused it). For `DspThreads`: plugins'
functions return (`MainStartPlugins` and the loop). For `ThemeWatch`: the main loop goes round (`WF_vars(MainLoop)`), as it
waits for nothing but the frame for 100 ms. `PluginHost` and `Menu` state no
liveness: plugins and users need not do anything.

Every property has a mutant: an operator headed `FAULT` next to the definition it
breaks. A mutated definition must make TLC find the property violated.

## Proofs

TLAPS proves, for every value of the constants that satisfies the assumptions:

| Theorem | Says |
|---|---|
| `DspThreads_proofs!TypeCorrect` | `Spec => []TypeOK` |
| `DspThreads_proofs!MutexesAreDisciplined` | a mutex is held exactly in its critical section |
| `DspThreads_proofs!PlansOutliveTransforms` | no destroyed plan is executed while the loop runs |
| `DspThreads_proofs!TeardownIsOrdered` | nothing is taken away from a running thread |
| `DspThreads_proofs!LufsResetIsAlone` | the unlocked `LUFS::reset` meets nobody |
| `DspThreads_proofs!StoppingIsFinal` | what was asked to stop begins nothing new |
| `RingBuffer_proofs!TypeCorrect` | positions stay inside of the buffer |
| `RingBuffer_proofs!OverrunIsBounded` | a store runs over by less than a vector, only after an odd block |
| `RingBuffer_proofs!RingIsWindow` | the ring implements `SampleWindow` until a vector crosses its end |
| `RingBuffer_proofs!FirIsContinuous` | with Pulse, the band-pass filters each sample once and in order |
| `RingBuffer_proofs!LufsCounts` | with Pulse, the loudness counts each sample of the blocks once, and a frame without a block skips none |
| `ConfigStore_proofs!TypeCorrect` | options are a complete configuration, whatever the file holds |
| `ConfigStore_proofs!RotationIsBackupLog` | the rotation implements `BackupLog`, cut short anywhere |
| `ConfigStore_proofs!NoChangeIsMissed` | an unread change is announced by an event or about to be read |
| `ConfigStore_proofs!WhatIsLoadedIsKept` | what was loaded last is in a backup, at every step |
| `WindowLayout_proofs!LayoutTypes` | places, windows, the running walk and the menu's drag keep their types |
| `WindowLayout_proofs!TreesStayTrees` | the heap is a set of trees after any sequence of drops, moves and reloads |
| `WindowLayout_proofs!NoMoveDoubles` | no drag and no move in the menu shows a visualizer once more, but a drop that is out of date |
| `WindowLayout_proofs!WindowsFollowTrees` | windows are open for trees only, and each tree has its entry |
| `WindowLayout_proofs!DropsKeepTrees` | a drop loses and doubles nothing: each tree shows what it showed |
| `WindowLayout_proofs!OnlyDropsBreakWalks` | the only splitter a walk loses is the parent of what is dropped; until then its reads are safe |
| `AudioEngine_proofs!TypeCorrect` | `init()` takes no call past its last |
| `AudioEngine_proofs!OneBackendHolds` | one backend is open, and nothing is left of another |
| `AudioEngine_proofs!NothingIsLeftHolds` | a program that ends has closed all it opened |
| `AudioEngine_proofs!StreamIsCurrentHolds` | the open stream is the configured one, unless a reload found nothing running |
| `AudioEngine_proofs!StreamSurvives` | a reload frees Pulse's stream only for another device, or as the first one |
| `PluginHost_proofs!TypeCorrect` | queues, passes, registry and layout keep their types |
| `PluginHost_proofs!HarmIsKnownHolds` | undefined behaviour comes in three known ways only |
| `PluginHost_proofs!UnreadIsPendingHolds` | an option of the file that memory lacks is about to be loaded, unreadable, or registered too late |
| `PluginHost_proofs!PluginLifeImplemented` | the passes implement the lifecycle of each plugin |
| `Menu_proofs!TypeCorrect` | options, copies, windows and clicks keep their types |
| `Menu_proofs!WindowsMatchShown` | menu and announcement are shown exactly while their windows exist |
| `Menu_proofs!MenuAnswers` | no widget out of sight keeps the clicks |
| `Menu_proofs!CopiesAreStored` | the plugins' page shows what the plugins get |
| `Menu_proofs!ClosingSaves` | a closed menu has saved what was chosen in it |
| `ThemeWatch_proofs!TypeCorrect` | descriptors, events and colours keep their types |
| `ThemeWatch_proofs!EditIsSeenHolds` | colours that differ from the watched file are about to be loaded |

`MutexDiscipline`, `StopIsFinal`, `OverrunBounded` and `OnlyDropsBreak` are
stated in their modules and proved, and no run checks them again.

Assumptions: `ConfigAssumption` (the options have the types the schema gives
them, and no option looks like an uninitialised static), `BoundAssumption`,
`RingAssumption` (the buffer is a whole number of vectors: 32768 and 4, or 1; a block may be
longer than the ring, as `sample_rate / fps_limit` can be, but `fps_limit` is at least 1 and below the rate),
`StoreAssumption` (at least three slots; the code has ten), `EngineAssumption` (WASAPI
is built alone, `CMakeLists.txt:88`; no device is called like an uninitialised static)
and `EngineBounds`, `HostAssumption` (finitely many built-in visualizers; host, plugins and nobody
are told apart), `MenuAssumption` (the pages are a sequence without repetition; what looks
like a value is the value itself or one that is offered), `ThemeWatchAssumption`
(finitely many themes), and `LayoutAssumption` (finitely many visualizers and splitters; nodes and roots
are told apart).

*Threads.* The properties are not inductive: that a plan exists when it is
executed depends on who holds the channel's mutex, and that on where main is
in `recreatePlans`. `IInv` adds where each mutex must be for every program
counter (`MutexDiscipline`, `Holders`), that plans exist outside of
`recreatePlans` and the cleanup (`PlansWhere`), which threads have ended at each
step of the cleanup (`JoinedBy`, `TornDownBy`, `StopWhere`, `Quiet`). One lemma per
group of actions shows the step; `StopIsFinal` is an action property and follows from the
program counters alone.

*Ring.* The only arithmetic the prover needs is `WrapOnce` (a position below two
buffers wraps at most once), and `OnGridFits`: a vector that starts at a
multiple of `Lanes` ends inside. `IInv` says that position and rest of the block
stay multiples as long as no block was odd; hence nothing ran over.
`StoreDelivers` shows that a store that does not run over is a step of
`SampleWindow`, by cases on whether the k-th most recent sample is new.

For the consumers, `CInv` says what they read and where: `Content` that the k-th most
recent sample is `k` cells behind the write position, `Phases` that the loudness is
behind by at most the one block that is being stored, and `FirPlace` that `lastWritePos`
is as far behind the write position as the last filtered sample is behind the last
stored one, unless the ring lapped it, however many frames left the filter out.

*Store.* For the rotation, `IInv` says that the slot a rename or the copy writes to
is free (`TargetIsFree`), that the loop begins at the last slot (`FromTheEnd`), and
that younger backups have lower numbers (`YoungestFirst`, `Dated`), gaps or not;
then removing the last slot forgets the oldest. `NInv` adds that only a file that
exists is watched and that a save neither rotates nor reads. `KInv` adds how far
the backup of the running configuration may have been shifted (`InReach`): no
operation rotates more than twice before it reads, which is why three slots are enough.

*Layout.* `LInv` says that the heap has the shape of trees (`Shape`), that the windows follow, and
that a frame of `walkTree` which still has to go down has a splitter (`Typed`). `Shape`
is stronger than what `TreeShape` says of each splitter: there is a rank, lower in a splitter than
in the one it is below (`Ranks`). Without it a cycle of splitters, cut off from
every root, would satisfy all the rest. The proof has four parts. (1) What `Visited`
computes: it recurs on the set of the splitters that were not passed yet, so it is a
function that exists (`RecursionExists`); the tree is in each closed set of places that
has its root (`TreeInduct`), it leaves nothing out (`TreeWhole`), and every node is in
exactly one tree (`InSomeTree`, `TreesApart`). Induction is by a least element
(`NatMin`, `SubsetMin`). (2) Each function of `window_manager.cpp` does one of five things
to the heap: `Put`, `Exchanged`, `Promoted`, `Grafted`, `Rebuilt`
(`RemovedCases`, `AddedCases`, `SplitAroundCases`). (3) For each of the five: the shape is kept
(`PromotedShape`, ...), which places are in which tree (`PromotedParts`, ...), and how often a
visualizer is shown (`PromotedCount`, ...), in a tree or in all places. (4) The steps:
`InsertedKeeps` is the drop on an edge, where one place less after the removal and one more after
the insertion make as many as before; `MovedTotal` a move in the menu, which adds first
and then removes from where the visualizer was picked up, so that `NotMore` holds when it still was there. Each of the functions also says
which splitter it destroys (`Frees`); with what a step of the walk may come to refer to
(`ReferredStep`), this bounds the finding of `layout_walk`: `WalkIsSafe` fails only when the
dropped visualizer was a child of a splitter that the walk had not left.

*Audio.* `OneBackend` speaks of the idle loop, and what is true then was decided many
calls earlier. `EngineInv` says for each job what may be open: at startup the backend
that is opened and PipeWire, if it threw before (`BootInv`); in a reload only the
backend that is opened again (`ReloadInv`); in the cleanup what its remaining part will
close (`QuitInv`). `AtOn` ties each call to its backend, `Belongings` says that what
runs has something to deliver from and how far a `cleanup()` has come, and
`UnbuiltInv` that what was not compiled in does nothing. The lemmas follow the code: no
step touches a backend it is not about (`CleanStep`); then one lemma for each way a
call can end (`OpenedStep`, `ThrowStep`, `ReturnStep`, `QuitStarts`).

*Plugins.* The invariants are `LibsInv` (which libraries are mapped, in each pass),
`VisInv` (whose visualizers the registry and the layout still know) and, for the
refinement, `LifeInv`: each plugin is in one place (`Placed`), a pass calls plugins of the
deque, each once (`PassOrder`), and the one that is being loaded is the last (`NewIsLast`). A step of the host is then a step of one plugin's life or a stutter.

*Menu.* The five properties hold each other up: `MenuInv` is their conjunction with two
facts: a shown menu has a copy of every plugin option (`CopyIsBuilt`), and what the user
chose last is in the copy and in memory, or in the copy alone while its slider is held,
and in the file once the menu is closed (`WantedIsKept`).

*Themes.* `EditIsSeen` follows from three facts: the path is the bare name of a theme
(`PathIsName`), a file that is open is the one the option names, as long as it was not
replaced (`OpenIsNamed`), and between loads the watch lies on the file and the colours
are that file's, unless an event is queued (`WatchIsOnFile`).

Only model-checked: the liveness properties (`ShutdownCompletes`, `KeepsRendering`,
`FrameAnalysed`, `EditsAreRead`, `PluginsAreTold`, `JobsComplete`, `LoadsEnd`), which rest
on fairness and are out of the prover's reach. Every invariant and every action property
that a passing run checks is proved, and so are the three refinements.

## Findings

* **The first reload does not rebuild** (`threads_stale_plans`). `recreatePlans`
  (`src/dsp.cpp:592`), `ConstantQ::regenerate` (`:411`) and `Lowpass::reconfigure`
  (`:282`) remember what they built in a static that their first call initialises
  with the options *after* the change. `README.md:107` promises live reload.
* **A drop destroys the splitter that is being walked** (`layout_walk`).
  `walkTree` (`src/window_manager.cpp:56`) reads `s->secondary` after the handler of
  `s->primary` returned; a drop of the first of two siblings on an edge has
  replaced `s` by then (`:583`, or `:504` where the sibling is promoted).
  `README.md:111-113` describes this drop.

Seen while reading and modelling, without a run that refutes a text of the
repository. *Threads and ring*:

* The FFT threads look up the spectrum analyzer (`src/dsp.cpp:722`, `:841`) in the registry's
  vector without a lock, while plugins that are started (`src/main.cpp:255`, after the DSP
  thread at `:238`) or called later may make it grow.
* `FFT::cleanup()` (`src/main.cpp:351`) frees the plans before the DSP thread is
  joined and without the mutexes, so an exit may crash before the plugins are stopped.
* `src/audio_engine.cpp:359` and `src/dsp.cpp:943` store a vector at `writePos` and wrap
  only the position: after a block that is not a whole number of vectors the store runs
  past the end of the ring (`OverrunIsBounded` says by how much). It needs no change of the
  options, only such a block.
* While Pulse is set up again, `read()` returns true without a block
  (`src/audio_engine.cpp:211`), and a block that was read is dropped when `running` was cleared
  meanwhile (`src/dsp.cpp:923`): the loudness counts the last block again.
* The plugin example reads "the latest sample" at `writePos` (`docs/PLUGINS.md:287`),
  which is the oldest one.

*Configuration and themes*:

* A configuration that is away at the moment `load()` watches it is never watched
  again (`src/config.cpp:519`, `:644`).
* A theme file that is away for a moment, or a misspelled `window.theme`, ends the
  program: `Theme::load` throws out of the main loop (`src/theme.cpp:57`).
* A theme that was renamed keeps its watch and sends no IN_IGNORED, other than the
  comment at `src/theme.cpp:252` says; edits of the new file of that name are not seen until the next
  load. Each load causes a second one; with the commented-out test of
  `:254` it would never end.
* A theme line with one component for an RGBA key writes through an end iterator (`:169`).

*Layout*:

* A hidden visualizer dropped on "+ Create new window" gets a tree and no window
  (`src/window_manager.cpp:656`, `:755`).
* A file that names an id twice is taken as it is (`src/config.cpp:252-260`, `:282-298`): the
  visualizer is shown in each of the places, in one tree or in several.
  `README.md:115` says "Only one instance of each visualizer ID may exist in the layout.",
  `docs/CONFIGURATION.md:449` "Only one instance of each visualizer ID may exist." `Reload`
  gets there in one step; `NeverDoubled` is about what drags and moves do before and after it.
* A visualizer that the file moved between pick-up and drop in the menu is shown
  twice, too (`OutOfDate`); a reload during a swap can leave one of the two dragging.
* `SDLWindow::deinit` destroys the shared context once for each window.

*Audio*:

* After one failed read of Pulse nothing is running (`src/audio_engine.cpp:218`), so
  neither the retries (`src/dsp.cpp:916`) nor a reload ask anybody.
* Three hangs. A refused PipeWire stream throws with the loop's lock held (`:508`). An exit
  before WASAPI's thread ran waits for it for ever (`:600`). When WASAPI's device goes away with a
  packet pending, the inner loop (`:614-677`) looks neither at `running` nor at the result
  of `GetNextPacketSize` (`:674`) and may spin for ever, and the join at `:792` with it. In a debug
  build the assertions of that thread abort instead; release builds have `-DNDEBUG`
  (`CMakeLists.txt:22-35`).
* WASAPI's mix format is freed again by every later `cleanup()` (`:793`); the menu reads
  PipeWire's device list without the lock (`:568`). The option `engine` is read at startup only.

*Plugins*:

* A plugin that registers and then fails its init leaves its visualizers in the
  registry, which are called and destroyed in the closed library (`src/plugin.cpp:184`;
  `docs/PLUGINS.md:37` says it is skipped).
* A plugin that saves in its init writes the defaults over the user's file, in
  its stop follows null pointers of the layout. The options of a plugin that was skipped
  leave the file at the next save, and so does a value that was never read because the
  option was registered after the load.
* `setPluginConfigOption` checks the type only; `docs/PLUGINS.md:196` says "invalid".

*Menu*:

* The detents of the plugins' page refer to a local copy of the option
  (`src/config_window.cpp:805`, `:841`); string options under a tick leak their copy.
* A click on a label of that page writes the copy back over a value that was
  reloaded meanwhile (`elsewhere`).
* Closing any window closes the menu and the announcement; `Q` in the main window
  with the menu open loses its unsaved edits; a drag of the list survives the menu.
* The popup says "Saved" also when the save failed. The request for updates has no
  timeout, and the exit waits for it.

## Not modelled

The arithmetic of transforms, filters and loudness, drawing (graphics, visualizers,
popups), shaders, the configuration schema (a compile-time table), the HTTP request of
the update check, the readers of the ring that only draw, WASAPI's silent packets, the
command line and signals. Of the configuration: the YAML of each field, `copyFiles`'
themes and fonts, a read that sees a file half-written, an `inotify_add_watch` that fails
although the file is there (of the themes as well), and the builds without inotify, which compare modification times. Of the layout: sizes, ratios and the drag of
a splitter. In the menu's run no window is destroyed by a reload of the layout
(`Extra` is empty); the theorems of `Menu_proofs` include it. Drawing makes up most of the remaining lines: it changes no state that
another part reads, and its numbers are beyond a model checker.

## Plan

Done: `DspThreads`, `RingBuffer` with `SampleWindow`, `ConfigStore` with
`BackupLog`, `WindowLayout`, `AudioEngine`, `PluginHost` with `PluginLife`, `Menu`, `ThemeWatch`,
their runs and proofs. Next, in this order:

1. `WindowLayout`: `updateBounds` and the drag of a splitter.
2. `ConstantQ::find` and the hover regions as pure operators against reference
   definitions.
