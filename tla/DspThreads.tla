------------------------------ MODULE DspThreads ------------------------------
(***************************************************************************)
(* The threads of pulse-visualizer and what they share.                    *)
(*                                                                         *)
(*   main   the render loop of main(), Config::reload and reconfigure(),   *)
(*          and the cleanup that follows the loop                          *)
(*   dsp    DSP::Threads::mainThread: reads audio, feeds the workers,      *)
(*          filters, measures loudness, publishes the frame                *)
(*   mid    DSP::Threads::FFTMain                                          *)
(*   side   DSP::Threads::FFTAlt                                           *)
(*                                                                         *)
(* Shared: the BoolSignals, the stop tokens, FFT::mutexMid, FFT::mutexSide *)
(* and LUFS::mutex, Config::options (which main changes without a lock),   *)
(* the FFTW plans and buffers, the Constant-Q kernels, the lowpass         *)
(* biquads, the ebur128 state and the visualizer registry.                 *)
(*                                                                         *)
(* Each thread has a program counter; a step is the code between two       *)
(* points where another thread could tell the difference.  A BoolSignal    *)
(* operation is one step (its mutex is held for a flag assignment only).   *)
(* A thread that touches memory another thread has freed, or is rebuilding,*)
(* may die with the process (crashed) or may get away with it: both are    *)
(* outcomes of the build.                                                  *)
(***************************************************************************)
EXTENDS Naturals

CONSTANTS
  Configs,     (* the option values a config file or the settings menu can give *)
  InitConfig,  (* the options Config::load read at startup                      *)
  NoKey,       (* a function-local static that was not initialised yet          *)
  MaxFrames,   (* bound: blocks the audio source delivers before it falls silent *)
  MaxChanges   (* bound: changes of the options in one run                       *)

(* size: fft.size; cqt: fft.cqt.enabled; bins: how many Constant-Q bins the *)
(* limits and the resolution give; lowpass: cutoff and order; mono: phosphor with a mono       *)
(* waveform, for which FFTAlt has nothing to do.                           *)
ASSUME ConfigAssumption ==
  /\ InitConfig \in Configs
  /\ \A c \in Configs : /\ c.size \in Nat \ {0}
                        /\ c.cqt \in BOOLEAN
                        /\ c.mono \in BOOLEAN
                        /\ <<c.size, c.cqt>> # NoKey
                        /\ c.bins \in Nat \ {0}
                        /\ c.bins # NoKey
                        /\ c.lowpass # NoKey

ASSUME BoundAssumption == MaxFrames \in Nat /\ MaxChanges \in Nat

Channel == {"mid", "side"}
Signal  == Channel \cup {"dataRdy"}
Mutex   == Channel \cup {"lufs"}
Thread  == Channel \cup {"main", "dsp"}
Nobody  == "nobody"
Table   == {"plans", "kernels", "biquads"}

VARIABLES
  mainPc,    \* where the main thread is
  dspPc,     \* where DSP::Threads::mainThread is
  fftPc,     \* where each FFT thread is
  sig,       \* the flag_ of each BoolSignal
  stop,      \* stop_requested() of each jthread
  holder,    \* which thread holds each mutex
  options,   \* Config::options
  last,      \* the statics that remember what each table was built from
  bufSize,   \* length of the FFTW buffers; 0 when plans and buffers are freed
  kernels,   \* ConstantQ::bins: how many Constant-Q kernels there are
  lufsState, \* LUFS::state is allocated
  registry,  \* VisualizerRegistry::visualizers still holds the builtins
  plugins,   \* pvPluginStop was not called yet and the libraries are mapped
  frame,     \* blocks read from the audio engine
  seen,      \* the last block each FFT thread began to analyse
  raw,       \* length of fftMidRaw and fftMidPhase, or of the side's
  smoothed,  \* length of fftMid, or fftSide
  changes,   \* how often the options changed
  crashed    \* a thread touched dead memory and took the process with it

control == <<mainPc, dspPc, fftPc>>
sync    == <<sig, stop, holder>>
config  == <<options, last, changes>>
memory  == <<bufSize, kernels, lufsState, registry, plugins>>
data    == <<frame, seen, raw, smoothed>>
vars    == <<control, sync, config, memory, data, crashed>>

-----------------------------------------------------------------------------
MainPcs == {"startPlugins", "events", "plans", "lockMid", "lockSide", "free", "alloc",
            "kernels", "rebuildKernels", "biquads", "rebuildBiquads", "lufs",
            "wait", "render", "requestStop", "fftCleanup", "join",
            "clearRegistry", "unloadPlugins", "done"}
DspPcs  == {"start", "top", "read", "signal", "filter", "lufsLock", "lufsUse",
            "publish", "lufsReset", "stopSide", "joinSide", "stopMid", "joinMid",
            "exited"}
FftPcs  == {"unborn", "wait", "check", "fill", "lock", "exec", "out", "cqt",
            "smooth", "exited"}

(* The cleanup after the loop; from AfterFftCleanup on, the plans are gone. *)
AfterFftCleanup == {"join", "clearRegistry", "unloadPlugins", "done"}
Cleanup == {"requestStop", "fftCleanup"} \cup AfterFftCleanup

TypeOK ==
  /\ mainPc \in MainPcs
  /\ dspPc \in DspPcs
  /\ fftPc \in [Channel -> FftPcs]
  /\ sig \in [Signal -> BOOLEAN]
  /\ stop \in [Channel \cup {"dsp"} -> BOOLEAN]
  /\ holder \in [Mutex -> Thread \cup {Nobody}]
  /\ options \in Configs
  /\ DOMAIN last = Table
  /\ bufSize \in Nat
  /\ kernels \in Nat
  /\ lufsState \in BOOLEAN
  /\ registry \in BOOLEAN
  /\ plugins \in BOOLEAN
  /\ frame \in 0..MaxFrames
  /\ seen \in [Channel -> 0..MaxFrames]
  /\ raw \in [Channel -> Nat]
  /\ smoothed \in [Channel -> Nat]
  /\ changes \in 0..MaxChanges
  /\ crashed \in BOOLEAN

(* main() has loaded the config, built the tables and started the DSP thread; *)
(* the plugins are not started yet.                                          *)
Init ==
  /\ mainPc = "startPlugins"
  /\ dspPc = "start"
  /\ fftPc = [c \in Channel |-> "unborn"]
  /\ sig = [s \in Signal |-> FALSE]
  /\ stop = [t \in Channel \cup {"dsp"} |-> FALSE]
  /\ holder = [m \in Mutex |-> Nobody]
  /\ options = InitConfig
  /\ last = [t \in Table |-> NoKey]
  /\ bufSize = InitConfig.size
  /\ kernels = InitConfig.bins
  /\ lufsState = TRUE
  /\ registry = TRUE
  /\ plugins = TRUE
  /\ frame = 0
  /\ seen = [c \in Channel |-> 0]
  /\ raw = [c \in Channel |-> 0]
  /\ smoothed = [c \in Channel |-> 0]
  /\ changes = 0
  /\ crashed = FALSE

-----------------------------------------------------------------------------
(* Steps of one thread's program counter, and of a mutex.  Threads only     *)
(* step in a process that is alive.                                         *)

Alive == ~crashed /\ UNCHANGED crashed

MainGoes(from, to) ==
  Alive /\ mainPc = from /\ mainPc' = to /\ UNCHANGED <<dspPc, fftPc>>

DspGoes(from, to) ==
  Alive /\ dspPc = from /\ dspPc' = to /\ UNCHANGED <<mainPc, fftPc>>

FftGoes(c, from, to) ==
  /\ Alive
  /\ fftPc[c] = from
  /\ fftPc' = [fftPc EXCEPT ![c] = to]
  /\ UNCHANGED <<mainPc, dspPc>>

Acquire(m, t) == holder[m] = Nobody /\ holder' = [holder EXCEPT ![m] = t]
Set(s)        == sig' = [sig EXCEPT ![s] = TRUE]

(* What a table is keyed by, as its static remembers it. *)
Key(t) == CASE t = "plans"   -> <<options.size, options.cqt>>
            [] t = "kernels" -> options.bins
            [] t = "biquads" -> options.lowpass

(* "static T last = <current option>": the first call initialises the      *)
(* static with the options as they are then, and finds nothing to do.      *)
UpToDate(t) == last[t] \in {NoKey, Key(t)}
Remember(t) == last' = [last EXCEPT ![t] = Key(t)]

-----------------------------------------------------------------------------
(* The main loop. *)

(* Plugin::startAll: pvPluginStart of each plugin, with the DSP thread at work. *)
MainStartPlugins ==
  /\ MainGoes("startPlugins", "events")
  /\ UNCHANGED <<sync, config, memory, data>>

(* Config::load has put other values in the options.  No lock is taken. *)
NewOptions ==
  /\ changes < MaxChanges
  /\ changes' = changes + 1
  /\ options' \in Configs

(* Config::reload(), at the head of the loop, found the file changed, or one *)
(* of the buttons "Load default" and "Restore latest" was clicked: load it,  *)
(* then reconfigure() the theme, the windows and the audio.  A missing theme *)
(* file or an audio engine that cannot be reopened throws, which ends the    *)
(* loop.                                                                     *)
MainReload ==
  /\ \/ MainGoes("events", "plans")
     \/ MainGoes("events", "requestStop")
  /\ NewOptions
  /\ UNCHANGED <<sync, last, memory, data>>

(* A tick of the settings menu writes its option when clicked, a slider when *)
(* it is drawn while dragged.                                                *)
MainMenuEdit ==
  /\ \/ MainGoes("events", "events")
     \/ MainGoes("render", "render")
  /\ NewOptions
  /\ UNCHANGED <<sync, last, memory, data>>

(* The head of FFT::recreatePlans, ConstantQ::regenerate and               *)
(* Lowpass::reconfigure.                                                   *)
MainCheck(t, rebuild, skip) ==
  /\ IF UpToDate(t) THEN MainGoes(t, skip) ELSE MainGoes(t, rebuild)
  /\ Remember(t)
  /\ UNCHANGED <<sync, options, changes, memory, data>>

MainCheckTables ==
  \/ MainCheck("plans", "lockMid", "kernels")
  \/ MainCheck("kernels", "rebuildKernels", "biquads")
  \/ MainCheck("biquads", "rebuildBiquads", "lufs")

MainLockMid ==
  /\ MainGoes("lockMid", "lockSide")
  /\ Acquire("mid", "main")
  /\ UNCHANGED <<sig, stop, config, memory, data>>

(* FAULT: recreatePlans guards only the mid plan. *)
MainSkipsLockSide ==
  /\ MainGoes("lockSide", "free")
  /\ UNCHANGED <<sync, config, memory, data>>

MainLockSide ==
  /\ MainGoes("lockSide", "free")
  /\ Acquire("side", "main")
  /\ UNCHANGED <<sig, stop, config, memory, data>>

(* FFT::cleanup inside recreatePlans. *)
MainFree ==
  /\ MainGoes("free", "alloc")
  /\ bufSize' = 0
  /\ UNCHANGED <<sync, config, kernels, lufsState, registry, plugins, data>>

(* FFT::init; the lock guards go out of scope. *)
MainAlloc ==
  /\ MainGoes("alloc", "kernels")
  /\ bufSize' = options.size
  /\ holder' = [holder EXCEPT !["mid"] = Nobody, !["side"] = Nobody]
  /\ UNCHANGED <<sig, stop, config, kernels, lufsState, registry, plugins, data>>

(* The kernels, or the biquads, are resized and refilled without a lock. *)
MainRebuilt ==
  /\ \/ MainGoes("rebuildKernels", "biquads") /\ kernels' = options.bins
     \/ MainGoes("rebuildBiquads", "lufs") /\ UNCHANGED kernels
  /\ UNCHANGED <<sync, config, bufSize, lufsState, registry, plugins, data>>

(* LUFS::init: destroy and re-create the state under LUFS::mutex. *)
MainLufsInit ==
  /\ MainGoes("lufs", "events")
  /\ holder["lufs"] = Nobody
  /\ lufsState' = TRUE
  /\ UNCHANGED <<sync, config, bufSize, kernels, registry, plugins, data>>

(* Events and signals are polled; one of them may end the loop. *)
MainEvents ==
  /\ \/ MainGoes("events", "wait")
     \/ MainGoes("events", "requestStop")
  /\ UNCHANGED <<sync, config, memory, data>>

(* dataRdy.wait_for(100ms): returns with the flag taken, or after the timeout. *)
MainWait ==
  /\ MainGoes("wait", "render")
  /\ sig' = [sig EXCEPT !["dataRdy"] = FALSE]
  /\ UNCHANGED <<stop, holder, config, memory, data>>

(* Drawing may throw, which ends the loop too. *)
MainRender ==
  /\ \/ MainGoes("render", "events")
     \/ MainGoes("render", "requestStop")
  /\ UNCHANGED <<sync, config, memory, data>>

-----------------------------------------------------------------------------
(* The cleanup after the loop. *)

(* Windows, fonts and the audio engine go next. *)
MainRequestStop ==
  /\ MainGoes("requestStop", "fftCleanup")
  /\ stop' = [stop EXCEPT !["dsp"] = TRUE]
  /\ UNCHANGED <<sig, holder, config, memory, data>>

(* FFT::cleanup, here without the mutexes and with the workers running. *)
MainFftCleanup ==
  /\ MainGoes("fftCleanup", "join")
  /\ bufSize' = 0
  /\ UNCHANGED <<sync, config, kernels, lufsState, registry, plugins, data>>

(* FAULT: the DSP thread is not joined before its surroundings go. *)
MainDetaches ==
  /\ MainGoes("join", "clearRegistry")
  /\ UNCHANGED <<sync, config, memory, data>>

MainJoin ==
  /\ MainGoes("join", "clearRegistry")
  /\ dspPc = "exited"
  /\ UNCHANGED <<sync, config, memory, data>>

MainClearRegistry ==
  /\ MainGoes("clearRegistry", "unloadPlugins")
  /\ registry' = FALSE
  /\ UNCHANGED <<sync, config, bufSize, kernels, lufsState, plugins, data>>

(* Plugin::unloadAll: pvPluginStop, then dlclose. *)
MainUnloadPlugins ==
  /\ MainGoes("unloadPlugins", "done")
  /\ plugins' = FALSE
  /\ UNCHANGED <<sync, config, bufSize, kernels, lufsState, registry, data>>

-----------------------------------------------------------------------------
(* DSP::Threads::mainThread. *)

(* LUFS::init, then the two FFT threads are started. *)
DspStart ==
  /\ Alive
  /\ dspPc = "start"
  /\ holder["lufs"] = Nobody
  /\ dspPc' = "top"
  /\ fftPc' = [c \in Channel |-> "wait"]
  /\ lufsState' = TRUE
  /\ UNCHANGED <<mainPc, sync, config, bufSize, kernels, registry, plugins, data>>

DspTop ==
  /\ IF stop["dsp"] THEN DspGoes("top", "lufsReset") ELSE DspGoes("top", "read")
  /\ UNCHANGED <<sync, config, memory, data>>

(* AudioEngine::read gives a block.  It still may after AudioEngine::cleanup, *)
(* when the call had begun before and the backend's signal was set.          *)
DspRead ==
  /\ DspGoes("read", "signal")
  /\ frame < MaxFrames
  /\ frame' = frame + 1
  /\ UNCHANGED <<sync, config, memory, seen, raw, smoothed>>

(* FAULT: the thread gives up when a read fails. *)
DspGivesUp ==
  /\ DspGoes("read", "lufsReset")
  /\ UNCHANGED <<sync, config, memory, data>>

(* AudioEngine::read fails: warn, sleep 100 ms, retry. *)
DspReadFails ==
  /\ DspGoes("read", "top")
  /\ UNCHANGED <<sync, config, memory, data>>

(* Nobody can tell the two signals apart in time. *)
DspSignal ==
  /\ DspGoes("signal", "filter")
  /\ sig' = [s \in Signal |-> s \in Channel \/ sig[s]]
  /\ UNCHANGED <<stop, holder, config, memory, data>>

(* FIR::process and Lowpass::process. *)
DspFilter ==
  /\ DspGoes("filter", "lufsLock")
  /\ UNCHANGED <<sync, config, memory, data>>

DspLufsLock ==
  /\ DspGoes("lufsLock", "lufsUse")
  /\ Acquire("lufs", "dsp")
  /\ UNCHANGED <<sig, stop, config, memory, data>>

(* LUFS::addSamples and process (nothing without a state), then unlock. *)
DspLufsUse ==
  /\ DspGoes("lufsUse", "publish")
  /\ holder' = [holder EXCEPT !["lufs"] = Nobody]
  /\ UNCHANGED <<sig, stop, config, memory, data>>

(* Peak, RMS, dataRdy.set(), sleep to the end of the frame. *)
DspPublish ==
  /\ DspGoes("publish", "top")
  /\ Set("dataRdy")
  /\ UNCHANGED <<stop, holder, config, memory, data>>

(* LUFS::reset takes no lock. *)
DspLufsReset ==
  /\ DspGoes("lufsReset", "stopSide")
  /\ lufsState' = FALSE
  /\ UNCHANGED <<sync, config, bufSize, kernels, registry, plugins, data>>

(* FAULT: a plain thread is joined without asking it to stop. *)
DspWakesWorker ==
  \E c \in Channel :
    /\ \/ c = "side" /\ DspGoes("stopSide", "joinSide")
       \/ c = "mid"  /\ DspGoes("stopMid", "joinMid")
    /\ Set(c)
    /\ UNCHANGED <<stop, holder, config, memory, data>>

(* ~jthread, in reverse order of declaration: request_stop, whose callback *)
(* sets the worker's signal, then join.                                    *)
DspStopWorker ==
  \E c \in Channel :
    /\ \/ c = "side" /\ DspGoes("stopSide", "joinSide")
       \/ c = "mid"  /\ DspGoes("stopMid", "joinMid")
    /\ stop' = [stop EXCEPT ![c] = TRUE]
    /\ Set(c)
    /\ UNCHANGED <<holder, config, memory, data>>

DspJoinWorker ==
  /\ \/ DspGoes("joinSide", "stopMid") /\ fftPc["side"] = "exited"
     \/ DspGoes("joinMid", "exited") /\ fftPc["mid"] = "exited"
  /\ UNCHANGED <<sync, config, memory, data>>

-----------------------------------------------------------------------------
(* DSP::Threads::FFTMain and FFTAlt. *)

(* FAULT: a worker takes a timeout for the end. *)
FftWaitGivesUp(c) ==
  /\ \/ sig[c] /\ FftGoes(c, "wait", "check")
     \/ ~sig[c] /\ FftGoes(c, "wait", "exited")
  /\ sig' = [sig EXCEPT ![c] = FALSE]
  /\ UNCHANGED <<stop, holder, config, memory, data>>

(* wait_for(100ms), whose result is ignored: a timeout runs the frame too. *)
FftWait(c) ==
  /\ FftGoes(c, "wait", "check")
  /\ sig' = [sig EXCEPT ![c] = FALSE]
  /\ UNCHANGED <<stop, holder, config, memory, data>>

FftExit(c) ==
  /\ FftGoes(c, "check", "exited")
  /\ stop[c]
  /\ UNCHANGED <<sync, config, memory, data>>

(* Only FFTAlt skips, when nothing will show its channel. *)
Skips(c) == c = "side" /\ options.mono

FftSkip(c) ==
  /\ FftGoes(c, "check", "wait")
  /\ ~stop[c] /\ Skips(c)
  /\ UNCHANGED <<sync, config, memory, data>>

(* The length of the spectrum. *)
Length == IF options.cqt THEN kernels ELSE options.size

(* FAULT: the analysis is dated one block ahead. *)
FftBeginTooNew(c) ==
  /\ FftGoes(c, "check", IF options.cqt THEN "cqt" ELSE "fill")
  /\ ~stop[c] /\ ~Skips(c)
  /\ seen' = [seen EXCEPT ![c] = frame + 1]
  /\ raw' = [raw EXCEPT ![c] = Length]
  /\ UNCHANGED <<sync, config, memory, frame, smoothed>>

(* The vectors of magnitudes and phases get the length of the spectrum, with *)
(* no lock: main may be drawing from them.                                   *)
FftBegin(c) ==
  /\ FftGoes(c, "check", IF options.cqt THEN "cqt" ELSE "fill")
  /\ ~stop[c] /\ ~Skips(c)
  /\ seen' = [seen EXCEPT ![c] = frame]
  /\ raw' = [raw EXCEPT ![c] = Length]
  /\ UNCHANGED <<sync, config, memory, frame, smoothed>>

(* The window function is written to FFT::in: no lock. *)
FftFill(c) ==
  /\ FftGoes(c, "fill", "lock")
  /\ UNCHANGED <<sync, config, memory, data>>

FftLock(c) ==
  /\ FftGoes(c, "lock", "exec")
  /\ Acquire(c, c)
  /\ UNCHANGED <<sig, stop, config, memory, data>>

(* fftwf_execute needs a plan: a null one is dereferenced. *)
FftNoPlan(c) ==
  /\ ~crashed
  /\ fftPc[c] = "exec"
  /\ bufSize = 0
  /\ crashed' = TRUE
  /\ UNCHANGED <<control, sync, config, memory, data>>

(* FAULT: the mutex is not released after the transform. *)
FftExecuteKeepsLock(c) ==
  /\ FftGoes(c, "exec", "out")
  /\ bufSize # 0
  /\ UNCHANGED <<sync, config, memory, data>>

FftExecute(c) ==
  /\ FftGoes(c, "exec", "out")
  /\ bufSize # 0
  /\ holder' = [holder EXCEPT ![c] = Nobody]
  /\ UNCHANGED <<sig, stop, config, memory, data>>

(* Magnitudes and phases are read from FFT::out, or ConstantQ::compute has *)
(* walked the kernels: no lock.  FFTMain finds the pitch.                  *)
FftSpectrum(c) ==
  /\ \/ FftGoes(c, "out", "smooth")
     \/ FftGoes(c, "cqt", "smooth")
  /\ UNCHANGED <<sync, config, memory, data>>

(* Smoothing (taken as enabled) resizes the smoothed magnitudes, which main  *)
(* may be drawing, and dereferences the registry's "spectrum_analyzer".      *)
FftSmooth(c) ==
  /\ FftGoes(c, "smooth", "wait")
  /\ smoothed' = [smoothed EXCEPT ![c] = raw[c]]
  /\ UNCHANGED <<sync, config, memory, frame, seen, raw>>

-----------------------------------------------------------------------------
(* Memory that is gone, too short, or being rebuilt under a thread's feet. *)

(* registerVisualizer is in the hands of the plugins: whenever main may be in *)
(* one of their functions, the registry may grow and move, with no lock.     *)
Registering == mainPc \in {"startPlugins", "events", "render"}

FftExposed(c) ==
  \/ fftPc[c] \in {"fill", "out"} /\ options.size > bufSize
  \/ fftPc[c] = "out" /\ options.size > raw[c]
  \/ fftPc[c] = "cqt" /\ (mainPc = "rebuildKernels" \/ kernels > raw[c])
  \/ fftPc[c] = "smooth" /\ (Registering \/ ~registry)

(* The vectors main draws from are about to be reallocated. *)
Resizing(c) ==
  \/ fftPc[c] = "check" /\ ~stop[c] /\ ~Skips(c) /\ raw[c] # Length
  \/ fftPc[c] = "smooth" /\ smoothed[c] # raw[c]

DrawExposed == mainPc = "render" /\ \E c \in Channel : Resizing(c)

(* A vector of samples stored near the end of the ring runs past it (see     *)
(* RingBuffer): with Pulse it is this thread that stores the block it has    *)
(* read, with the other backends a thread of theirs, until the cleanup of    *)
(* the audio engine.                                                         *)
StoreExposed == dspPc = "signal" \/ mainPc \notin Cleanup \ {"requestStop"}

DspExposed == dspPc = "filter" /\ mainPc = "rebuildBiquads"

Fault ==
  /\ ~crashed
  /\ (DrawExposed \/ StoreExposed \/ DspExposed \/ \E c \in Channel : FftExposed(c))
  /\ crashed' = TRUE
  /\ UNCHANGED <<control, sync, config, memory, data>>

-----------------------------------------------------------------------------
MainStep ==
  \/ MainStartPlugins \/ MainCheckTables
  \/ MainFree \/ MainAlloc \/ MainRebuilt
  \/ MainEvents \/ MainWait \/ MainRender
  \/ MainRequestStop \/ MainFftCleanup
  \/ MainJoin \/ MainClearRegistry \/ MainUnloadPlugins

MainLock == MainLockMid \/ MainLockSide \/ MainLufsInit

DspStep ==
  \/ DspTop \/ DspRead \/ DspReadFails \/ DspSignal \/ DspFilter
  \/ DspLufsUse \/ DspPublish \/ DspLufsReset \/ DspStopWorker
  \/ DspJoinWorker

DspLock == DspStart \/ DspLufsLock

FftStep(c) ==
  \/ FftWait(c) \/ FftExit(c) \/ FftSkip(c) \/ FftBegin(c) \/ FftFill(c)
  \/ FftExecute(c) \/ FftNoPlan(c) \/ FftSpectrum(c) \/ FftSmooth(c)

(* The process has ended. *)
Ended == mainPc = "done" \/ crashed

Stopped == Ended /\ UNCHANGED vars

Next ==
  \/ MainStep \/ MainLock \/ MainReload \/ MainMenuEdit
  \/ DspStep \/ DspLock
  \/ \E c \in Channel : FftStep(c) \/ FftLock(c)
  \/ Fault
  \/ Stopped

(* Every thread keeps being scheduled, and a thread that keeps asking for a *)
(* mutex gets it: the holders release it within a frame and sleep in        *)
(* between.  Nothing is assumed of reloads, edits, events or faults.        *)
Fairness ==
  /\ SF_vars(MainStep \/ MainLock)
  /\ SF_vars(DspStep \/ DspLock)
  /\ \A c \in Channel : SF_vars(FftStep(c) \/ FftLock(c))

Spec == Init /\ [][Next]_vars
FairSpec == Spec /\ Fairness

-----------------------------------------------------------------------------
(* Properties. *)

(* A mutex is held exactly by the thread inside its critical section: no   *)
(* path through the code leaves one locked, or unlocks another's.          *)
MutexDiscipline ==
  /\ \A c \in Channel : holder[c] = c <=> fftPc[c] = "exec"
  /\ holder["mid"] = "main" <=> mainPc \in {"lockSide", "free", "alloc"}
  /\ holder["side"] = "main" <=> mainPc \in {"free", "alloc"}
  /\ holder["lufs"] = "dsp" <=> dspPc = "lufsUse"

(* While the loop runs, fftwf_execute always finds a plan: recreatePlans    *)
(* destroys and rebuilds the plans under both mutexes.  (The FFT::cleanup   *)
(* after the loop takes neither.)                                           *)
ExecutesLivePlan ==
  \A c \in Channel :
    fftPc[c] = "exec" /\ mainPc \notin AfterFftCleanup => bufSize # 0

(* Cleanup takes things away only from threads that have ended: the         *)
(* registry the FFT threads dereference, and the plugin libraries whose     *)
(* visualizers the registry owns, go after every DSP thread was joined, in  *)
(* this order.                                                              *)
TeardownOrder ==
  /\ dspPc = "exited" => \A c \in Channel : fftPc[c] = "exited"
  /\ ~registry => dspPc = "exited"
  /\ ~plugins => ~registry

(* LUFS::reset frees the ebur128 state without LUFS::mutex.  That is sound  *)
(* because reconfigure() can no longer be inside LUFS::init by then, the    *)
(* DSP thread itself no longer uses the state, and nobody allocates it      *)
(* again: it is not leaked at exit.                                         *)
LufsReset == {"lufsReset", "stopSide", "joinSide", "stopMid", "joinMid", "exited"}
LufsResetAlone ==
  dspPc \in LufsReset =>
    /\ holder["lufs"] = Nobody
    /\ mainPc \in Cleanup
    /\ dspPc # "lufsReset" => ~lufsState

(* Once a step of the cleanup was taken, nothing goes back to the loop and  *)
(* no DSP thread outlives a stop request for more than the frame it is in:  *)
(* a worker asked to stop begins no new analysis.                           *)
StopIsFinal ==
  [][/\ mainPc \in Cleanup => mainPc' \in Cleanup
     /\ stop["dsp"] /\ dspPc = "top" => dspPc' \in LufsReset \cup {"top"}
     /\ \A c \in Channel : stop[c] /\ fftPc[c] = "check"
                             => fftPc'[c] \in {"check", "exited"}]_vars

(* A request to end ends the process, whatever the workers were doing.      *)
ShutdownCompletes == mainPc \in Cleanup ~> Ended

(* Every block that was read reaches the workers' analysis (that block or a *)
(* later one), however the signals of several blocks and the timeouts fall, *)
(* unless the channel is not shown or the process is ending.                *)
FrameAnalysed ==
  \A c \in Channel :
    seen[c] < frame ~> seen[c] = frame \/ stop["dsp"] \/ crashed \/ Skips(c)

(* The render loop never waits for ever: not for audio, nor for a mutex.    *)
KeepsRendering == []<>(mainPc = "render" \/ mainPc \in Cleanup \/ crashed)

(* "Theme and config changes reload live": once recreatePlans has returned, *)
(* the FFT buffers have the configured length.                              *)
PlansFollowConfig == mainPc = "kernels" => bufSize = options.size

=============================================================================
