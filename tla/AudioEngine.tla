----------------------------- MODULE AudioEngine -----------------------------
(***************************************************************************)
(* The audio engine: three backends of which one delivers.                 *)
(*                                                                         *)
(*   pulse     a stream that the DSP thread reads itself, and blocks in    *)
(*   pipewire  a thread loop whose callbacks fill the ring                 *)
(*   wasapi    a thread of the program that fills the ring                 *)
(*                                                                         *)
(* Main opens a backend at startup, replaces its stream when a reload      *)
(* changed the device (or rate or frame rate, which take the same way) and *)
(* closes everything at exit.  init() and cleanup() are sequences of calls *)
(* to a server; each call is a step, and each may fail.  `at` and `step`   *)
(* say which call is next, `on` whose it is, `job` for whom.               *)
(***************************************************************************)
EXTENDS Naturals, Sequences

CONSTANTS
  Builds,      (* sets of backends that were compiled in together       *)
  Devices,     (* the devices that are plugged in                       *)
  Wishes,      (* values of audio.device in a configuration             *)
  MaxReloads,  (* bound: reloads of the configuration                   *)
  MaxFaults    (* bound: calls that fail, streams that break            *)

Backend  == {"pulse", "pipewire", "wasapi"}
Callback == {"pipewire", "wasapi"}
Default  == "default"
NoDevice == "no device"      \* statics of reconfigure(), and streams never opened

(* Windows, and only Windows, has WASAPI, and neither of the two servers. *)
ASSUME EngineAssumption ==
  /\ Builds \subseteq (SUBSET Backend) \ {{}}
  /\ \A bs \in Builds : "wasapi" \in bs => bs = {"wasapi"}
  /\ NoDevice \notin Wishes \cup Devices

ASSUME EngineBounds == MaxReloads \in Nat /\ MaxFaults \in Nat

(* What toType makes of the option. *)
Engine  == Backend \cup {"auto"}
Options == [engine : Engine, device : Wishes]

VARIABLES
  built,       \* the backends of this build
  options,     \* Config::options.audio, with the engine that init() made of it
  job,         \* what main is doing
  at,          \* the next call of init() or cleanup()
  on,          \* the backend whose call that is
  step,        \* how far init() has come
  next,        \* where cleanup() returns to
  initialized, \* initialized of each backend
  running,     \* running of each backend
  last,        \* lastDevice of each reconfigure()
  opened,      \* the option each stream was opened with
  target,      \* the device each stream was connected to
  held,        \* what PipeWire and WASAPI keep open
  paStream,    \* Pulse's stream: a null pointer, open, or freed and not null
  known,       \* PipeWire's availableDevices
  locked,      \* main holds PipeWire's loop lock
  waThread,    \* wasapiThread: in its loop, or with a packet in the inner one
  wfx,         \* WASAPI's mix format: null, allocated, or freed and not null
  gone,        \* the device of WASAPI's client was invalidated
  dspPc,       \* where the DSP thread is in read()
  readSig,     \* the readSig of the callback backend that was built
  reloads, faults,
  failed,      \* history: what kind of call failed
  missed,      \* history: the last reload found no running backend
  harm         \* history: undefined behaviour that was met

given   == <<built, options>>
control == <<job, at, on, step, next>>
flags   == <<initialized, running>>
ask     == <<opened, target>>
pw      == <<held, known, locked>>
wa      == <<waThread, wfx, gone>>
dsp     == <<dspPc, readSig>>
counts  == <<reloads, faults, failed, missed>>
vars == <<given, control, flags, last, ask, paStream, pw, wa, dsp, counts, harm>>

(* The calls of each init() that take something, in their order. *)
Calls == [pulse    |-> <<"stream">>,
          pipewire |-> <<"loop", "ctx", "core", "thread", "registry", "stream", "link">>,
          wasapi   |-> <<"com", "device", "client", "format", "capture", "event">>]
Kept  == [pipewire |-> {"loop", "ctx", "core", "thread", "registry", "stream", "link"},
          wasapi   |-> {"device", "client", "capture"}]
TypeOK ==
  /\ built \in Builds
  /\ options \in Options
  /\ job \in {"boot", "idle", "list", "reload", "quit", "ended", "died"}
  /\ at \in {"open", "wait", "clean", "null", "stop", "free", "join", "none"}
  /\ on \in Backend
  /\ step \in 1 .. 7
  /\ next \in {"open", "throw", "done", "quit"}
  /\ initialized \in [Backend -> BOOLEAN]
  /\ running \in [Backend -> BOOLEAN]
  /\ last \in [Backend -> Wishes \cup {NoDevice}]
  /\ opened \in [Backend -> Wishes \cup {NoDevice}]
  /\ target \in [Backend -> Devices \cup {Default, NoDevice}]
  /\ held \in [Callback -> SUBSET (Kept["pipewire"] \cup Kept["wasapi"])]
  /\ paStream \in {"null", "open", "freed"}
  /\ known \subseteq Devices
  /\ locked \in BOOLEAN
  /\ waThread \in {"none", "created", "loop", "packet", "ended"}
  /\ wfx \in {"null", "live", "freed"}
  /\ gone \in BOOLEAN
  /\ dspPc \in {"off", "idle", "chosen", "inside", "waiting", "ended"}
  /\ readSig \in BOOLEAN
  /\ reloads \in 0 .. MaxReloads
  /\ faults \in 0 .. MaxFaults
  /\ failed \subseteq {"opening", "refused stream", "later"}
  /\ missed \in BOOLEAN
  /\ harm \subseteq {"readFreed", "freedTwice", "listMoved"}

(* An engine that was not compiled in becomes auto, and auto takes WASAPI on *)
(* Windows, else PipeWire, else Pulse.                                       *)
Effective(e) == IF e \in built THEN e ELSE "auto"
FirstTry(e)  == IF e # "auto" THEN e
                ELSE IF "wasapi" \in built THEN "wasapi"
                ELSE IF "pipewire" \in built THEN "pipewire" ELSE "pulse"

(* Auto tries Pulse when PipeWire's init throws. *)
HasFallback(b) == /\ options.engine = "auto"
                  /\ b = "pipewire"
                  /\ "pulse" \in built

(* FAULT: a device is taken to be there because it was asked for. *)
FoundAny(wish, list) == wish

(* find(): a name that is not listed falls back to the system's default. *)
Found(wish, list) == IF wish \in list THEN wish ELSE Default

Init ==
  /\ built \in Builds
  /\ \E o \in Options : options = [o EXCEPT !.engine = Effective(o.engine)]
  /\ job = "boot" /\ at = "open" /\ on = FirstTry(options.engine) /\ step = 1 /\ next = "done"
  /\ initialized = [b \in Backend |-> FALSE]
  /\ running = [b \in Backend |-> FALSE]
  /\ last = [b \in Backend |-> NoDevice]
  /\ opened = [b \in Backend |-> NoDevice]
  /\ target = [b \in Backend |-> NoDevice]
  /\ held = [b \in Callback |-> {}]
  /\ paStream = "null" /\ known = {} /\ locked = FALSE
  /\ waThread = "none" /\ wfx = "null" /\ gone = FALSE
  /\ dspPc = "off" /\ readSig = FALSE
  /\ reloads = 0 /\ faults = 0 /\ failed = {} /\ missed = FALSE /\ harm = {}

-----------------------------------------------------------------------------
(* Control flow of main.                                                    *)

Alive == job \notin {"ended", "died"}

(* init() of a backend begins with the cleanup of what it had opened. *)
BeginInit(b) ==
  /\ on' = b
  /\ step' = 1
  /\ IF initialized[b] THEN at' = "clean" /\ next' = "open"
                       ELSE at' = "open" /\ next' = next

(* The audio engine is ready: at startup, main starts the DSP thread. *)
Done ==
  /\ job' = "idle"
  /\ at' = "none"
  /\ dspPc' = IF job = "boot" THEN "idle" ELSE dspPc
  /\ UNCHANGED <<on, step, next>>

(* The main loop is left, and AudioEngine::cleanup() begins. *)
CleanUp ==
  /\ job' = "quit"
  /\ at' = "clean" /\ next' = "quit" /\ step' = step
  /\ on' = IF "pulse" \in built THEN "pulse"
           ELSE IF "pipewire" \in built THEN "pipewire" ELSE "wasapi"

(* An exception of init(): caught by auto, by the try of the main loop, *)
(* or, at startup, by nobody.                                           *)
Throw ==
  IF job = "boot" /\ HasFallback(on)
    THEN BeginInit("pulse") /\ job' = job
  ELSE IF job = "boot"
    THEN job' = "died" /\ at' = "none" /\ UNCHANGED <<on, step, next>>
  ELSE CleanUp

(* FAULT: what the other backend had begun to open stays. *)
OpenedBesides == Done

(* Pulse or PipeWire was opened at startup: the other one is cleaned up. *)
Opened ==
  IF job = "boot" /\ {"pulse", "pipewire"} \subseteq built
    THEN /\ on' = IF on = "pulse" THEN "pipewire" ELSE "pulse"
         /\ at' = "clean" /\ next' = "done"
         /\ UNCHANGED <<job, step, dspPc>>
    ELSE Done

(* FAULT: what was not opened completely is not cleaned up. *)
ClosesNextIfOpen == on = "pulse" /\ "pipewire" \in built /\ initialized["pipewire"]

(* AudioEngine::cleanup() closes Pulse, then PipeWire, opened or not. *)
ClosesNext == on = "pulse" /\ "pipewire" \in built

(* The end of a backend's cleanup(). *)
Return ==
  CASE next = "open"  -> at' = "open" /\ step' = 1 /\ UNCHANGED <<job, on, next, dspPc>>
    [] next = "throw" -> Throw /\ UNCHANGED dspPc
    [] next = "done"  -> Done
    [] next = "quit"  ->
         /\ IF ClosesNext
              THEN on' = "pipewire" /\ at' = "clean"
              ELSE on' = on /\ at' = "none"
         /\ UNCHANGED <<job, step, next, dspPc>>

(* A call fails. *)
Fails(kind) ==
  /\ faults < MaxFaults
  /\ faults' = faults + 1
  /\ failed' = failed \cup {kind}
  /\ UNCHANGED <<reloads, missed>>

-----------------------------------------------------------------------------
(* Pulse.                                                                   *)

PaOpen ==
  /\ at = "open" /\ on = "pulse"
  /\ paStream' = "open"
  /\ opened' = [opened EXCEPT !["pulse"] = options.device]
     \* the server lists all its devices, or the context failed and none
  /\ \E list \in {Devices, {}} :
       target' = [target EXCEPT !["pulse"] = Found(options.device, list)]
  /\ initialized' = [initialized EXCEPT !["pulse"] = TRUE]
  /\ running' = [running EXCEPT !["pulse"] = TRUE]
  /\ missed' = FALSE
  /\ Opened
  /\ UNCHANGED <<given, last, pw, wa, readSig, reloads, faults, failed, harm>>

PaFails ==
  /\ at = "open" /\ on = "pulse"
  /\ Fails("opening")
  /\ paStream' = "null"
  /\ Throw
  /\ UNCHANGED <<given, flags, last, ask, pw, wa, dsp, harm>>

(* cleanup() frees the stream, the DSP thread in it or not, ... *)
PaFree ==
  /\ at = "clean" /\ on = "pulse"
  /\ at' = "null"
  /\ paStream' = IF paStream = "open" THEN "freed" ELSE paStream
  /\ harm' = IF paStream = "open" /\ dspPc = "inside"
               THEN harm \cup {"readFreed"} ELSE harm
  /\ UNCHANGED <<given, job, on, step, next, flags, last, ask, pw, wa, dsp, counts>>

(* ... and forgets it. *)
PaNull ==
  /\ at = "null"
  /\ paStream' = "null"
  /\ initialized' = [initialized EXCEPT !["pulse"] = FALSE]
  /\ running' = [running EXCEPT !["pulse"] = FALSE]
  /\ Return
  /\ UNCHANGED <<given, last, ask, pw, wa, readSig, counts, harm>>

-----------------------------------------------------------------------------
(* PipeWire.                                                                *)

(* The stream is made and connected under one lock of the loop. *)
PwTakes ==
  LET call == Calls["pipewire"][step] IN
  /\ at = "open" /\ on = "pipewire"
  /\ held' = [held EXCEPT !["pipewire"] = @ \cup {call}]
  /\ known' = IF call = "registry" THEN {} ELSE known
  /\ locked' = (call = "stream")
  /\ IF call = "link"
       THEN /\ at' = "wait" /\ step' = step
            /\ opened' = [opened EXCEPT !["pipewire"] = options.device]
            /\ target' = [target EXCEPT !["pipewire"] = Found(options.device, known)]
       ELSE /\ at' = at /\ step' = step + 1
            /\ UNCHANGED <<opened, target>>
  /\ UNCHANGED <<given, job, on, next, flags, last, paStream, wa, dsp, counts, harm>>

(* FAULT: so does a refused connection. *)
KeepsLockMore(call) == call \in {"stream", "link"}

(* A refused stream leaves the loop's lock behind; a refused connection does not. *)
KeepsLock(call) == call = "stream"

PwFails ==
  LET call == Calls["pipewire"][step] IN
  /\ at = "open" /\ on = "pipewire"
  /\ call # "registry"
  /\ Fails(IF call = "stream" THEN "refused stream" ELSE "opening")
  /\ locked' = KeepsLock(call)
  /\ Throw
  /\ UNCHANGED <<given, flags, last, ask, paStream, held, known, wa, dsp, harm>>

(* init() waits 300 ms for the stream to run, and goes on in either case. *)
PwReady ==
  /\ at = "wait"
  /\ initialized' = [initialized EXCEPT !["pipewire"] = TRUE]
  /\ missed' = FALSE
  /\ Opened
  /\ UNCHANGED <<given, running, last, ask, paStream, pw, wa, readSig, reloads, faults,
                 failed, harm>>

(* cleanup() destroys registry and stream under the lock, ... *)
PwDestroy ==
  /\ at = "clean" /\ on = "pipewire"
  /\ at' = IF "loop" \in held["pipewire"] THEN "stop" ELSE "free"
  /\ held' = [held EXCEPT !["pipewire"] =
                IF "loop" \in @ THEN @ \ {"registry", "stream", "link"} ELSE @]
  /\ UNCHANGED <<given, job, on, step, next, flags, last, ask, paStream, known, locked,
                 wa, dsp, counts, harm>>

(* ... waits for the loop's thread, which cannot end while main holds its lock, ... *)
PwStop ==
  /\ at = "stop"
  /\ "thread" \in held["pipewire"] => ~locked
  /\ at' = "free"
  /\ held' = [held EXCEPT !["pipewire"] = @ \ {"thread"}]
  /\ UNCHANGED <<given, job, on, step, next, flags, last, ask, paStream, known, locked,
                 wa, dsp, counts, harm>>

(* ... and frees core, context and loop. *)
PwFree ==
  /\ at = "free"
  /\ held' = [held EXCEPT !["pipewire"] = @ \ {"loop", "ctx", "core"}]
  /\ initialized' = [initialized EXCEPT !["pipewire"] = FALSE]
  /\ running' = [running EXCEPT !["pipewire"] = FALSE]
  /\ Return
  /\ UNCHANGED <<given, last, ask, paStream, known, locked, wa, readSig, counts, harm>>

(* The callbacks of the loop's thread, which holds the lock meanwhile. *)
LoopRuns == Alive /\ "thread" \in held["pipewire"] /\ ~locked

(* registryEventGlobal: devices are announced one by one, and never taken back. *)
PwAnnounce(d) ==
  /\ LoopRuns /\ "registry" \in held["pipewire"]
  /\ d \notin known
  /\ known' = known \cup {d}
  /\ harm' = IF job = "list" THEN harm \cup {"listMoved"} ELSE harm
  /\ UNCHANGED <<given, control, flags, last, ask, paStream, held, locked, wa, dsp,
                 counts>>

(* onStreamStateChanged; a stream that is PAUSED is only set active again. *)
PwStreams ==
  /\ LoopRuns /\ "link" \in held["pipewire"]
  /\ ~running["pipewire"]
  /\ running' = [running EXCEPT !["pipewire"] = TRUE]
  /\ UNCHANGED <<given, control, initialized, last, ask, paStream, pw, wa, dsp, counts,
                 harm>>

(* ERROR or UNCONNECTED; the stream does not reconnect itself. *)
PwBreaks ==
  /\ LoopRuns /\ "link" \in held["pipewire"]
  /\ Fails("later")
  /\ held' = [held EXCEPT !["pipewire"] = @ \ {"link"}]
  /\ running' = [running EXCEPT !["pipewire"] = FALSE]
  /\ UNCHANGED <<given, control, initialized, last, ask, paStream, known, locked, wa,
                 dsp, harm>>

(* onProcess: a block is in the ring. *)
PwProcess ==
  /\ LoopRuns /\ "link" \in held["pipewire"] /\ running["pipewire"]
  /\ ~readSig
  /\ readSig' = TRUE
  /\ UNCHANGED <<given, control, flags, last, ask, paStream, pw, wa, dspPc, counts,
                 harm>>

-----------------------------------------------------------------------------
(* WASAPI.                                                                  *)

(* GetMixFormat allocates a new format. *)
Format(call) == IF call = "format" THEN "live" ELSE wfx

WaTakes ==
  LET call == Calls["wasapi"][step] IN
  /\ at = "open" /\ on = "wasapi"
  /\ call # "event"
  /\ step' = step + 1
  /\ held' = [held EXCEPT !["wasapi"] = @ \cup ({call} \cap Kept["wasapi"])]
  /\ wfx' = Format(call)
     \* select(): a device that is not found is replaced by the default one
  /\ target' = IF call = "device"
                 THEN [target EXCEPT !["wasapi"] = Found(options.device, Devices)]
                 ELSE target
  /\ UNCHANGED <<given, job, at, on, next, flags, last, opened, paStream, known, locked,
                 waThread, gone, dsp, counts, harm>>

(* Without COM nothing is cleaned up; every later failure cleans up. *)
WaFails ==
  LET call == Calls["wasapi"][step] IN
  /\ at = "open" /\ on = "wasapi"
  /\ call # "event"
  /\ Fails("opening")
  /\ IF call = "com" THEN Throw
     ELSE at' = "clean" /\ next' = "throw" /\ UNCHANGED <<job, on, step>>
  /\ UNCHANGED <<given, flags, last, ask, paStream, pw, wa, dsp, harm>>

(* The thread is started; it sets running itself. *)
WaOpen ==
  /\ at = "open" /\ on = "wasapi" /\ Calls["wasapi"][step] = "event"
  /\ waThread' = "created"
  /\ opened' = [opened EXCEPT !["wasapi"] = options.device]
  /\ initialized' = [initialized EXCEPT !["wasapi"] = TRUE]
  /\ missed' = FALSE
  /\ Opened
  /\ UNCHANGED <<given, running, last, target, paStream, pw, wfx, gone, readSig, reloads,
                 faults, failed, harm>>

(* cleanup() tells the thread to end, ... *)
WaClean ==
  /\ at = "clean" /\ on = "wasapi"
  /\ at' = "join"
  /\ initialized' = [initialized EXCEPT !["wasapi"] = FALSE]
  /\ running' = [running EXCEPT !["wasapi"] = FALSE]
  /\ UNCHANGED <<given, job, on, step, next, last, ask, paStream, pw, wa, dsp, counts,
                 harm>>

(* ... waits for it, and frees everything, the client with its device too; *)
(* wfx keeps pointing to what was freed.                                   *)
WaJoin ==
  /\ at = "join"
  /\ waThread \in {"none", "ended"}
  /\ waThread' = "none" /\ gone' = FALSE
  /\ wfx' = IF wfx = "live" THEN "freed" ELSE wfx
  /\ harm' = IF wfx = "freed" THEN harm \cup {"freedTwice"} ELSE harm
  /\ held' = [held EXCEPT !["wasapi"] = {}]
  /\ Return
  /\ UNCHANGED <<given, flags, last, ask, paStream, known, locked, readSig, counts>>

(* threadFunc: its loop waits for the event and tests running every 50 ms. *)
WaStart ==
  /\ Alive /\ waThread = "created"
  /\ waThread' = "loop"
  /\ running' = [running EXCEPT !["wasapi"] = TRUE]
  /\ UNCHANGED <<given, control, initialized, last, ask, paStream, pw, wfx, gone, dsp,
                 counts, harm>>

(* The event comes with a packet.  A device that is gone has none: the call *)
(* fails, its assertion is compiled out, and packetSize stays 0.            *)
WaWakes ==
  /\ Alive /\ waThread = "loop" /\ running["wasapi"]
  /\ ~gone
  /\ waThread' = "packet"
  /\ UNCHANGED <<given, control, flags, last, ask, paStream, pw, wfx, gone, dsp, counts,
                 harm>>

(* The inner loop does not look at running.  GetBuffer may fail, and is then *)
(* skipped; in either case the next packet's size is asked for and the DSP   *)
(* thread is signalled.  There is another packet, ...                        *)
WaPacket ==
  /\ Alive /\ waThread = "packet"
  /\ ~readSig
  /\ readSig' = TRUE
  /\ UNCHANGED <<given, control, flags, last, ask, paStream, pw, wa, dspPc, counts,
                 harm>>

(* ... or there is none.  When the device is gone that call fails, nobody    *)
(* looks at its result, and packetSize is whatever the failed call leaves.   *)
WaDrains ==
  /\ Alive /\ waThread = "packet"
  /\ waThread' = "loop"
  /\ readSig' = TRUE
  /\ UNCHANGED <<given, control, flags, last, ask, paStream, pw, wfx, gone, dspPc, counts,
                 harm>>

(* The device is unplugged or reconfigured: every call of its client fails. *)
WaGone ==
  /\ Alive /\ waThread \in {"created", "loop", "packet"}
  /\ ~gone
  /\ Fails("later")
  /\ gone' = TRUE
  /\ UNCHANGED <<given, control, flags, last, ask, paStream, pw, waThread, wfx, dsp,
                 harm>>

WaEnds ==
  /\ Alive /\ waThread = "loop" /\ ~running["wasapi"]
  /\ waThread' = "ended"
  /\ UNCHANGED <<given, control, flags, last, ask, paStream, pw, wfx, gone, dsp, counts,
                 harm>>

-----------------------------------------------------------------------------
(* Main: reloads and the end.                                               *)

(* read(), reconfigure() and enumerate() go to the first backend that runs. *)
Runs(b) ==
  /\ running[b]
  /\ b = "pipewire" => ~running["pulse"]
  /\ b = "wasapi" => ~running["pulse"] /\ ~running["pipewire"]

(* FAULT: the first reload finds nothing to compare with and takes it for equal. *)
UnchangedOrFirst(b, wish) == last[b] \in {wish, NoDevice}

(* FAULT: what the stream was opened with is not remembered. *)
RememberedNothing(b, wish) == last

(* The statics of reconfigure(): the first reload always differs from them. *)
Unchanged(b, wish)  == last[b] = wish
Remembered(b, wish) == [last EXCEPT ![b] = wish]

(* What runs is opened again when its options changed.  Only init() looks at *)
(* the engine, so another one has to wait for the next start.                *)
Reload(wish) ==
  /\ job = "idle" /\ reloads < MaxReloads
  /\ options' = [options EXCEPT !.device = wish]
  /\ reloads' = reloads + 1
  /\ \/ \E b \in Backend :
          /\ Runs(b)
          /\ IF Unchanged(b, wish)
               THEN /\ missed' = FALSE
                    /\ UNCHANGED <<control, last>>
               ELSE /\ job' = "reload"
                    /\ last' = Remembered(b, wish)
                    /\ BeginInit(b)
                    /\ UNCHANGED missed
     \/ /\ \A b \in Backend : ~running[b]
        /\ missed' = TRUE
        /\ UNCHANGED <<control, last>>
  /\ UNCHANGED <<built, flags, ask, paStream, pw, wa, dsp, faults, failed, harm>>

(* The menu asks the backend that runs for its devices, for which WASAPI *)
(* asks the system, and PipeWire goes through availableDevices.          *)
ListDevices ==
  /\ job = "idle"
  /\ \E b \in Backend : Runs(b)
  /\ job' = "list"
  /\ UNCHANGED <<given, at, on, step, next, flags, last, ask, paStream, pw, wa, dsp,
                 counts, harm>>

Listed ==
  /\ job = "list"
  /\ job' = "idle"
  /\ UNCHANGED <<given, at, on, step, next, flags, last, ask, paStream, pw, wa, dsp,
                 counts, harm>>

ListFails ==
  /\ job = "list" /\ Runs("wasapi")
  /\ Fails("later")
  /\ CleanUp
  /\ UNCHANGED <<given, flags, last, ask, paStream, pw, wa, dsp, harm>>

Quit ==
  /\ job = "idle"
  /\ CleanUp
  /\ UNCHANGED <<given, flags, last, ask, paStream, pw, wa, dsp, counts, harm>>

(* main joins the DSP thread and returns. *)
Returns ==
  /\ job = "quit" /\ at = "none" /\ dspPc = "ended"
  /\ job' = "ended"
  /\ UNCHANGED <<given, at, on, step, next, flags, last, ask, paStream, pw, wa, dsp,
                 counts, harm>>

(* Undefined behaviour may end the process, or not. *)
Crash ==
  /\ Alive /\ harm # {}
  /\ job' = "died" /\ at' = "none"
  /\ UNCHANGED <<given, on, step, next, flags, last, ask, paStream, pw, wa, dsp, counts,
                 harm>>

-----------------------------------------------------------------------------
(* The DSP thread in AudioEngine::read.                                     *)

(* DSPThread.request_stop() is the first thing of the cleanup. *)
Stopping == job = "quit"

DspPicks ==
  /\ Alive /\ dspPc = "idle" /\ ~Stopping
  /\ \/ Runs("pulse") /\ dspPc' = "chosen"
     \/ (Runs("pipewire") \/ Runs("wasapi")) /\ dspPc' = "waiting"
  /\ UNCHANGED <<given, control, flags, last, ask, paStream, pw, wa, readSig, counts,
                 harm>>

(* Pulseaudio::read looks at initialized and at the pointer. *)
DspEnters ==
  /\ Alive /\ dspPc = "chosen"
  /\ dspPc' = IF ~initialized["pulse"] \/ paStream = "null" THEN "idle" ELSE "inside"
  /\ harm' = IF initialized["pulse"] /\ paStream = "freed"
               THEN harm \cup {"readFreed"} ELSE harm
  /\ UNCHANGED <<given, control, flags, last, ask, paStream, pw, wa, readSig, counts>>

DspReturns ==
  /\ Alive /\ dspPc = "inside"
  /\ dspPc' = "idle"
  /\ UNCHANGED <<given, control, flags, last, ask, paStream, pw, wa, readSig, counts,
                 harm>>

DspReadFails ==
  /\ Alive /\ dspPc = "inside"
  /\ Fails("later")
  /\ dspPc' = "idle"
  /\ running' = [running EXCEPT !["pulse"] = FALSE]
  /\ UNCHANGED <<given, control, initialized, last, ask, paStream, pw, wa, readSig,
                 harm>>

(* readSig.wait_for(100ms) *)
DspWaited ==
  /\ Alive /\ dspPc = "waiting"
  /\ dspPc' = "idle"
  /\ readSig' = FALSE
  /\ UNCHANGED <<given, control, flags, last, ask, paStream, pw, wa, counts, harm>>

DspEnds ==
  /\ dspPc = "idle" /\ Stopping
  /\ dspPc' = "ended"
  /\ UNCHANGED <<given, control, flags, last, ask, paStream, pw, wa, readSig, counts,
                 harm>>

Opening == PaOpen \/ PaFails \/ PwTakes \/ PwFails \/ PwReady \/ WaTakes \/ WaFails \/ WaOpen
Closing == PaFree \/ PaNull \/ PwDestroy \/ PwStop \/ PwFree \/ WaClean \/ WaJoin
MainNext == \/ Opening \/ Closing \/ Quit \/ Returns \/ Crash
            \/ ListDevices \/ Listed \/ ListFails
            \/ \E wish \in Wishes : Reload(wish)
LoopNext == PwStreams \/ PwBreaks \/ PwProcess \/ \E d \in Devices : PwAnnounce(d)
WaNext   == WaStart \/ WaWakes \/ WaPacket \/ WaDrains \/ WaGone \/ WaEnds
DspNext  == DspPicks \/ DspEnters \/ DspReturns \/ DspReadFails \/ DspWaited \/ DspEnds

Next == MainNext \/ LoopNext \/ WaNext \/ DspNext
Spec == Init /\ [][Next]_vars

(* Calls of main return, WASAPI's thread and the DSP thread are scheduled,   *)
(* and WASAPI's thread empties a device that works faster than it fills;     *)
(* nothing is assumed of the servers, of reloads and of failures.            *)
Fairness ==
  /\ WF_vars(Opening \/ Closing \/ Returns)
  /\ WF_vars(WaStart) /\ WF_vars(~gone /\ WaDrains) /\ WF_vars(WaEnds)
  /\ WF_vars(DspEnters) /\ WF_vars(DspReturns) /\ WF_vars(DspWaited) /\ WF_vars(DspEnds)
FairSpec == Spec /\ Fairness

-----------------------------------------------------------------------------
(* Properties.                                                              *)

Holds(b) == IF b = "pulse" THEN paStream # "null"
            ELSE held[b] # {} \/ (b = "wasapi" /\ (wfx = "live" \/ waThread # "none"))

(* While the loop runs, exactly one backend is open, and of every other one  *)
(* nothing is left, whichever calls failed on the way there.                 *)
OneBackend ==
  job \in {"idle", "list"} => \E b \in built :
    /\ initialized[b]
    /\ \A o \in Backend \ {b} : ~initialized[o] /\ ~running[o] /\ ~Holds(o)

(* A program that ends has closed all it opened, after a normal end and      *)
(* after an exception half-way through an init().                            *)
NothingIsLeft ==
  job = "ended" => /\ \A b \in Backend : ~initialized[b] /\ ~Holds(b)
                   /\ dspPc = "ended"

(* The open stream is the one the configuration asks for, unless the last    *)
(* reload came while no backend was running and was therefore ignored.       *)
StreamIsCurrent ==
  job = "idle" /\ ~missed =>
    \A b \in Backend : initialized[b] => opened[b] = options.device

(* A reload that asks for the same device leaves Pulse's stream, in which    *)
(* the DSP thread may be blocked, alone; only the first reload does not.     *)
StreamSurvivesReload ==
  [][paStream = "open" /\ paStream' = "freed"
       => job = "quit" \/ options.device # opened["pulse"] \/ reloads = 1]_vars

(* Main waits for a thread that never ends.                                  *)
(*   LoopIsLocked   PipeWire refused a stream, and main has kept the loop's  *)
(*                  lock that the thread needs in order to stop              *)
(*   StartsLate     WASAPI's thread first ran after cleanup() had cleared    *)
(*                  running, and set it again                                *)
(*   Spins          WASAPI's device went away with a packet pending, and the *)
(*                  inner loop has no other way out                          *)
LoopIsLocked == /\ at = "stop" /\ locked /\ "thread" \in held["pipewire"]
                /\ "refused stream" \in failed
StartsLate   == at = "join" /\ job = "quit" /\ running["wasapi"]
Spins        == at = "join" /\ waThread = "packet" /\ gone

(* A startup comes to its end unless it waits for a loop whose lock it       *)
(* holds, a reload unless it does that or waits for a thread that spins; an  *)
(* exit, which may also come before WASAPI's thread first runs, does but for *)
(* these three.                                                              *)
JobsComplete ==
  /\ job = "boot" ~> job \in {"idle", "died"} \/ LoopIsLocked
  /\ job = "reload" ~> job # "reload" \/ LoopIsLocked \/ Spins
  /\ job = "quit" ~> job \in {"ended", "died"} \/ LoopIsLocked \/ StartsLate \/ Spins

=============================================================================
