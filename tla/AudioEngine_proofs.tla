--------------------------- MODULE AudioEngine_proofs ---------------------------
(***************************************************************************)
(* Proofs about AudioEngine, for every set of builds, devices and wishes,   *)
(* any number of reloads, and any number of calls that fail.                *)
(***************************************************************************)
EXTENDS AudioEngine, TLAPS

-----------------------------------------------------------------------------
(* The inductive invariant. *)

Clean(b) == ~initialized[b] /\ ~running[b] /\ ~Holds(b)
Only(bs) == \A o \in Backend \ bs : Clean(o)

Clients == {"registry", "stream", "link"}   \* what PwDestroy gives back

(* Each call belongs to a backend; init() begins with nothing open. *)
AtOn ==
  /\ on \in built /\ (job \in {"boot", "reload", "quit"} \/ at = "none")
  /\ at = "null" => on = "pulse"
  /\ at \in {"wait", "stop", "free"} => on = "pipewire"
  /\ at = "wait" => opened["pipewire"] = options.device
  /\ at = "join" => on = "wasapi" /\ ~initialized["wasapi"]
  /\ at = "open" /\ on = "pulse" => paStream = "null"
  /\ at = "open" /\ on = "pipewire" /\ step > 1 => "loop" \in held["pipewire"]
  /\ at = "open" /\ on = "pipewire" => "link" \notin held["pipewire"]
  /\ at = "open" /\ on = "wasapi" => waThread = "none" /\ step <= 6

(* Who delivers has something to deliver from; cleanup() has come so far. *)
Belongings ==
  /\ held["pipewire"] \subseteq Kept["pipewire"]
  /\ held["pipewire"] # {} => "loop" \in held["pipewire"]
  /\ at \in {"stop", "free"} => held["pipewire"] \cap Clients = {}
  /\ at = "free" => "thread" \notin held["pipewire"]
  /\ running["pulse"] => paStream # "null"
  /\ running["pipewire"] => \/ "link" \in held["pipewire"]
                            \/ at \in {"stop", "free"} \/ job = "died"
  /\ running["wasapi"] => waThread \in {"loop", "packet"}

(* While the loop runs. *)
IdleInv == job \in {"idle", "list"} => \E b \in built :
  /\ at = "none" /\ initialized[b] /\ Only({b})
  /\ last[b] \in {NoDevice, opened[b]}
  /\ ~missed => opened[b] = options.device
  /\ running["pulse"] /\ last["pulse"] = NoDevice => reloads = 0

(* At startup: the backend that is opened, and the one it fell back from; or *)
(* the one that was opened, and the other one, which is cleaned up.          *)
BootInv == job = "boot" =>
  /\ reloads = 0 /\ last = [b \in Backend |-> NoDevice]
  /\ at \in {"open", "wait"} =>
       /\ next = "done" /\ \A b \in Backend : ~initialized[b]
       /\ Only({on, "pipewire"})
       /\ on # "pipewire" => "link" \notin held["pipewire"] /\ ~running["pipewire"]
       /\ on = "wasapi" => Only({on})
  /\ at \notin {"open", "wait"} =>
       \/ /\ next = "done" /\ built = {"pulse", "pipewire"} /\ Only(built)
          /\ ~missed /\ ~initialized[on] /\ (on = "pulse" => paStream = "null")
          /\ \E b \in built \ {on} : initialized[b] /\ opened[b] = options.device
       \/ next = "throw" /\ on = "wasapi"

(* In a reload only the stream of `on` changes. *)
ReloadInv == job = "reload" =>
  /\ at # "none" /\ Only({on}) /\ last[on] = options.device
  /\ next \in {"open", "throw"}
  /\ at = "clean" /\ on = "pulse" /\ paStream = "open"
       => options.device # opened["pulse"] \/ reloads = 1

(* AudioEngine::cleanup() has come so far. *)
QuitInv ==
  /\ job = "quit" =>
       /\ next = "quit"
       /\ at \notin {"open", "wait"}
       /\ at = "none" => Only({})
       /\ at # "none" => Only(IF on = "pulse" THEN {"pulse", "pipewire"} ELSE {on})
  /\ job = "ended" => Only({}) /\ dspPc = "ended"

(* What was not compiled in does nothing. *)
UnbuiltInv == Only(built)

EngineInv == /\ TypeOK /\ AtOn /\ Belongings /\ UnbuiltInv
             /\ IdleInv /\ BootInv /\ ReloadInv /\ QuitInv

-----------------------------------------------------------------------------
(* Types. *)

LEMMA CallsAre ==
  /\ Calls["pulse"] = <<"stream">>
  /\ Calls["pipewire"] = <<"loop", "ctx", "core", "thread", "registry", "stream", "link">>
  /\ Calls["wasapi"] = <<"com", "device", "client", "format", "capture", "event">>
  /\ Kept["pipewire"] = {"loop", "ctx", "core", "thread", "registry", "stream", "link"}
  /\ Kept["wasapi"] = {"device", "client", "capture"}
  BY DEF Calls, Kept

(* init() of PipeWire ends with its seventh call, that of WASAPI with its sixth. *)
LEMMA CallsEnd ==
  /\ \A k \in 1 .. 7 : /\ Calls["pipewire"][k] \in Kept["pipewire"]
                       /\ Calls["pipewire"][k] = "link" <=> k = 7
                       /\ Calls["pipewire"][k] = "loop" <=> k = 1
  /\ \A k \in 1 .. 6 : Calls["wasapi"][k] = "event" <=> k = 6
  <1>1. \A k \in 1 .. 7 : k \in {1, 2, 3, 4, 5, 6, 7}
    OBVIOUS
  <1>2. \A k \in 1 .. 6 : k \in {1, 2, 3, 4, 5, 6}
    OBVIOUS
  <1> QED BY <1>1, <1>2, CallsAre

(* TypeOK in four parts: main, the streams, what they hold, and the rest. *)
MainType ==
  /\ built \in Builds /\ options \in Options
  /\ job \in {"boot", "idle", "list", "reload", "quit", "ended", "died"}
  /\ at \in {"open", "wait", "clean", "null", "stop", "free", "join", "none"}
  /\ on \in Backend /\ step \in 1 .. 7 /\ next \in {"open", "throw", "done", "quit"}
StreamType ==
  /\ initialized \in [Backend -> BOOLEAN] /\ running \in [Backend -> BOOLEAN]
  /\ last \in [Backend -> Wishes \cup {NoDevice}]
  /\ opened \in [Backend -> Wishes \cup {NoDevice}]
  /\ target \in [Backend -> Devices \cup {Default, NoDevice}]
HeldType ==
  /\ held \in [Callback -> SUBSET (Kept["pipewire"] \cup Kept["wasapi"])]
  /\ paStream \in {"null", "open", "freed"} /\ known \subseteq Devices /\ locked \in BOOLEAN
  /\ waThread \in {"none", "created", "loop", "packet", "ended"} /\ wfx \in {"null", "live", "freed"}
  /\ gone \in BOOLEAN
RestType ==
  /\ dspPc \in {"off", "idle", "chosen", "inside", "waiting", "ended"} /\ readSig \in BOOLEAN
  /\ reloads \in 0 .. MaxReloads /\ faults \in 0 .. MaxFaults
  /\ failed \subseteq {"opening", "refused stream", "later"} /\ missed \in BOOLEAN
  /\ harm \subseteq {"readFreed", "freedTwice", "listMoved"}

LEMMA TypeParts == TypeOK <=> MainType /\ StreamType /\ HeldType /\ RestType
  BY DEF TypeOK, MainType, StreamType, HeldType, RestType

LEMMA FoundType ==
  ASSUME NEW wish, NEW list, list \subseteq Devices
  PROVE  Found(wish, list) \in Devices \cup {Default, NoDevice}
  BY DEF Found

(* The control flow of main keeps its types. *)
LEMMA ControlType ==
  ASSUME MainType
  PROVE  /\ \A b \in Backend : BeginInit(b) =>
              /\ at' \in {"open", "clean"} /\ on' = b /\ step' = 1
              /\ next' \in {"open", "throw", "done", "quit"}
         /\ Done => /\ job' = "idle" /\ at' = "none" /\ UNCHANGED <<on, step, next>>
                    /\ dspPc' \in {dspPc, "idle"}
         /\ CleanUp => /\ job' = "quit" /\ at' = "clean" /\ next' = "quit" /\ step' = step
                       /\ on' \in Backend
         /\ Throw => /\ job' \in {"boot", "quit", "died"} /\ at' \in {"open", "clean", "none"}
                     /\ on' \in Backend /\ step' \in 1 .. 7
                     /\ next' \in {"open", "throw", "done", "quit"}
  <1>1. \A b \in Backend : BeginInit(b) =>
              /\ at' \in {"open", "clean"} /\ on' = b /\ step' = 1
              /\ next' \in {"open", "throw", "done", "quit"}
    BY DEF BeginInit, MainType
  <1>2. Done => /\ job' = "idle" /\ at' = "none" /\ UNCHANGED <<on, step, next>>
                /\ dspPc' \in {dspPc, "idle"}
    BY DEF Done
  <1>3. CleanUp => /\ job' = "quit" /\ at' = "clean" /\ next' = "quit" /\ step' = step
                   /\ on' \in Backend
    BY DEF CleanUp, Backend
  <1>4. Throw => /\ job' \in {"boot", "quit", "died"} /\ at' \in {"open", "clean", "none"}
                 /\ on' \in Backend /\ step' \in 1 .. 7
                 /\ next' \in {"open", "throw", "done", "quit"}
    <2>1. "pulse" \in Backend /\ 1 \in 1 .. 7 /\ step \in 1 .. 7 /\ on \in Backend
          /\ next \in {"open", "throw", "done", "quit"}
      BY DEF Backend, MainType
    <2> SUFFICES ASSUME Throw
                 PROVE  /\ job' \in {"boot", "quit", "died"} /\ at' \in {"open", "clean", "none"}
                        /\ on' \in Backend /\ step' \in 1 .. 7
                        /\ next' \in {"open", "throw", "done", "quit"}
      OBVIOUS
    <2>2. CASE job = "boot" /\ HasFallback(on)
      <3>1. BeginInit("pulse") /\ job' = "boot"
        BY <2>2 DEF Throw
      <3> QED BY <1>1, <2>1, <3>1
    <2>3. CASE job = "boot" /\ ~HasFallback(on)
      BY <2>1, <2>3 DEF Throw
    <2>4. CASE job # "boot"
      <3>1. CleanUp
        BY <2>4 DEF Throw
      <3> QED BY <1>3, <2>1, <3>1
    <2> QED BY <2>2, <2>3, <2>4
  <1> QED BY <1>1, <1>2, <1>3, <1>4

LEMMA OpenedType ==
  ASSUME MainType, Opened
  PROVE  /\ job' \in {job, "idle"} /\ at' \in {"clean", "none"} /\ on' \in Backend
         /\ step' = step /\ next' \in {next, "done"} /\ dspPc' \in {dspPc, "idle"}
  BY ControlType DEF Opened, Backend, MainType

LEMMA ReturnType ==
  ASSUME MainType, Return
  PROVE  /\ job' \in {job, "boot", "idle", "quit", "died"}
         /\ at' \in {"open", "clean", "none"} /\ on' \in Backend /\ step' \in 1 .. 7
         /\ next' \in {"open", "throw", "done", "quit"} /\ dspPc' \in {dspPc, "idle"}
  <1>1. on \in Backend /\ "pipewire" \in Backend /\ 1 \in 1 .. 7 /\ step \in 1 .. 7
        /\ next \in {"open", "throw", "done", "quit"}
    BY DEF Backend, MainType
  <1>2. CASE next = "open"
    BY <1>1, <1>2 DEF Return
  <1>3. CASE next = "throw"
    <2>1. Throw /\ dspPc' = dspPc
      BY <1>3 DEF Return
    <2> QED BY <2>1, ControlType
  <1>4. CASE next = "done"
    BY <1>1, <1>4, ControlType DEF Return
  <1>5. CASE next = "quit"
    BY <1>1, <1>5 DEF Return
  <1> QED BY <1>1, <1>2, <1>3, <1>4, <1>5

(* Steps that are not of main. *)
Beside == LoopNext \/ WaNext \/ DspNext
LEMMA BesideLeavesMain ==
  ASSUME Beside
  PROVE  UNCHANGED <<given, control, last, opened, target, reloads, missed, paStream, wfx, initialized>>
  <1>1. CASE LoopNext
    BY <1>1 DEF LoopNext, PwStreams, PwBreaks, PwProcess, PwAnnounce, Fails, given, control,
                flags, ask, wa, counts
  <1>2. CASE WaNext
    BY <1>2 DEF WaNext, WaStart, WaWakes, WaPacket, WaDrains, WaGone, WaEnds, Fails, given, control, flags, ask, wa, counts
  <1>3. CASE DspNext
    BY <1>3 DEF DspNext, DspPicks, DspEnters, DspReturns, DspReadFails, DspWaited, DspEnds,
                Fails, given, control, flags, ask, wa, counts
  <1> QED BY <1>1, <1>2, <1>3 DEF Beside

LEMMA MainTypeStep ==
  ASSUME EngineAssumption, TypeOK, AtOn, [Next]_vars
  PROVE  MainType'
  <1>0. MainType
    BY TypeParts
  <1>1. CASE PaOpen \/ PwReady \/ WaOpen
    <2>1. Opened /\ UNCHANGED given
      BY <1>1 DEF PaOpen, PwReady, WaOpen
    <2> QED BY <1>0, <2>1, OpenedType DEF MainType, given
  <1>2. CASE PaFails \/ PwFails
    <2>1. Throw /\ UNCHANGED given
      BY <1>2 DEF PaFails, PwFails
    <2> QED BY <1>0, <2>1, ControlType DEF MainType, given
  <1>3. CASE PwTakes
    <2>1. Calls["pipewire"][step] # "link" => step + 1 \in 1 .. 7
      BY <1>0, CallsEnd DEF MainType
    <2>2. /\ UNCHANGED <<built, options, job, on, next>>
          /\ \/ at' = "wait" /\ step' = step
             \/ at' = at /\ step' = step + 1 /\ Calls["pipewire"][step] # "link"
      BY <1>3 DEF PwTakes, given
    <2> QED BY <1>0, <2>1, <2>2 DEF MainType
  <1>4. CASE WaTakes
    <2>1. step \in 1 .. 6 /\ UNCHANGED <<built, options, job, at, on, next>> /\ step' = step + 1
      BY <1>0, <1>4 DEF WaTakes, AtOn, MainType, given
    <2> QED BY <1>0, <2>1 DEF MainType
  <1>5. CASE WaFails
    <2>1. /\ UNCHANGED <<built, options>>
          /\ Throw \/ (at' = "clean" /\ next' = "throw" /\ UNCHANGED <<job, on, step>>)
      BY <1>5 DEF WaFails, given
    <2> QED BY <1>0, <2>1, ControlType DEF MainType
  <1>6. CASE PaNull \/ PwFree \/ WaJoin
    <2>1. Return /\ UNCHANGED <<built, options>>
      BY <1>6 DEF PaNull, PwFree, WaJoin, given
    <2> QED BY <1>0, <2>1, ReturnType DEF MainType
  <1>7. CASE PaFree \/ PwDestroy \/ PwStop \/ WaClean
    <2>1. /\ UNCHANGED <<built, options, job, on, step, next>>
          /\ at' \in {"null", "stop", "free", "join"}
      BY <1>7 DEF PaFree, PwDestroy, PwStop, WaClean, given
    <2> QED BY <1>0, <2>1 DEF MainType
  <1>8. CASE Quit \/ ListFails
    <2>1. CleanUp /\ UNCHANGED <<built, options>>
      BY <1>8 DEF Quit, ListFails, given
    <2> QED BY <1>0, <2>1, ControlType DEF MainType
  <1>9. CASE Returns \/ Crash \/ ListDevices \/ Listed
    <2>1. /\ UNCHANGED <<built, options, on, step, next>>
          /\ at' \in {at, "none"} /\ job' \in {"ended", "died", "list", "idle"}
      BY <1>9 DEF Returns, Crash, ListDevices, Listed, given
    <2> QED BY <1>0, <2>1 DEF MainType
  <1>10. ASSUME NEW wish \in Wishes, Reload(wish) PROVE MainType'
    <2>1. /\ built' = built /\ options' \in Options
          /\ \/ UNCHANGED control
             \/ job' = "reload" /\ \E b \in Backend : BeginInit(b)
      BY <1>0, <1>10 DEF Reload, MainType, Options
    <2> QED BY <1>0, <2>1, ControlType DEF MainType, control
  <1>11. CASE Beside \/ UNCHANGED vars
    BY <1>0, <1>11, BesideLeavesMain DEF MainType, given, control, vars
  <1> QED BY <1>1, <1>2, <1>3, <1>4, <1>5, <1>6, <1>7, <1>8, <1>9, <1>10, <1>11, Zenon
          DEF Next, MainNext, Opening, Closing, Beside

LEMMA StreamTypeStep ==
  ASSUME EngineAssumption, TypeOK, [Next]_vars
  PROVE  StreamType'
  <1>0. MainType /\ StreamType /\ options.device \in Wishes /\ known \subseteq Devices
    BY DEF MainType, StreamType, TypeOK, Options
  <1>1. CASE PaOpen
    <2>1. PICK list \in {Devices, {}} :
            target' = [target EXCEPT !["pulse"] = Found(options.device, list)]
      BY <1>1 DEF PaOpen
    <2>2. Found(options.device, list) \in Devices \cup {Default, NoDevice}
      BY FoundType
    <2>3. /\ initialized' = [initialized EXCEPT !["pulse"] = TRUE]
          /\ running' = [running EXCEPT !["pulse"] = TRUE]
          /\ opened' = [opened EXCEPT !["pulse"] = options.device] /\ last' = last
      BY <1>1 DEF PaOpen
    <2> QED BY <1>0, <2>1, <2>2, <2>3 DEF StreamType
  <1>2. CASE PwTakes
    <2>1. Found(options.device, known) \in Devices \cup {Default, NoDevice}
      BY <1>0, FoundType
    <2>2. /\ UNCHANGED <<initialized, running, last>>
          /\ \/ UNCHANGED <<opened, target>>
             \/ /\ opened' = [opened EXCEPT !["pipewire"] = options.device]
                /\ target' = [target EXCEPT !["pipewire"] = Found(options.device, known)]
      BY <1>2 DEF PwTakes, flags
    <2> QED BY <1>0, <2>1, <2>2 DEF StreamType
  <1>3. CASE WaTakes
    <2>1. Found(options.device, Devices) \in Devices \cup {Default, NoDevice}
      BY FoundType
    <2>2. /\ UNCHANGED <<initialized, running, last, opened>>
          /\ \/ UNCHANGED target
             \/ target' = [target EXCEPT !["wasapi"] = Found(options.device, Devices)]
      BY <1>3 DEF WaTakes, flags
    <2> QED BY <1>0, <2>1, <2>2 DEF StreamType
  <1>4. CASE PwReady \/ WaOpen
    <2>1. PICK b \in Backend :
            /\ initialized' = [initialized EXCEPT ![b] = TRUE]
            /\ opened' \in {opened, [opened EXCEPT ![b] = options.device]}
            /\ UNCHANGED <<running, last, target>>
      BY <1>4 DEF PwReady, WaOpen, Backend, ask
    <2> QED BY <1>0, <2>1 DEF StreamType
  <1>5. CASE PaNull \/ PwFree \/ WaClean
    <2>1. PICK b \in Backend :
            /\ initialized' = [initialized EXCEPT ![b] = FALSE]
            /\ running' = [running EXCEPT ![b] = FALSE]
            /\ UNCHANGED <<last, opened, target>>
      BY <1>5 DEF PaNull, PwFree, WaClean, Backend, ask
    <2> QED BY <1>0, <2>1 DEF StreamType
  <1>6. CASE PwStreams \/ PwBreaks \/ WaStart \/ DspReadFails
    <2>1. /\ \E b \in Backend, v \in BOOLEAN : running' = [running EXCEPT ![b] = v]
          /\ UNCHANGED <<initialized, last, opened, target>>
      BY <1>6 DEF PwStreams, PwBreaks, WaStart, DspReadFails, Backend, ask
    <2> QED BY <1>0, <2>1 DEF StreamType
  <1>7. ASSUME NEW wish \in Wishes, Reload(wish) PROVE StreamType'
    <2>1. /\ UNCHANGED <<initialized, running, opened, target>>
          /\ last' = last \/ \E b \in Backend : last' = [last EXCEPT ![b] = wish]
      BY <1>7 DEF Reload, Remembered, flags, ask
    <2> QED BY <1>0, <2>1 DEF StreamType
  <1>8. CASE UNCHANGED <<flags, last, ask>>
    BY <1>0, <1>8 DEF StreamType, flags, ask
  <1>9. CASE PaFails \/ PwFails \/ WaFails \/ PaFree \/ PwDestroy \/ PwStop \/ WaJoin
    BY <1>8, <1>9 DEF PaFails, PwFails, WaFails, PaFree, PwDestroy, PwStop, WaJoin
  <1>10. CASE Quit \/ Returns \/ Crash \/ ListDevices \/ Listed \/ ListFails \/ UNCHANGED vars
    BY <1>8, <1>10 DEF Quit, Returns, Crash, ListDevices, Listed, ListFails, vars
  <1>11. CASE PwProcess \/ (\E d \in Devices : PwAnnounce(d))
    BY <1>8, <1>11 DEF PwProcess, PwAnnounce
  <1>13. CASE WaWakes \/ WaPacket \/ WaDrains \/ WaGone \/ WaEnds
    BY <1>8, <1>13 DEF WaWakes, WaPacket, WaDrains, WaGone, WaEnds
  <1>12. CASE DspPicks \/ DspEnters \/ DspReturns \/ DspWaited \/ DspEnds
    BY <1>8, <1>12 DEF DspPicks, DspEnters, DspReturns, DspWaited, DspEnds
  <1> QED BY <1>1, <1>2, <1>3, <1>4, <1>5, <1>6, <1>7, <1>9, <1>10, <1>11, <1>12, <1>13, Zenon
          DEF Next, MainNext, Opening, Closing, LoopNext, WaNext, DspNext

LEMMA HeldTypeStep ==
  ASSUME TypeOK, [Next]_vars
  PROVE  HeldType'
  <1>0. HeldType /\ step \in 1 .. 7
    BY DEF HeldType, TypeOK
  <1>1. CASE PwTakes
    <2>1. Calls["pipewire"][step] \in Kept["pipewire"]
      BY <1>0, CallsEnd
    <2>2. held' \in [Callback -> SUBSET (Kept["pipewire"] \cup Kept["wasapi"])]
      BY <1>0, <1>1, <2>1 DEF PwTakes, HeldType
    <2>3. known' \in {known, {}} /\ locked' \in BOOLEAN /\ UNCHANGED <<paStream, waThread, wfx, gone>>
      BY <1>1 DEF PwTakes, wa
    <2> QED BY <1>0, <2>2, <2>3 DEF HeldType
  <1>2. CASE WaTakes
    <2>1. held' \in [Callback -> SUBSET (Kept["pipewire"] \cup Kept["wasapi"])]
      BY <1>0, <1>2 DEF WaTakes, HeldType
    <2>2. wfx' \in {wfx, "live"} /\ UNCHANGED <<paStream, known, locked, waThread, gone>>
      BY <1>2 DEF WaTakes, Format
    <2> QED BY <1>0, <2>1, <2>2 DEF HeldType
  <1>3. CASE PwDestroy \/ PwStop \/ PwFree \/ PwBreaks \/ WaJoin
    <2>1. \E b \in Callback, S \in SUBSET Kept["pipewire"] :
            held' = [held EXCEPT ![b] = @ \ S] \/ held' = [held EXCEPT ![b] = {}] \/ held' = held
      <3>1. {"registry", "stream", "link"} \in SUBSET Kept["pipewire"]
            /\ {"thread"} \in SUBSET Kept["pipewire"] /\ {"link"} \in SUBSET Kept["pipewire"]
            /\ {"loop", "ctx", "core"} \in SUBSET Kept["pipewire"]
        BY CallsAre
      <3>2. "pipewire" \in Callback /\ "wasapi" \in Callback
        BY DEF Callback
      <3>3. CASE PwDestroy
        <4>1. \/ held' = [held EXCEPT !["pipewire"] = @ \ {"registry", "stream", "link"}]
              \/ held' = held
          BY <1>0, <3>3 DEF PwDestroy, HeldType
        <4> QED BY <3>1, <3>2, <4>1
      <3>4. CASE PwStop \/ PwFree \/ PwBreaks
        BY <3>1, <3>2, <3>4 DEF PwStop, PwFree, PwBreaks
      <3>5. CASE WaJoin
        BY <3>1, <3>2, <3>5 DEF WaJoin
      <3> QED BY <1>3, <3>3, <3>4, <3>5
    <2>2. held' \in [Callback -> SUBSET (Kept["pipewire"] \cup Kept["wasapi"])]
      BY <1>0, <2>1 DEF HeldType
    <2>3. UNCHANGED <<paStream, known, locked>> /\ waThread' \in {waThread, "none"} /\ wfx' \in {wfx, "freed"}
          /\ gone' \in {gone, FALSE}
      BY <1>3 DEF PwDestroy, PwStop, PwFree, PwBreaks, WaJoin, wa
    <2> QED BY <1>0, <2>2, <2>3 DEF HeldType
  <1>4. CASE PaOpen \/ PaFails \/ PaFree \/ PaNull
    <2>1. UNCHANGED <<held, known, locked, waThread, wfx, gone>> /\ paStream' \in {paStream, "open", "null", "freed"}
      BY <1>4 DEF PaOpen, PaFails, PaFree, PaNull, pw, wa
    <2> QED BY <1>0, <2>1 DEF HeldType
  <1>5. CASE PwFails \/ \E d \in Devices : PwAnnounce(d)
    <2>1. /\ UNCHANGED <<held, paStream, waThread, wfx, gone>> /\ locked' \in {locked, TRUE, FALSE}
          /\ known' = known \/ \E d \in Devices : known' = known \cup {d}
      BY <1>5 DEF PwFails, PwAnnounce, KeepsLock, wa
    <2> QED BY <1>0, <2>1 DEF HeldType
  <1>6. CASE WaOpen \/ WaStart \/ WaWakes \/ WaDrains \/ WaGone \/ WaEnds
    <2>1. /\ UNCHANGED <<held, paStream, known, locked, wfx>> /\ gone' \in {gone, TRUE}
          /\ waThread' \in {waThread, "created", "loop", "packet", "ended"}
      BY <1>6 DEF WaOpen, WaStart, WaWakes, WaDrains, WaGone, WaEnds, pw
    <2> QED BY <1>0, <2>1 DEF HeldType
  <1>7. CASE UNCHANGED <<paStream, pw, wa>>
    BY <1>0, <1>7 DEF HeldType, pw, wa
  <1>8. CASE WaFails \/ PwReady \/ WaClean
    BY <1>7, <1>8 DEF WaFails, PwReady, WaClean
  <1>9. CASE Quit \/ Returns \/ Crash \/ ListDevices \/ Listed \/ ListFails \/ UNCHANGED vars
    BY <1>7, <1>9 DEF Quit, Returns, Crash, ListDevices, Listed, ListFails, vars
  <1>10. CASE (\E wish \in Wishes : Reload(wish)) \/ PwStreams \/ PwProcess \/ WaPacket
    BY <1>7, <1>10 DEF Reload, PwStreams, PwProcess, WaPacket
  <1>11. CASE DspNext
    BY <1>7, <1>11 DEF DspNext, DspPicks, DspEnters, DspReturns, DspReadFails, DspWaited, DspEnds
  <1> QED BY <1>1, <1>2, <1>3, <1>4, <1>5, <1>6, <1>8, <1>9, <1>10, <1>11, Zenon
          DEF Next, MainNext, Opening, Closing, LoopNext, WaNext

LEMMA RestTypeStep ==
  ASSUME EngineBounds, TypeOK, [Next]_vars
  PROVE  RestType'
  <1>0. MainType /\ RestType /\ MaxReloads \in Nat /\ MaxFaults \in Nat
    BY TypeParts DEF EngineBounds
  <1>1. CASE PaOpen \/ PwReady \/ WaOpen
    <2>1. /\ Opened /\ missed' = FALSE
          /\ UNCHANGED <<readSig, reloads, faults, failed, harm>>
      BY <1>1 DEF PaOpen, PwReady, WaOpen
    <2>2. dspPc' \in {dspPc, "idle"}
      BY <1>0, <2>1, OpenedType
    <2> QED BY <1>0, <2>1, <2>2 DEF RestType
  <1>2. CASE PaFails \/ PwFails \/ WaFails \/ ListFails \/ PwBreaks \/ DspReadFails
              \/ WaGone
    <2>1. /\ \E kind \in {"opening", "refused stream", "later"} : Fails(kind)
          /\ UNCHANGED <<readSig, harm>> /\ dspPc' \in {dspPc, "idle"}
      BY <1>2 DEF PaFails, PwFails, WaFails, ListFails, PwBreaks, DspReadFails, WaGone, dsp
    <2>2. /\ faults < MaxFaults /\ faults' = faults + 1 /\ UNCHANGED <<reloads, missed>>
          /\ failed' \subseteq failed \cup {"opening", "refused stream", "later"}
      BY <2>1 DEF Fails
    <2>3. faults \in 0 .. MaxFaults /\ faults < MaxFaults /\ faults' = faults + 1
      BY <1>0, <2>2 DEF RestType
    <2>4. faults' \in 0 .. MaxFaults
      BY <2>3 DEF EngineBounds
    <2> QED BY <1>0, <2>1, <2>2, <2>4 DEF RestType
  <1>3. CASE PaNull \/ PwFree \/ WaJoin
    <2>1. /\ Return /\ UNCHANGED <<readSig, reloads, faults, failed, missed>>
          /\ harm' \subseteq harm \cup {"freedTwice"}
      BY <1>3 DEF PaNull, PwFree, WaJoin, counts
    <2>2. dspPc' \in {dspPc, "idle"}
      BY <1>0, <2>1, ReturnType
    <2> QED BY <1>0, <2>1, <2>2 DEF RestType
  <1>4. CASE PaFree \/ (\E d \in Devices : PwAnnounce(d))
    <2>1. /\ UNCHANGED <<dsp, counts>>
          /\ harm' \subseteq harm \cup {"readFreed", "listMoved"}
      BY <1>4 DEF PaFree, PwAnnounce
    <2> QED BY <1>0, <2>1 DEF RestType, dsp, counts
  <1>5. ASSUME NEW wish \in Wishes, Reload(wish) PROVE RestType'
    <2>1. /\ reloads < MaxReloads /\ reloads' = reloads + 1 /\ missed' \in {missed, TRUE, FALSE}
          /\ UNCHANGED <<dspPc, readSig, faults, failed, harm>>
      BY <1>5 DEF Reload, dsp
    <2>2. reloads \in 0 .. MaxReloads
      BY <1>0 DEF RestType
    <2>3. reloads' \in 0 .. MaxReloads
      BY <1>0, <2>1, <2>2
    <2> QED BY <1>0, <2>1, <2>3 DEF RestType
  <1>6. CASE DspPicks \/ DspEnters \/ DspReturns \/ DspWaited \/ DspEnds \/ PwProcess \/ WaPacket
                \/ WaDrains
    <2>1. /\ UNCHANGED counts /\ readSig' \in {readSig, TRUE, FALSE}
          /\ harm' \subseteq harm \cup {"readFreed"}
          /\ dspPc' \in {dspPc, "chosen", "waiting", "idle", "inside", "ended"}
      BY <1>6 DEF DspPicks, DspEnters, DspReturns, DspWaited, DspEnds, PwProcess, WaPacket,
                  WaDrains
    <2> QED BY <1>0, <2>1 DEF RestType, counts
  <1>7. CASE UNCHANGED <<dsp, counts, harm>>
    BY <1>0, <1>7 DEF RestType, dsp, counts
  <1>8. CASE PwTakes \/ WaTakes \/ PwDestroy \/ PwStop \/ WaClean
    BY <1>7, <1>8 DEF PwTakes, WaTakes, PwDestroy, PwStop, WaClean
  <1>9. CASE Quit \/ Returns \/ Crash \/ ListDevices \/ Listed \/ UNCHANGED vars
    BY <1>7, <1>9 DEF Quit, Returns, Crash, ListDevices, Listed, vars
  <1>10. CASE PwStreams \/ WaStart \/ WaWakes \/ WaEnds
    BY <1>7, <1>10 DEF PwStreams, WaStart, WaWakes, WaEnds
  <1> QED BY <1>1, <1>2, <1>3, <1>4, <1>5, <1>6, <1>8, <1>9, <1>10, Zenon
          DEF Next, MainNext, Opening, Closing, LoopNext, WaNext, DspNext

LEMMA TypeStep ==
  ASSUME EngineAssumption, EngineBounds, TypeOK, AtOn, [Next]_vars
  PROVE  TypeOK'
  <1>1. MainType' /\ StreamType' /\ HeldType' /\ RestType'
    BY MainTypeStep, StreamTypeStep, HeldTypeStep, RestTypeStep
  <1> QED BY <1>1 DEF TypeOK, MainType, StreamType, HeldType, RestType

-----------------------------------------------------------------------------
(* What a step leaves clean. *)

LEMMA CleanIs ==
  /\ Backend = {"pulse", "pipewire", "wasapi"}
  /\ Clean("pulse") <=> ~initialized["pulse"] /\ ~running["pulse"] /\ paStream = "null"
  /\ Clean("pipewire") <=> ~initialized["pipewire"] /\ ~running["pipewire"] /\ held["pipewire"] = {}
  /\ Clean("wasapi") <=> /\ ~initialized["wasapi"] /\ ~running["wasapi"] /\ held["wasapi"] = {}
                         /\ wfx # "live" /\ waThread = "none"
  BY DEF Backend, Clean, Holds

LEMMA CleanNext ==
  /\ Clean("pulse")' <=> ~initialized'["pulse"] /\ ~running'["pulse"] /\ paStream' = "null"
  /\ Clean("pipewire")' <=> ~initialized'["pipewire"] /\ ~running'["pipewire"] /\ held'["pipewire"] = {}
  /\ Clean("wasapi")' <=> /\ ~initialized'["wasapi"] /\ ~running'["wasapi"] /\ held'["wasapi"] = {}
                          /\ wfx' # "live" /\ waThread' = "none"
  BY DEF Clean, Holds

(* Nothing that runs beside main takes anything. *)
LEMMA BesideKeepsClean ==
  ASSUME TypeOK, Belongings, Beside, NEW b \in Backend, Clean(b)
  PROVE  Clean(b)'
  <1>0. /\ initialized' = initialized /\ paStream' = paStream /\ wfx' = wfx
        /\ running \in [Backend -> BOOLEAN] /\ held \in [Callback -> SUBSET (Kept["pipewire"] \cup Kept["wasapi"])]
        /\ Callback = {"pipewire", "wasapi"}
    BY BesideLeavesMain DEF TypeOK, Callback
  <1>1. CASE LoopNext
    <2>1. "thread" \in held["pipewire"] /\ b # "pipewire"
      BY <1>1, CleanIs DEF LoopNext, PwStreams, PwBreaks, PwProcess, PwAnnounce, LoopRuns
    <2>2. /\ running'["pulse"] = running["pulse"] /\ running'["wasapi"] = running["wasapi"]
          /\ held'["wasapi"] = held["wasapi"] /\ waThread' = waThread
      BY <1>0, <1>1, CleanIs
         DEF LoopNext, PwStreams, PwBreaks, PwProcess, PwAnnounce, flags, pw, wa
    <2> QED BY <1>0, <2>1, <2>2, CleanIs, CleanNext
  <1>2. CASE WaNext
    <2>1. waThread # "none" /\ b # "wasapi"
      BY <1>2, CleanIs DEF WaNext, WaStart, WaWakes, WaPacket, WaDrains, WaGone, WaEnds, Fails
    <2>2. /\ running'["pulse"] = running["pulse"] /\ running'["pipewire"] = running["pipewire"]
          /\ held' = held
      BY <1>0, <1>2, CleanIs DEF WaNext, WaStart, WaWakes, WaPacket, WaDrains, WaGone, WaEnds, Fails, flags, pw, wa
    <2> QED BY <1>0, <2>1, <2>2, CleanIs, CleanNext
  <1>3. CASE DspNext
    <2>1. /\ UNCHANGED <<pw, wa>>
          /\ running' = running \/ running' = [running EXCEPT !["pulse"] = FALSE]
      BY <1>3 DEF DspNext, DspPicks, DspEnters, DspReturns, DspReadFails, DspWaited, DspEnds, flags
    <2> QED BY <1>0, <2>1 DEF Backend, Clean, Holds, pw, wa
  <1> QED BY <1>1, <1>2, <1>3 DEF Beside

(* Neither do main's steps for another backend. *)
LEMMA MainKeepsClean ==
  ASSUME TypeOK, AtOn, MainNext, NEW b \in Backend, Clean(b), Opening \/ Closing => b # on
  PROVE  Clean(b)'
  <1>0. /\ initialized \in [Backend -> BOOLEAN] /\ running \in [Backend -> BOOLEAN]
        /\ held \in [Callback -> SUBSET (Kept["pipewire"] \cup Kept["wasapi"])]
        /\ Callback = {"pipewire", "wasapi"} /\ Backend = {"pulse", "pipewire", "wasapi"}
    BY CleanIs DEF TypeOK, Callback
  <1>1. CASE PaOpen \/ PaFails \/ PaFree \/ PaNull
    <2>1. on = "pulse" /\ b # "pulse" /\ UNCHANGED <<pw, wa>>
      BY <1>1 DEF PaOpen, PaFails, PaFree, PaNull, AtOn, Opening, Closing
    <2>2. initialized'[b] = initialized[b] /\ running'[b] = running[b]
      BY <1>0, <1>1, <2>1 DEF PaOpen, PaFails, PaFree, PaNull, flags
    <2> QED BY <2>1, <2>2 DEF Clean, Holds, pw, wa
  <1>2. CASE PwTakes \/ PwFails \/ PwReady \/ PwDestroy \/ PwStop \/ PwFree
    <2>1. on = "pipewire" /\ b # "pipewire" /\ UNCHANGED <<paStream, wa>>
      BY <1>2 DEF PwTakes, PwFails, PwReady, PwDestroy, PwStop, PwFree, AtOn, Opening, Closing, pw
    <2>2. initialized'[b] = initialized[b] /\ running'[b] = running[b] /\ held'["wasapi"] = held["wasapi"]
      BY <1>0, <1>2, <2>1 DEF PwTakes, PwFails, PwReady, PwDestroy, PwStop, PwFree, flags, pw
    <2> QED BY <1>0, <2>1, <2>2 DEF Clean, Holds, wa
  <1>3. CASE WaTakes \/ WaFails \/ WaOpen \/ WaClean \/ WaJoin
    <2>1. on = "wasapi" /\ b # "wasapi" /\ paStream' = paStream
      BY <1>3 DEF WaTakes, WaFails, WaOpen, WaClean, WaJoin, AtOn, Opening, Closing
    <2>2. initialized'[b] = initialized[b] /\ running'[b] = running[b] /\ held'["pipewire"] = held["pipewire"]
      BY <1>0, <1>3, <2>1 DEF WaTakes, WaFails, WaOpen, WaClean, WaJoin, flags, pw
    <2> QED BY <1>0, <2>1, <2>2 DEF Clean, Holds
  <1>4. CASE \/ Quit \/ Returns \/ Crash \/ ListDevices \/ Listed \/ ListFails
             \/ \E wish \in Wishes : Reload(wish)
    <2>1. UNCHANGED <<flags, paStream, pw, wa>>
      BY <1>4 DEF Quit, Returns, Crash, ListDevices, Listed, ListFails, Reload
    <2> QED BY <2>1 DEF Clean, Holds, flags, pw, wa
  <1> QED BY <1>1, <1>2, <1>3, <1>4, Zenon DEF MainNext, Opening, Closing

LEMMA CleanStep ==
  ASSUME TypeOK, AtOn, Belongings, [Next]_vars
  PROVE  \A b \in Backend : Clean(b) /\ (Opening \/ Closing => b # on) => Clean(b)'
  <1> SUFFICES ASSUME NEW b \in Backend, Clean(b), Opening \/ Closing => b # on
               PROVE  Clean(b)'
    OBVIOUS
  <1>1. CASE MainNext
    BY <1>1, MainKeepsClean
  <1>2. CASE Beside
    BY <1>2, BesideKeepsClean
  <1>3. CASE UNCHANGED vars
    BY <1>3 DEF Clean, Holds, vars, flags, pw, wa
  <1> QED BY <1>1, <1>2, <1>3, Zenon DEF Next, Beside

LEMMA BuiltKept ==
  ASSUME [Next]_vars
  PROVE  built' = built
  <1>1. CASE Opening \/ Closing
    BY <1>1 DEF Opening, Closing, PaOpen, PaFails, PwTakes, PwFails, PwReady, WaTakes, WaFails,
                WaOpen, PaFree, PaNull, PwDestroy, PwStop, PwFree, WaClean, WaJoin, given
  <1>2. CASE \/ Quit \/ Returns \/ Crash \/ ListDevices \/ Listed \/ ListFails
             \/ \E wish \in Wishes : Reload(wish)
    BY <1>2 DEF Quit, Returns, Crash, ListDevices, Listed, ListFails, Reload, given
  <1>3. CASE Beside \/ UNCHANGED vars
    BY <1>3, BesideLeavesMain DEF given, vars
  <1> QED BY <1>1, <1>2, <1>3, Zenon DEF Next, MainNext, Beside

LEMMA UnbuiltStep ==
  ASSUME TypeOK, AtOn, Belongings, UnbuiltInv, [Next]_vars
  PROVE  UnbuiltInv'
  BY CleanStep, BuiltKept DEF UnbuiltInv, Only, AtOn

-----------------------------------------------------------------------------
(* What runs has something to deliver from. *)

LEMMA BelongingsStep ==
  ASSUME TypeOK, AtOn, Belongings, [Next]_vars
  PROVE  Belongings'
  <1>0. /\ MainType
        /\ running \in [Backend -> BOOLEAN] /\ Callback = {"pipewire", "wasapi"}
        /\ Backend = {"pulse", "pipewire", "wasapi"} /\ step \in 1 .. 7
        /\ held \in [Callback -> SUBSET (Kept["pipewire"] \cup Kept["wasapi"])]
    BY TypeParts, CleanIs, CallsAre DEF TypeOK, Callback
  <1> DEFINE Goes == at' \in {"open", "clean", "none"}
             SameWa == running'["wasapi"] = running["wasapi"] /\ waThread' = waThread
             SamePa == running'["pulse"] = running["pulse"] /\ paStream' = paStream
             SamePw == running'["pipewire"] = running["pipewire"] /\ held'["pipewire"] = held["pipewire"]
  <1>1. CASE PaOpen \/ PaFails \/ PaNull
    <2>1. Goes
      <3>1. Opened \/ Throw \/ Return
        BY <1>1 DEF PaOpen, PaFails, PaNull
      <3> QED BY <1>0, <3>1, OpenedType, ControlType, ReturnType
    <2>2. SameWa /\ SamePw /\ at \in {"open", "null"}
      BY <1>0, <1>1 DEF PaOpen, PaFails, PaNull, flags, pw, wa
    <2>3. running'["pulse"] => paStream' # "null"
      BY <1>0, <1>1 DEF PaOpen, PaFails, PaNull, flags, AtOn, Belongings
    <2>4. job # "died"
      BY <1>1, <2>2 DEF AtOn
    <2> QED BY <2>1, <2>2, <2>3, <2>4 DEF Belongings
  <1>2. CASE PaFree
    <2>1. SameWa /\ SamePw /\ at = "clean" /\ at' = "null" /\ job' = job
      BY <1>0, <1>2 DEF PaFree, flags, pw, wa
    <2>2. running'["pulse"] => paStream' # "null"
      BY <1>0, <1>2 DEF PaFree, flags, Belongings
    <2> QED BY <2>1, <2>2 DEF Belongings
  <1>3. CASE PwTakes
    <2>1. PICK call \in Kept["pipewire"] :
            /\ call = Calls["pipewire"][step]
            /\ held' = [held EXCEPT !["pipewire"] = @ \cup {call}]
      BY <1>0, <1>3, CallsEnd DEF PwTakes
    <2>2. held'["pipewire"] = held["pipewire"] \cup {call}
      BY <1>0, <2>1
    <2>3. "loop" \in held'["pipewire"]
      <3>1. CASE step = 1
        BY <1>0, <2>1, <2>2, <3>1, CallsEnd
      <3>2. CASE step # 1
        BY <1>0, <1>3, <2>2, <3>2 DEF PwTakes, AtOn
      <3> QED BY <3>1, <3>2
    <2>4. at = "open" /\ at' \in {"open", "wait"} /\ SamePa /\ SameWa /\ job' = job
          /\ running'["pipewire"] = running["pipewire"]
      BY <1>3 DEF PwTakes, flags, wa
    <2> QED BY <2>1, <2>2, <2>3, <2>4 DEF Belongings
  <1>4. CASE PwFails \/ PwReady \/ WaFails
    <2>1. Goes
      <3>1. Opened \/ Throw \/ at' = "clean"
        BY <1>4 DEF PwFails, PwReady, WaFails
      <3> QED BY <1>0, <3>1, OpenedType, ControlType
    <2>2. SamePa /\ SamePw /\ SameWa /\ at \in {"open", "wait"}
      BY <1>4 DEF PwFails, PwReady, WaFails, flags, pw, wa
    <2>3. job # "died"
      BY <2>2 DEF AtOn
    <2> QED BY <2>1, <2>2, <2>3 DEF Belongings
  <1>5. CASE PwDestroy \/ PwStop
    <2>1. SamePa /\ SameWa /\ at' \in {"stop", "free"} /\ running'["pipewire"] = running["pipewire"]
      BY <1>5 DEF PwDestroy, PwStop, flags, wa
    <2>2. /\ held'["pipewire"] \subseteq held["pipewire"]
          /\ held'["pipewire"] # {} => "loop" \in held'["pipewire"]
      BY <1>0, <1>5 DEF PwDestroy, PwStop, Belongings
    <2>3. held'["pipewire"] \cap Clients = {}
      BY <1>0, <1>5 DEF PwDestroy, PwStop, Belongings, Clients
    <2>4. at' = "free" => "thread" \notin held'["pipewire"]
      BY <1>0, <1>5 DEF PwDestroy, PwStop, Belongings
    <2> QED BY <2>1, <2>2, <2>3, <2>4 DEF Belongings
  <1>6. CASE PwFree
    <2>1. Goes
      BY <1>0, <1>6, ReturnType DEF PwFree
    <2>2. SamePa /\ SameWa /\ ~running'["pipewire"]
      BY <1>0, <1>6 DEF PwFree, wa
    <2>3. held'["pipewire"] = {}
      BY <1>0, <1>6, CallsAre DEF PwFree, Belongings, Clients
    <2> QED BY <2>1, <2>2, <2>3 DEF Belongings
  <1>7. CASE WaTakes \/ WaClean
    <2>1. SamePa /\ SamePw /\ at \in {"open", "clean"} /\ at' \in {"open", "join"} /\ job' = job
      BY <1>0, <1>7 DEF WaTakes, WaClean, flags, pw
    <2>2. running'["wasapi"] => waThread' \in {"loop", "packet"}
      BY <1>0, <1>7 DEF WaTakes, WaClean, flags, wa, Belongings
    <2> QED BY <2>1, <2>2 DEF Belongings
  <1>8. CASE WaOpen \/ WaJoin
    <2>1. Goes
      BY <1>0, <1>8, OpenedType, ReturnType DEF WaOpen, WaJoin
    <2>2. SamePa /\ SamePw /\ at \in {"open", "join"}
      BY <1>0, <1>8 DEF WaOpen, WaJoin, flags, pw
    <2>3. ~running'["wasapi"]
      BY <1>8 DEF WaOpen, WaJoin, flags, AtOn, Belongings
    <2>4. job # "died"
      BY <2>2 DEF AtOn
    <2> QED BY <2>1, <2>2, <2>3, <2>4 DEF Belongings
  <1>9. CASE \/ Quit \/ Returns \/ ListDevices \/ Listed \/ ListFails
             \/ \E wish \in Wishes : Reload(wish)
    <2>1. SamePa /\ SamePw /\ SameWa
      BY <1>9 DEF Quit, Returns, ListDevices, Listed, ListFails, Reload, flags, pw, wa
    <2>2. Goes /\ at = "none" /\ job # "died"
      <3>1. CASE Quit \/ ListFails
        <4>1. job \in {"idle", "list"} /\ CleanUp
          BY <3>1 DEF Quit, ListFails
        <4> QED BY <4>1, <1>0, ControlType DEF AtOn
      <3>2. CASE Returns \/ ListDevices \/ Listed
        BY <3>2 DEF Returns, ListDevices, Listed, AtOn
      <3>3. ASSUME NEW wish \in Wishes, Reload(wish)
            PROVE  Goes /\ at = "none" /\ job # "died"
        <4>1. at = "none" /\ job = "idle"
          BY <3>3 DEF Reload, AtOn
        <4>2. UNCHANGED control \/ \E b \in Backend : BeginInit(b)
          BY <3>3 DEF Reload
        <4> QED BY <1>0, <4>1, <4>2, ControlType DEF control
      <3> QED BY <1>9, <3>1, <3>2, <3>3
    <2> QED BY <2>1, <2>2 DEF Belongings
  <1>10. CASE LoopNext
    <2>1. SamePa /\ SameWa /\ at' = at /\ job' = job
      BY <1>0, <1>10 DEF LoopNext, PwStreams, PwBreaks, PwProcess, PwAnnounce, flags, wa, control
    <2>2. /\ held'["pipewire"] \in {held["pipewire"], held["pipewire"] \ {"link"}}
          /\ running'["pipewire"] => "link" \in held'["pipewire"]
                                     \/ (SamePw /\ running["pipewire"])
      BY <1>0, <1>10 DEF LoopNext, PwStreams, PwBreaks, PwProcess, PwAnnounce, flags, pw
    <2> QED BY <2>1, <2>2 DEF Belongings
  <1>11. CASE WaNext
    <2>1. SamePa /\ SamePw /\ at' = at /\ job' = job
      BY <1>0, <1>11 DEF WaNext, WaStart, WaWakes, WaPacket, WaDrains, WaGone, WaEnds, Fails, flags, pw, control
    <2>2. running'["wasapi"] => waThread' \in {"loop", "packet"}
      BY <1>0, <1>11 DEF WaNext, WaStart, WaWakes, WaPacket, WaDrains, WaGone, WaEnds, Fails, flags, wa, Belongings
    <2> QED BY <2>1, <2>2 DEF Belongings
  <1>12. CASE DspNext
    <2>1. /\ UNCHANGED <<control, pw, wa, paStream>>
          /\ running' = running \/ running' = [running EXCEPT !["pulse"] = FALSE]
      BY <1>12 DEF DspNext, DspPicks, DspEnters, DspReturns, DspReadFails, DspWaited, DspEnds, flags
    <2> QED BY <1>0, <2>1 DEF Belongings, control, pw, wa
  <1>13. CASE UNCHANGED vars
    BY <1>13 DEF Belongings, vars, control, flags, pw, wa
  <1>14. CASE Crash
    <2>1. SamePa /\ SamePw /\ SameWa /\ job' = "died" /\ at' = "none"
      BY <1>14 DEF Crash, flags, pw, wa
    <2> QED BY <2>1 DEF Belongings
  <1> QED BY <1>1, <1>2, <1>3, <1>4, <1>5, <1>6, <1>7, <1>8, <1>9, <1>10, <1>11, <1>12, <1>13,
             <1>14, Zenon DEF Next, MainNext, Opening, Closing

-----------------------------------------------------------------------------
(* Where main is. *)

Phases == AtOn /\ IdleInv /\ BootInv /\ ReloadInv /\ QuitInv

LEMMA BuiltIs ==
  ASSUME EngineAssumption, MainType
  PROVE  /\ built \subseteq Backend /\ built # {}
         /\ "wasapi" \in built => built = {"wasapi"}
         /\ {"pulse", "pipewire"} \subseteq built => built = {"pulse", "pipewire"}
  <1>1. built \subseteq Backend /\ built # {}
    BY DEF EngineAssumption, MainType
  <1>2. "wasapi" \in built => built = {"wasapi"}
    BY DEF EngineAssumption, MainType
  <1>3. ASSUME {"pulse", "pipewire"} \subseteq built PROVE built = {"pulse", "pipewire"}
    <2>1. "wasapi" \notin built
      BY <1>2, <1>3
    <2>2. \A b : b \in built <=> b \in {"pulse", "pipewire"}
      <3>1. "pulse" \in built /\ "pipewire" \in built
        BY <1>3
      <3>2. \A b : b \in built => b \in {"pulse", "pipewire"}
        <4> SUFFICES ASSUME NEW b, b \in built PROVE b \in {"pulse", "pipewire"}
          OBVIOUS
        <4>1. b \in Backend
          BY <1>1
        <4>2. b # "wasapi"
          BY <2>1
        <4> QED BY <4>1, <4>2 DEF Backend
      <3> QED BY <3>1, <3>2
    <2> QED BY <2>2, SetExtensionality
  <1> QED BY <1>1, <1>2, <1>3

(* AudioEngine::cleanup() begins: what is built is closed in its order. *)
LEMMA QuitStarts ==
  ASSUME EngineAssumption, MainType, built' = built, UnbuiltInv', CleanUp
  PROVE  Phases'
  <1>1. /\ job' = "quit" /\ at' = "clean" /\ next' = "quit"
        /\ on' = IF "pulse" \in built THEN "pulse"
                 ELSE IF "pipewire" \in built THEN "pipewire" ELSE "wasapi"
    BY DEF CleanUp
  <1>2. on' \in built /\ built \subseteq (IF on' = "pulse" THEN {"pulse", "pipewire"} ELSE {on'})
    BY <1>1, BuiltIs, CleanIs
  <1>3. Only(IF on = "pulse" THEN {"pulse", "pipewire"} ELSE {on})'
    BY <1>2 DEF UnbuiltInv, Only
  <1> QED BY <1>1, <1>2, <1>3 DEF Phases, AtOn, IdleInv, BootInv, ReloadInv, QuitInv

(* An exception: Pulse is tried, or the program ends, or everything is closed. *)
LEMMA ThrowStep ==
  ASSUME EngineAssumption, TypeOK, Belongings, Phases, UnbuiltInv', Throw, at = "open" \/ on = "wasapi",
         at # "none", UNCHANGED <<given, flags, last, reloads>>, paStream' \in {paStream, "null"},
         held'["pipewire"] = held["pipewire"]
  PROVE  Phases'
  <1>0. MainType /\ built' = built
    BY TypeParts DEF given
  <1>1. CASE job # "boot"
    <2>1. CleanUp
      BY <1>1 DEF Throw
    <2> QED BY <1>0, <2>1, QuitStarts
  <1>2. CASE job = "boot" /\ ~HasFallback(on)
    <2>1. job' = "died" /\ at' = "none" /\ on' = on
      BY <1>2 DEF Throw
    <2> QED BY <1>0, <2>1 DEF Phases, AtOn, IdleInv, BootInv, ReloadInv, QuitInv
  <1>3. CASE job = "boot" /\ HasFallback(on)
    <2>1. on = "pipewire" /\ at = "open" /\ "pulse" \in built
      BY <1>3 DEF HasFallback
    <2>2. /\ reloads = 0 /\ last = [b \in Backend |-> NoDevice] /\ next = "done"
          /\ \A b \in Backend : ~initialized[b]
          /\ Only({on, "pipewire"})
      BY <1>3, <2>1 DEF Phases, BootInv
    <2>3. /\ job' = "boot" /\ on' = "pulse" /\ step' = 1 /\ at' = "open" /\ next' = "done"
      BY <1>3, <2>2, CleanIs DEF Throw, BeginInit
    <2>4. paStream' = "null"
      BY <2>1, <2>2, CleanIs DEF Only
    <2>5. "link" \notin held["pipewire"] /\ ~running["pipewire"]
      BY <1>3, <2>1 DEF Phases, AtOn, Belongings
    <2>6. built \subseteq {"pulse", "pipewire"}
      BY <1>0, <2>1, BuiltIs, CleanIs
    <2>7. Only({on, "pipewire"})'
      BY <1>0, <2>3, <2>6 DEF UnbuiltInv, Only
    <2>8. AtOn'
      BY <1>0, <2>1, <2>3, <2>4 DEF AtOn
    <2>9. BootInv'
      BY <2>2, <2>3, <2>5, <2>7 DEF BootInv, flags
    <2> QED BY <2>3, <2>8, <2>9 DEF Phases, IdleInv, ReloadInv, QuitInv
  <1> QED BY <1>1, <1>2, <1>3

(* At startup with both servers the other one is cleaned up; else main is ready. *)
LEMMA OpenedStep ==
  ASSUME EngineAssumption, TypeOK, Phases, UnbuiltInv, UnbuiltInv', Opened,
         at \in {"open", "wait"}, UNCHANGED <<given, last, reloads>>, ~missed',
         initialized' = [initialized EXCEPT ![on] = TRUE], opened'[on] = options.device,
         \A b \in Backend : Clean(b) /\ b # on => Clean(b)'
  PROVE  Phases'
  <1>0. /\ MainType /\ built' = built /\ options' = options /\ on \in built /\ on \in Backend
        /\ initialized \in [Backend -> BOOLEAN] /\ Backend = {"pulse", "pipewire", "wasapi"}
        /\ built \subseteq Backend
        /\ "wasapi" \in built => built = {"wasapi"}
        /\ options.device \in Wishes /\ NoDevice \notin Wishes
    BY TypeParts, BuiltIs, CleanIs DEF given, TypeOK, Phases, AtOn, Options, EngineAssumption
  <1>1. job \in {"boot", "reload"}
    BY DEF Phases, AtOn, QuitInv
  <1>2. CASE job = "boot" /\ {"pulse", "pipewire"} \subseteq built
    <2>1. /\ on' = IF on = "pulse" THEN "pipewire" ELSE "pulse"
          /\ at' = "clean" /\ next' = "done" /\ job' = "boot"
      BY <1>2 DEF Opened
    <2>2. /\ reloads = 0 /\ last = [b \in Backend |-> NoDevice] /\ \A b \in Backend : ~initialized[b]
          /\ Only({on, "pipewire"})
      BY <1>2 DEF Phases, BootInv
    <2>3. built = {"pulse", "pipewire"} /\ on' \in built /\ on \in built \ {on'}
      <3>2. built = {"pulse", "pipewire"}
        BY <1>0, <1>2, BuiltIs
      <3> QED BY <1>0, <2>1, <3>2
    <2>4. ~initialized'[on'] /\ initialized'[on]
      BY <1>0, <2>2, <2>3
    <2>5. on' = "pulse" => paStream' = "null"
      <3>1. SUFFICES ASSUME on' = "pulse" PROVE paStream' = "null"
        OBVIOUS
      <3>2. on = "pipewire" /\ Clean("pulse")
        BY <1>0, <2>1, <2>2, <2>3, <3>1 DEF Only
      <3>3. Clean("pulse")'
        BY <1>0, <3>2
      <3> QED BY <3>3, CleanNext
    <2>6. Only(built)'
      BY DEF UnbuiltInv
    <2>7. BootInv'
      BY <1>0, <2>1, <2>2, <2>3, <2>4, <2>5, <2>6 DEF BootInv
    <2>8. AtOn'
      BY <1>0, <2>1, <2>3 DEF AtOn
    <2> QED BY <2>1, <2>7, <2>8 DEF Phases, IdleInv, ReloadInv, QuitInv
  <1>3. CASE ~(job = "boot" /\ {"pulse", "pipewire"} \subseteq built)
    <2>1. job' = "idle" /\ at' = "none" /\ on' = on
      BY <1>3 DEF Opened, Done
    <2>2. \A o \in Backend \ {on} : Clean(o)
      <3>1. CASE job = "reload"
        BY <3>1 DEF Phases, ReloadInv, Only
      <3>2. CASE job = "boot"
        <4>1. Only({on, "pipewire"})
          BY <3>2 DEF Phases, BootInv
        <4>2. on = "pulse" => Clean("pipewire")
          BY <1>0, <1>3, <3>2 DEF UnbuiltInv, Only
        <4>3. on = "wasapi" => Only({on})
          BY <3>2 DEF Phases, BootInv
        <4> QED BY <1>0, <4>1, <4>2, <4>3 DEF Only
      <3> QED BY <1>1, <3>1, <3>2
    <2>3. Only({on})'
      BY <2>1, <2>2 DEF Only
    <2>4. last[on] \in {NoDevice, options.device} /\ (last[on] = NoDevice => reloads = 0)
      <3>1. CASE job = "reload"
        BY <1>0, <3>1 DEF Phases, ReloadInv
      <3>2. CASE job = "boot"
        BY <1>0, <3>2 DEF Phases, BootInv
      <3> QED BY <1>1, <3>1, <3>2
    <2>5. initialized'[on]
      BY <1>0
    <2>6. running'["pulse"] => on = "pulse"
      <3>1. SUFFICES ASSUME on # "pulse" PROVE ~running'["pulse"]
        OBVIOUS
      <3>2. Clean("pulse")'
        BY <1>0, <2>2, <3>1
      <3> QED BY <3>2, CleanNext
    <2>7. IdleInv'
      <3> SUFFICES /\ at' = "none" /\ initialized'[on'] /\ Only({on})'
                   /\ last'[on'] \in {NoDevice, opened'[on']}
                   /\ ~missed' => opened'[on'] = options'.device
                   /\ running'["pulse"] /\ last'["pulse"] = NoDevice => reloads' = 0
                   /\ on' \in built'
        BY DEF IdleInv
      <3> QED BY <1>0, <2>1, <2>3, <2>4, <2>5, <2>6
    <2>8. AtOn'
      BY <1>0, <2>1 DEF AtOn
    <2> QED BY <2>1, <2>7, <2>8 DEF Phases, BootInv, ReloadInv, QuitInv
  <1> QED BY <1>2, <1>3

(* A cleanup() returns, and has left nothing. *)
LEMMA ReturnStep ==
  ASSUME EngineAssumption, TypeOK, Belongings, Phases, UnbuiltInv, UnbuiltInv', Return,
         at \in {"null", "free", "join"}, UNCHANGED <<given, last, opened, missed, reloads>>,
         \A b \in Backend \ {on} : initialized'[b] = initialized[b],
         NEW c \in Backend, c = on, Clean(c)',
         \A b \in Backend : Clean(b) /\ b # on => Clean(b)',
         next = "throw" => Phases'
  PROVE  Phases'
  <1>0. /\ MainType /\ built' = built /\ options' = options /\ on \in built /\ on \in Backend
        /\ Backend = {"pulse", "pipewire", "wasapi"}
        /\ built \subseteq Backend
        /\ "wasapi" \in built => built = {"wasapi"}
        /\ next \in {"open", "throw", "done", "quit"}
    BY TypeParts, BuiltIs, CleanIs DEF given, TypeOK, Phases, AtOn
  <1>1. job \in {"boot", "reload", "quit"}
    BY DEF Phases, AtOn
  <1>2. CASE next = "open"
    <2>1. at' = "open" /\ step' = 1 /\ UNCHANGED <<job, on, next>>
      BY <1>2 DEF Return
    <2>2. job = "reload"
      BY <1>1, <1>2 DEF Phases, BootInv, QuitInv
    <2>3. Only({on})'
      BY <2>1, <2>2 DEF Phases, ReloadInv, Only
    <2>4. ReloadInv'
      BY <1>0, <1>2, <2>1, <2>2, <2>3 DEF Phases, ReloadInv
    <2>5. AtOn'
      <3>1. /\ on = "pulse" => paStream' = "null"
            /\ on = "pipewire" => held'["pipewire"] = {}
            /\ on = "wasapi" => waThread' = "none"
        BY <1>0, CleanNext
      <3> QED BY <1>0, <2>1, <2>2, <3>1 DEF AtOn
    <2> QED BY <2>1, <2>2, <2>4, <2>5 DEF Phases, IdleInv, BootInv, QuitInv
  <1>3. CASE next = "throw"
    BY <1>3
  <1>4. CASE next = "done"
    <2>1. job' = "idle" /\ at' = "none" /\ on' = on
      BY <1>4 DEF Return, Done
    <2>2. /\ job = "boot" /\ reloads = 0 /\ last = [b \in Backend |-> NoDevice]
          /\ built = {"pulse", "pipewire"} /\ Only(built)
      BY <1>1, <1>4 DEF Phases, BootInv, ReloadInv, QuitInv
    <2>3. PICK b \in built \ {on} : initialized[b] /\ opened[b] = options.device
      BY <1>4, <2>2 DEF Phases, BootInv
    <2>4. Only({b})'
      BY <1>0, <2>2, <2>3 DEF Only
    <2>5. IdleInv'
      <3> SUFFICES /\ at' = "none" /\ initialized'[b] /\ Only({b})'
                   /\ last'[b] \in {NoDevice, opened'[b]}
                   /\ ~missed' => opened'[b] = options'.device
                   /\ running'["pulse"] /\ last'["pulse"] = NoDevice => reloads' = 0
                   /\ b \in built'
        BY DEF IdleInv
      <3> QED BY <1>0, <2>1, <2>2, <2>3, <2>4
    <2>6. AtOn'
      BY <1>0, <2>1 DEF AtOn
    <2> QED BY <2>1, <2>5, <2>6 DEF Phases, BootInv, ReloadInv, QuitInv
  <1>5. CASE next = "quit"
    <2>1. job = "quit" /\ Only(IF on = "pulse" THEN {"pulse", "pipewire"} ELSE {on})
      BY <1>1, <1>5 DEF Phases, BootInv, ReloadInv, QuitInv
    <2>2. job' = job /\ next' = next
      BY <1>5 DEF Return
    <2>3. CASE on = "pulse" /\ "pipewire" \in built
      <3>1. on' = "pipewire" /\ at' = "clean"
        BY <1>5, <2>3 DEF Return, ClosesNext
      <3>2. Only({"pipewire"})'
        BY <1>0, <2>1, <2>3 DEF Only
      <3>3. Only(IF on = "pulse" THEN {"pulse", "pipewire"} ELSE {on})'
        BY <3>1, <3>2 DEF Only
      <3> QED BY <1>0, <1>5, <2>1, <2>2, <2>3, <3>1, <3>3
              DEF Phases, AtOn, IdleInv, BootInv, ReloadInv, QuitInv
    <2>4. CASE ~(on = "pulse" /\ "pipewire" \in built)
      <3>1. on' = on /\ at' = "none"
        BY <1>5, <2>4 DEF Return, ClosesNext
      <3>2. on = "pulse" => Clean("pipewire")'
        BY <1>0, <2>4 DEF UnbuiltInv, Only
      <3>3. Only({})'
        BY <1>0, <2>1, <3>2 DEF Only
      <3> QED BY <1>0, <1>5, <2>1, <2>2, <3>1, <3>3
              DEF Phases, AtOn, IdleInv, BootInv, ReloadInv, QuitInv
    <2> QED BY <2>3, <2>4
  <1> QED BY <1>0, <1>2, <1>3, <1>4, <1>5

(* The calls of an init(). *)
LEMMA OpeningStep ==
  ASSUME EngineAssumption, TypeOK, Belongings, Phases, UnbuiltInv, UnbuiltInv', [Next]_vars, Opening
  PROVE  Phases'
  <1>0. /\ MainType /\ built' = built /\ job \in {"boot", "reload"} /\ on \in built
        /\ running \in [Backend -> BOOLEAN] /\ Callback = {"pipewire", "wasapi"}
        /\ Backend = {"pulse", "pipewire", "wasapi"} /\ step \in 1 .. 7
        /\ held \in [Callback -> SUBSET (Kept["pipewire"] \cup Kept["wasapi"])]
        /\ opened \in [Backend -> Wishes \cup {NoDevice}]
    <2>1. at \in {"open", "wait"}
      BY DEF Opening, PaOpen, PaFails, PwTakes, PwFails, PwReady, WaTakes, WaFails, WaOpen
    <2>2. job \in {"boot", "reload"}
      BY <2>1 DEF Phases, AtOn, QuitInv
    <2> QED BY <2>2, TypeParts, BuiltKept, CleanIs DEF TypeOK, Callback, Phases, AtOn
  <1>c. \A b \in Backend : Clean(b) /\ b # on => Clean(b)'
    BY CleanStep DEF Phases
  <1>1. CASE PaOpen \/ PwReady \/ WaOpen
    <2>1. /\ initialized' = [initialized EXCEPT ![on] = TRUE] /\ ~missed' /\ Opened
          /\ at \in {"open", "wait"} /\ UNCHANGED <<given, last, reloads>>
      BY <1>1 DEF PaOpen, PwReady, WaOpen, Phases, AtOn
    <2>2. opened'[on] = options.device
      BY <1>0, <1>1 DEF PaOpen, PwReady, WaOpen, ask, Phases, AtOn
    <2> QED BY <1>c, <2>1, <2>2, OpenedStep
  <1>2. CASE PaFails \/ PwFails
    <2>1. /\ Throw /\ at = "open" /\ paStream' \in {paStream, "null"}
          /\ UNCHANGED <<given, flags, last, reloads, held>>
      BY <1>2 DEF PaFails, PwFails, Fails, pw
    <2> QED BY <2>1, ThrowStep
  <1>3. CASE WaFails
    <2>0. /\ at = "open" /\ on = "wasapi" /\ UNCHANGED <<given, flags, last, reloads, held, paStream>>
      BY <1>3 DEF WaFails, Fails, pw
    <2>1. CASE Throw
      BY <2>0, <2>1, ThrowStep
    <2>2. CASE at' = "clean" /\ next' = "throw" /\ UNCHANGED <<job, on, step>>
      <3>1. AtOn'
        BY <1>0, <2>0, <2>2 DEF AtOn
      <3>2. BootInv'
        BY <2>0, <2>2 DEF Phases, BootInv
      <3>3. ReloadInv'
        <4>1. CASE job = "reload"
          <5>1. \A b \in Backend \ {on} : Clean(b)
            BY <4>1 DEF Phases, ReloadInv, Only
          <5>2. Only({on})'
            BY <1>c, <2>2, <5>1 DEF Only
          <5> QED BY <2>0, <2>2, <4>1, <5>2 DEF Phases, ReloadInv, given
        <4>2. CASE job # "reload"
          BY <2>2, <4>2 DEF ReloadInv
        <4> QED BY <4>1, <4>2
      <3> QED BY <1>0, <2>2, <3>1, <3>2, <3>3 DEF Phases, IdleInv, QuitInv
    <2> QED BY <1>3, <2>1, <2>2 DEF WaFails
  <1>4. CASE PwTakes \/ WaTakes
    <2>0. /\ UNCHANGED <<given, job, on, next, flags, last, reloads, paStream, waThread>>
          /\ at = "open" /\ at' \in {"open", "wait"}
          /\ on \in {"pipewire", "wasapi"}
          /\ on = "wasapi" => at' = "open"
      BY <1>4 DEF PwTakes, WaTakes, wa, counts
    <2>1. AtOn'
      <3>1. CASE PwTakes
        <4>1. at' = "open" => "link" \notin held'["pipewire"] /\ "loop" \in held'["pipewire"]
          <5>1. CASE step = 1
            BY <1>0, <3>1, <5>1, CallsEnd DEF PwTakes, Phases, AtOn
          <5>2. CASE step # 1
            BY <1>0, <3>1, <5>2, CallsEnd DEF PwTakes, Phases, AtOn
          <5> QED BY <5>1, <5>2
        <4>2. at' = "wait" => opened'["pipewire"] = options.device
          BY <1>0, <3>1 DEF PwTakes
        <4>3. on = "pipewire"
          BY <3>1 DEF PwTakes
        <4> QED BY <1>0, <2>0, <4>1, <4>2, <4>3 DEF AtOn, given
      <3>2. CASE WaTakes
        <4>1. step \in 1 .. 6 /\ step # 6 /\ step' = step + 1 /\ at' = "open" /\ on = "wasapi"
              /\ waThread = "none"
          BY <1>0, <3>2, CallsEnd DEF WaTakes, Phases, AtOn
        <4> QED BY <1>0, <2>0, <4>1 DEF AtOn
      <3> QED BY <1>4, <3>1, <3>2
    <2>2. BootInv'
      <3>1. CASE job = "boot"
        <4>1. /\ reloads = 0 /\ last = [b \in Backend |-> NoDevice] /\ next = "done"
              /\ \A b \in Backend : ~initialized[b]
              /\ Only({on, "pipewire"})
              /\ on # "pipewire" => "link" \notin held["pipewire"] /\ ~running["pipewire"]
              /\ on = "wasapi" => Only({on})
          BY <2>0, <3>1 DEF Phases, BootInv
        <4>2. Only({on, "pipewire"})'
          BY <1>c, <2>0, <4>1 DEF Only
        <4>3. on = "wasapi" => Only({on})'
          BY <1>c, <2>0, <4>1 DEF Only
        <4>4. on # "pipewire" => held'["pipewire"] = held["pipewire"]
          BY <1>0, <1>4 DEF PwTakes, WaTakes
        <4> QED BY <2>0, <4>1, <4>2, <4>3, <4>4 DEF BootInv, flags
      <3>2. CASE job # "boot"
        BY <2>0, <3>2 DEF BootInv
      <3> QED BY <3>1, <3>2
    <2>3. ReloadInv'
      <3>1. CASE job = "reload"
        <4>1. \A b \in Backend \ {on} : Clean(b)
          BY <3>1 DEF Phases, ReloadInv, Only
        <4>2. Only({on})'
          BY <1>c, <2>0, <4>1 DEF Only
        <4> QED BY <2>0, <3>1, <4>2 DEF Phases, ReloadInv, given
      <3>2. CASE job # "reload"
        BY <2>0, <3>2 DEF ReloadInv
      <3> QED BY <3>1, <3>2
    <2> QED BY <1>0, <2>0, <2>1, <2>2, <2>3 DEF Phases, IdleInv, QuitInv
  <1> QED BY <1>1, <1>2, <1>3, <1>4, Zenon DEF Opening

(* The calls of a cleanup(). *)
LEMMA ClosingStep ==
  ASSUME EngineAssumption, TypeOK, Belongings, Phases, UnbuiltInv, UnbuiltInv', [Next]_vars, Closing
  PROVE  Phases'
  <1>0. /\ MainType /\ built' = built /\ job \in {"boot", "reload", "quit"} /\ on \in built
        /\ at \notin {"open", "wait", "none"}
        /\ initialized \in [Backend -> BOOLEAN] /\ running \in [Backend -> BOOLEAN]
        /\ Callback = {"pipewire", "wasapi"} /\ Backend = {"pulse", "pipewire", "wasapi"}
        /\ held \in [Callback -> SUBSET (Kept["pipewire"] \cup Kept["wasapi"])] /\ on \in Backend
    <2>1. at \notin {"open", "wait", "none"}
      BY DEF Closing, PaFree, PaNull, PwDestroy, PwStop, PwFree, WaClean, WaJoin
    <2>2. job \in {"boot", "reload", "quit"}
      BY <2>1 DEF Phases, AtOn
    <2> QED BY <2>1, <2>2, TypeParts, BuiltKept, CleanIs DEF TypeOK, Callback, Phases, AtOn
  <1>c. \A b \in Backend : Clean(b) /\ b # on => Clean(b)'
    BY CleanStep DEF Phases
  <1>1. CASE PaFree \/ PwDestroy \/ PwStop \/ WaClean
    <2>0. /\ UNCHANGED <<given, job, on, step, next, last, opened, target, reloads, missed, dspPc>>
          /\ at' \in {"null", "stop", "free", "join"}
          /\ paStream' = IF PaFree /\ paStream = "open" THEN "freed" ELSE paStream
          /\ \A b \in Backend \ {on} : initialized'[b] = initialized[b]
          /\ ~initialized[on] => ~initialized'[on]
      BY <1>0, <1>1 DEF PaFree, PwDestroy, PwStop, WaClean, flags, ask, counts, dsp
    <2>1. AtOn'
      <3>1. /\ at' = "null" => on = "pulse"
            /\ at' \in {"stop", "free"} => on = "pipewire"
            /\ at' = "join" => on = "wasapi" /\ ~initialized'["wasapi"]
        BY <1>0, <1>1 DEF PaFree, PwDestroy, PwStop, WaClean, Phases, AtOn
      <3> QED BY <1>0, <2>0, <3>1 DEF AtOn
    <2>2. BootInv'
      <3>1. CASE job = "boot" /\ next # "throw"
        <4>1. /\ reloads = 0 /\ last = [b \in Backend |-> NoDevice]
              /\ next = "done" /\ built = {"pulse", "pipewire"}
              /\ ~missed /\ ~initialized[on] /\ (on = "pulse" => paStream = "null")
          BY <1>0, <3>1 DEF Phases, BootInv
        <4>2. PICK b \in built \ {on} : initialized[b] /\ opened[b] = options.device
          BY <1>0, <3>1 DEF Phases, BootInv
        <4>3. Only(built)'
          BY DEF UnbuiltInv
        <4>4. initialized'[b] /\ opened'[b] = options'.device /\ b \in built' \ {on'}
          BY <1>0, <2>0, <4>1, <4>2 DEF given
        <4>5. on' = "pulse" => paStream' = "null"
          BY <2>0, <4>1
        <4> QED BY <1>0, <2>0, <4>1, <4>3, <4>4, <4>5 DEF BootInv
      <3>2. CASE job = "boot" /\ next = "throw"
        BY <1>0, <2>0, <3>2 DEF Phases, BootInv
      <3>3. CASE job # "boot"
        BY <2>0, <3>3 DEF BootInv
      <3> QED BY <3>1, <3>2, <3>3
    <2>3. ReloadInv'
      <3>1. CASE job = "reload"
        <4>1. \A b \in Backend \ {on} : Clean(b)
          BY <3>1 DEF Phases, ReloadInv, Only
        <4>2. Only({on})'
          BY <1>c, <2>0, <4>1 DEF Only
        <4> QED BY <2>0, <3>1, <4>2 DEF Phases, ReloadInv, given
      <3>2. CASE job # "reload"
        BY <2>0, <3>2 DEF ReloadInv
      <3> QED BY <3>1, <3>2
    <2>4. QuitInv'
      <3>1. CASE job = "quit"
        <4>1. next = "quit" /\ Only(IF on = "pulse" THEN {"pulse", "pipewire"} ELSE {on})
          BY <1>0, <3>1 DEF Phases, QuitInv
        <4>2. Only(IF on = "pulse" THEN {"pulse", "pipewire"} ELSE {on})'
          BY <1>0, <1>c, <2>0, <4>1 DEF Only
        <4> QED BY <1>0, <2>0, <3>1, <4>1, <4>2 DEF QuitInv
      <3>2. CASE job # "quit"
        BY <1>0, <2>0, <3>2 DEF QuitInv
      <3> QED BY <3>1, <3>2
    <2> QED BY <1>0, <2>0, <2>1, <2>2, <2>3, <2>4 DEF Phases, IdleInv
  <1>2. CASE PaNull \/ PwFree \/ WaJoin
    <2>0. /\ Return /\ at \in {"null", "free", "join"}
          /\ UNCHANGED <<given, last, opened, missed, reloads>>
          /\ \A b \in Backend \ {on} : initialized'[b] = initialized[b]
          /\ on = "wasapi" => UNCHANGED <<flags, paStream>> /\ held'["pipewire"] = held["pipewire"]
      BY <1>0, <1>2 DEF PaNull, PwFree, WaJoin, ask, counts, flags, Phases, AtOn
    <2>1. PICK c \in Backend : c = on
      BY <1>0
    <2>2. Clean(c)'
      <3>1. CASE PaNull
        <4>1. ~initialized'["pulse"] /\ ~running'["pulse"] /\ paStream' = "null" /\ c = "pulse"
          BY <1>0, <2>1, <3>1 DEF PaNull, Phases, AtOn
        <4> QED BY <4>1, CleanNext
      <3>2. CASE PwFree
        <4>1. ~initialized'["pipewire"] /\ ~running'["pipewire"] /\ c = "pipewire"
          BY <1>0, <2>1, <3>2 DEF PwFree, Phases, AtOn
        <4>2. held'["pipewire"] = {}
          BY <1>0, <3>2, CallsAre DEF PwFree, Belongings, Clients
        <4> QED BY <4>1, <4>2, CleanNext
      <3>3. CASE WaJoin
        <4>1. ~initialized["wasapi"] /\ ~running["wasapi"] /\ c = "wasapi"
          BY <1>0, <2>1, <3>3 DEF WaJoin, Phases, AtOn, Belongings
        <4>2. /\ ~initialized'["wasapi"] /\ ~running'["wasapi"] /\ held'["wasapi"] = {}
              /\ wfx' # "live" /\ waThread' = "none"
          BY <1>0, <3>3, <4>1 DEF WaJoin, flags
        <4> QED BY <4>1, <4>2, CleanNext
      <3> QED BY <1>2, <3>1, <3>2, <3>3
    <2>3. next = "throw" => Phases'
      <3> SUFFICES ASSUME next = "throw" PROVE Phases'
        OBVIOUS
      <3>1. Throw
        BY <2>0 DEF Return
      <3>2. CASE job = "boot"
        <4>1. on = "wasapi"
          BY <1>0, <3>2 DEF Phases, BootInv
        <4> QED BY <1>0, <2>0, <3>1, <4>1, ThrowStep
      <3>3. CASE job # "boot"
        <4>1. CleanUp
          BY <3>1, <3>3 DEF Throw
        <4> QED BY <1>0, <4>1, QuitStarts
      <3> QED BY <3>2, <3>3
    <2> QED BY <1>c, <2>0, <2>1, <2>2, <2>3, ReturnStep
  <1> QED BY <1>1, <1>2, Zenon DEF Closing

(* Steps that are not of main, and no step at all. *)
LEMMA BesideStep ==
  ASSUME EngineAssumption, TypeOK, Belongings, Phases, UnbuiltInv, UnbuiltInv', [Next]_vars,
         Beside \/ UNCHANGED vars
  PROVE  Phases'
  <1>0. /\ UNCHANGED <<given, control, last, opened, target, reloads, missed, paStream, wfx, initialized>>
        /\ running \in [Backend -> BOOLEAN] /\ Callback = {"pipewire", "wasapi"}
        /\ Backend = {"pulse", "pipewire", "wasapi"}
        /\ held \in [Callback -> SUBSET (Kept["pipewire"] \cup Kept["wasapi"])]
    BY BesideLeavesMain, CleanIs DEF vars, flags, ask, counts, wa, TypeOK, Callback
  <1>1. \A b \in Backend : Clean(b) => Clean(b)'
    <2> SUFFICES ASSUME NEW b \in Backend, Clean(b) PROVE Clean(b)'
      OBVIOUS
    <2>1. CASE Beside
      BY <2>1, BesideKeepsClean
    <2>2. CASE UNCHANGED vars
      BY <2>2 DEF Clean, Holds, vars, flags, pw, wa
    <2> QED BY <2>1, <2>2
  <1>2. /\ held'["pipewire"] \subseteq held["pipewire"]
        /\ "loop" \in held["pipewire"] => "loop" \in held'["pipewire"]
        /\ running'["pulse"] => running["pulse"]
        /\ running'["pipewire"] /\ ~running["pipewire"] => "link" \in held["pipewire"]
        /\ waThread = "none" => waThread' = "none"
        /\ job = "ended" => dspPc' = dspPc
    <2>1. CASE LoopNext
      BY <1>0, <2>1 DEF LoopNext, PwStreams, PwBreaks, PwProcess, PwAnnounce, flags, pw, wa, dsp
    <2>2. CASE WaNext
      BY <1>0, <2>2 DEF WaNext, WaStart, WaWakes, WaPacket, WaDrains, WaGone, WaEnds, Fails, flags, pw, wa, dsp
    <2>3. CASE DspNext
      BY <1>0, <2>3 DEF DspNext, DspPicks, DspEnters, DspReturns, DspReadFails, DspWaited, DspEnds,
                        Alive, Stopping, flags, pw, wa
    <2>4. CASE UNCHANGED vars
      BY <2>4 DEF vars, flags, pw, wa, dsp
    <2> QED BY <2>1, <2>2, <2>3, <2>4 DEF Beside
  <1>3. AtOn'
    BY <1>0, <1>2 DEF Phases, AtOn, given, control
  <1>4. IdleInv'
    <2>1. CASE job \in {"idle", "list"}
      <3>1. PICK b \in built :
              /\ at = "none" /\ initialized[b] /\ Only({b})
              /\ last[b] \in {NoDevice, opened[b]}
              /\ ~missed => opened[b] = options.device
              /\ running["pulse"] /\ last["pulse"] = NoDevice => reloads = 0
        BY <2>1 DEF Phases, IdleInv
      <3>2. Only({b})'
        BY <1>1, <3>1 DEF Only
      <3>3. /\ at' = "none" /\ initialized'[b] /\ b \in built'
            /\ last'[b] \in {NoDevice, opened'[b]}
            /\ ~missed' => opened'[b] = options'.device
            /\ running'["pulse"] /\ last'["pulse"] = NoDevice => reloads' = 0
        BY <1>0, <1>2, <3>1 DEF given, control
      <3> QED BY <3>2, <3>3 DEF IdleInv
    <2>2. CASE job \notin {"idle", "list"}
      BY <1>0, <2>2 DEF IdleInv, control
    <2> QED BY <2>1, <2>2
  <1>5. BootInv'
    <2>1. CASE job = "boot" /\ at \in {"open", "wait"}
      <3>1. /\ reloads = 0 /\ last = [b \in Backend |-> NoDevice] /\ next = "done"
            /\ \A b \in Backend : ~initialized[b]
            /\ Only({on, "pipewire"})
            /\ on # "pipewire" => "link" \notin held["pipewire"] /\ ~running["pipewire"]
            /\ on = "wasapi" => Only({on})
        BY <2>1 DEF Phases, BootInv
      <3>2. Only({on, "pipewire"})' /\ (on = "wasapi" => Only({on})')
        BY <1>0, <1>1, <3>1 DEF Only, control
      <3>3. on # "pipewire" => "link" \notin held'["pipewire"] /\ ~running'["pipewire"]
        BY <1>2, <3>1
      <3> QED BY <1>0, <2>1, <3>1, <3>2, <3>3 DEF BootInv, control
    <2>2. CASE job = "boot" /\ at \notin {"open", "wait"} /\ next # "throw"
      <3>1. /\ reloads = 0 /\ last = [b \in Backend |-> NoDevice]
            /\ next = "done" /\ built = {"pulse", "pipewire"}
            /\ ~missed /\ ~initialized[on] /\ (on = "pulse" => paStream = "null")
            /\ \E b \in built \ {on} : initialized[b] /\ opened[b] = options.device
        BY <2>2 DEF Phases, BootInv
      <3>2. Only(built)'
        BY DEF UnbuiltInv
      <3> QED BY <1>0, <2>2, <3>1, <3>2 DEF BootInv, given, control
    <2>3. CASE job = "boot" /\ at \notin {"open", "wait"} /\ next = "throw"
      BY <1>0, <2>3 DEF Phases, BootInv, control
    <2>4. CASE job # "boot"
      BY <1>0, <2>4 DEF BootInv, control
    <2> QED BY <2>1, <2>2, <2>3, <2>4
  <1>6. ReloadInv'
    <2>1. CASE job = "reload"
      <3>1. Only({on})'
        BY <1>0, <1>1, <2>1 DEF Phases, ReloadInv, Only, control
      <3> QED BY <1>0, <2>1, <3>1 DEF Phases, ReloadInv, given, control
    <2>2. CASE job # "reload"
      BY <1>0, <2>2 DEF ReloadInv, control
    <2> QED BY <2>1, <2>2
  <1>7. QuitInv'
    <2>1. CASE job = "quit"
      <3>1. at = "none" => Only({})'
        BY <1>1, <2>1 DEF Phases, QuitInv, Only
      <3>2. at # "none" => Only(IF on = "pulse" THEN {"pulse", "pipewire"} ELSE {on})'
        BY <1>0, <1>1, <2>1 DEF Phases, QuitInv, Only, control
      <3> QED BY <1>0, <2>1, <3>1, <3>2 DEF Phases, QuitInv, control
    <2>2. CASE job = "ended"
      <3>1. Only({})'
        BY <1>1, <2>2 DEF Phases, QuitInv, Only
      <3> QED BY <1>0, <1>2, <2>2, <3>1 DEF Phases, QuitInv, control
    <2>3. CASE job \notin {"quit", "ended"}
      BY <1>0, <2>3 DEF QuitInv, control
    <2> QED BY <2>1, <2>2, <2>3
  <1> QED BY <1>3, <1>4, <1>5, <1>6, <1>7 DEF Phases

(* What runs is what was opened; it is closed when the configuration changed. *)
LEMMA ReloadStep ==
  ASSUME EngineAssumption, TypeOK, Phases, UnbuiltInv', NEW wish \in Wishes, Reload(wish)
  PROVE  Phases'
  <1>0. /\ job = "idle" /\ at = "none" /\ built' = built /\ options'.device = wish
        /\ reloads \in Nat /\ reloads' = reloads + 1
        /\ UNCHANGED <<flags, opened, paStream, pw, wa, dsp>>
        /\ wish # NoDevice /\ Backend = {"pulse", "pipewire", "wasapi"} /\ built \subseteq Backend
        /\ last \in [Backend -> Wishes \cup {NoDevice}] /\ on \in built
    <2>1. /\ job = "idle" /\ built' = built /\ reloads' = reloads + 1
          /\ options' = [options EXCEPT !.device = wish]
          /\ UNCHANGED <<flags, opened, paStream, pw, wa, dsp>>
      BY DEF Reload, ask
    <2>2. at = "none" /\ on \in built
      BY <2>1 DEF Phases, AtOn
    <2>3. options'.device = wish /\ reloads \in Nat /\ last \in [Backend -> Wishes \cup {NoDevice}]
      <3>1. options \in Options /\ reloads \in 0 .. MaxReloads
            /\ last \in [Backend -> Wishes \cup {NoDevice}]
        BY DEF TypeOK
      <3>2. options'.device = wish
        BY <2>1, <3>1 DEF Options
      <3> QED BY <3>1, <3>2
    <2>4. wish # NoDevice
      BY DEF EngineAssumption
    <2>5. Backend = {"pulse", "pipewire", "wasapi"} /\ built \subseteq Backend
      BY TypeParts, BuiltIs, CleanIs
    <2> QED BY <2>1, <2>2, <2>3, <2>4, <2>5
  <1>1. PICK b \in built :
          /\ initialized[b] /\ Only({b})
          /\ last[b] \in {NoDevice, opened[b]}
          /\ ~missed => opened[b] = options.device
          /\ running["pulse"] /\ last["pulse"] = NoDevice => reloads = 0
    BY <1>0 DEF Phases, IdleInv
  <1>2. \A o \in Backend \ {b} : ~running[o]
    BY <1>1 DEF Only, Clean
  <1>3. Only({b})'
    BY <1>0, <1>1 DEF Only, Clean, Holds, flags, pw, wa
  <1>4. ASSUME UNCHANGED <<control, last>>, ~missed' => last[b] = wish,
               running["pulse"] => last["pulse"] # NoDevice
        PROVE  Phases'
    <2>1. ~missed' => opened[b] = wish
      BY <1>0, <1>1, <1>4
    <2>2. IdleInv'
      <3>1. /\ at' = "none" /\ initialized'[b] /\ b \in built'
            /\ last'[b] \in {NoDevice, opened'[b]}
            /\ ~missed' => opened'[b] = options'.device
            /\ running'["pulse"] => last'["pulse"] # NoDevice
        BY <1>0, <1>1, <1>4, <2>1 DEF control, flags
      <3> QED BY <1>3, <3>1 DEF IdleInv
    <2>3. AtOn' /\ job' = "idle"
      BY <1>0, <1>4 DEF AtOn, control
    <2> QED BY <2>2, <2>3 DEF Phases, BootInv, ReloadInv, QuitInv
  <1>5. CASE /\ \A o \in Backend : ~running[o]
             /\ missed' = TRUE
             /\ UNCHANGED <<control, last>>
    BY <1>0, <1>4, <1>5
  <1>6. ASSUME NEW c \in Backend, Runs(c), Unchanged(c, wish), missed' = FALSE, UNCHANGED <<control, last>>
        PROVE  Phases'
    <2>1. c = b /\ last[b] = wish
      BY <1>2, <1>6 DEF Runs, Unchanged
    <2>2. running["pulse"] => last["pulse"] # NoDevice
      BY <1>0, <1>2, <2>1
    <2> QED BY <1>4, <1>6, <2>1, <2>2
  <1>7. ASSUME NEW c \in Backend, Runs(c), ~Unchanged(c, wish), job' = "reload",
               last' = Remembered(c, wish), BeginInit(c)
        PROVE  Phases'
    <2>1. c = b /\ last[b] # wish /\ running[b]
      BY <1>2, <1>7 DEF Runs, Unchanged
    <2>2. at' = "clean" /\ next' = "open" /\ on' = b
      BY <1>1, <1>7, <2>1 DEF BeginInit
    <2>3. last'[b] = wish
      BY <1>0, <1>7, <2>1 DEF Remembered
    <2>4. b = "pulse" => wish # opened["pulse"] \/ reloads' = 1
      BY <1>0, <1>1, <2>1
    <2>5. Only({on})'
      BY <1>3, <2>2 DEF Only
    <2>6. ReloadInv'
      BY <1>0, <1>7, <2>2, <2>3, <2>4, <2>5 DEF ReloadInv
    <2>7. AtOn'
      BY <1>0, <1>7, <2>2 DEF AtOn
    <2> QED BY <1>7, <2>6, <2>7 DEF Phases, IdleInv, BootInv, QuitInv
  <1> QED BY <1>5, <1>6, <1>7 DEF Reload

(* The other steps of main. *)
LEMMA RestStep ==
  ASSUME EngineAssumption, TypeOK, Phases, UnbuiltInv', [Next]_vars,
         Quit \/ ListFails \/ Returns \/ Crash \/ ListDevices \/ Listed
  PROVE  Phases'
  <1>0. /\ MainType /\ built' = built /\ UNCHANGED <<given, flags, last, opened, reloads, paStream, pw, wa>>
    BY TypeParts, BuiltKept DEF Quit, ListFails, Returns, Crash, ListDevices, Listed, Fails, ask, counts
  <1>1. CASE Quit \/ ListFails
    <2>1. CleanUp
      BY <1>1 DEF Quit, ListFails
    <2> QED BY <1>0, <2>1, QuitStarts
  <1>2. CASE Returns
    <2>1. /\ job = "quit" /\ at = "none" /\ job' = "ended" /\ at' = "none" /\ on' = on /\ dspPc' = "ended"
      BY <1>2 DEF Returns, dsp
    <2>2. Only({})
      BY <2>1 DEF Phases, QuitInv
    <2>3. Only({})'
      BY <1>0, <2>2 DEF Only, Clean, Holds, flags, pw, wa
    <2> QED BY <1>0, <2>1, <2>3 DEF Phases, AtOn, IdleInv, BootInv, ReloadInv, QuitInv
  <1>3. CASE Crash
    <2>1. job' = "died" /\ at' = "none" /\ on' = on
      BY <1>3 DEF Crash
    <2> QED BY <1>0, <2>1 DEF Phases, AtOn, IdleInv, BootInv, ReloadInv, QuitInv
  <1>4. CASE ListDevices \/ Listed
    <2>1. job \in {"idle", "list"} /\ job' \in {"idle", "list"} /\ UNCHANGED <<at, on, missed>>
      BY <1>4 DEF ListDevices, Listed, counts
    <2>2. PICK b \in built :
            /\ at = "none" /\ initialized[b] /\ Only({b})
            /\ last[b] \in {NoDevice, opened[b]}
            /\ ~missed => opened[b] = options.device
            /\ running["pulse"] /\ last["pulse"] = NoDevice => reloads = 0
      BY <2>1 DEF Phases, IdleInv
    <2>3. Only({b})'
      BY <1>0, <2>2 DEF Only, Clean, Holds, flags, pw, wa
    <2>4. /\ at' = "none" /\ initialized'[b] /\ b \in built'
          /\ last'[b] \in {NoDevice, opened'[b]}
          /\ ~missed' => opened'[b] = options'.device
          /\ running'["pulse"] /\ last'["pulse"] = NoDevice => reloads' = 0
      BY <1>0, <2>1, <2>2 DEF given, flags
    <2>5. IdleInv'
      BY <2>3, <2>4 DEF IdleInv
    <2>6. AtOn'
      BY <1>0, <2>1, <2>2 DEF Phases, AtOn
    <2> QED BY <2>1, <2>5, <2>6 DEF Phases, BootInv, ReloadInv, QuitInv
  <1> QED BY <1>1, <1>2, <1>3, <1>4

-----------------------------------------------------------------------------
(* EngineInv is inductive. *)

LEMMA EngineInit ==
  ASSUME EngineAssumption, EngineBounds, Init
  PROVE  EngineInv
  <1>1. PICK o \in Options : options = [o EXCEPT !.engine = Effective(o.engine)]
    BY DEF Init
  <1>2. built \in Builds /\ built \subseteq Backend /\ built # {}
    BY DEF Init, EngineAssumption
  <1>3. options \in Options /\ options.engine \in built \cup {"auto"}
    BY <1>1, <1>2 DEF Options, Engine, Effective
  <1>4. "auto" \notin built
    BY <1>2 DEF Backend
  <1>5. FirstTry(options.engine) \in built
    BY <1>2, <1>3, <1>4 DEF FirstTry, Backend
  <1>6. /\ on \in built /\ at = "open" /\ step = 1 /\ job = "boot" /\ next = "done" /\ paStream = "null"
        /\ initialized = [b \in Backend |-> FALSE] /\ running = [b \in Backend |-> FALSE]
        /\ held = [b \in Callback |-> {}] /\ waThread = "none" /\ wfx = "null"
        /\ reloads = 0 /\ last = [b \in Backend |-> NoDevice]
    BY <1>5 DEF Init
  <1>7. Callback = {"pipewire", "wasapi"} /\ Backend = {"pulse", "pipewire", "wasapi"}
    BY DEF Callback, Backend
  <1>8. \A S : Only(S)
    <2>1. Clean("pulse") /\ Clean("pipewire") /\ Clean("wasapi")
      BY <1>6, <1>7, CleanIs
    <2> QED BY <1>7, <2>1 DEF Only
  <1>9. TypeOK
    <2>1. MainType
      BY <1>2, <1>3, <1>6 DEF MainType
    <2>2. StreamType
      BY <1>6 DEF Init, StreamType
    <2>3. HeldType
      <3>1. /\ paStream = "null" /\ known = {} /\ locked = FALSE /\ waThread = "none" /\ wfx = "null"
            /\ gone = FALSE
        BY DEF Init
      <3>2. held \in [Callback -> SUBSET (Kept["pipewire"] \cup Kept["wasapi"])]
        BY <1>6
      <3> QED BY <3>1, <3>2 DEF HeldType
    <2>4. RestType
      <3>1. /\ dspPc = "off" /\ readSig = FALSE /\ reloads = 0 /\ faults = 0
            /\ failed = {} /\ missed = FALSE /\ harm = {}
        BY DEF Init
      <3>2. 0 \in 0 .. MaxReloads /\ 0 \in 0 .. MaxFaults
        BY DEF EngineBounds
      <3> QED BY <3>1, <3>2 DEF RestType
    <2> QED BY <2>1, <2>2, <2>3, <2>4, TypeParts
  <1>10. held["pipewire"] = {} /\ \A b \in Backend : ~running[b] /\ ~initialized[b]
    BY <1>6, <1>7
  <1>11. AtOn
    <2>1. /\ on \in built /\ at = "open" /\ step = 1 /\ job = "boot" /\ paStream = "null"
          /\ waThread = "none" /\ "link" \notin held["pipewire"]
      BY <1>6, <1>10
    <2>2. ~(step > 1) /\ step <= 6
      BY <2>1
    <2> QED BY <2>1, <2>2 DEF AtOn
  <1>12. Belongings
    BY <1>6, <1>7, <1>10 DEF Belongings
  <1>13. BootInv
    BY <1>6, <1>7, <1>8, <1>10 DEF BootInv
  <1> QED BY <1>6, <1>8, <1>9, <1>11, <1>12, <1>13
          DEF EngineInv, UnbuiltInv, IdleInv, ReloadInv, QuitInv

LEMMA EngineNext ==
  ASSUME EngineAssumption, EngineBounds, EngineInv, [Next]_vars
  PROVE  EngineInv'
  <1>1. TypeOK /\ Belongings /\ UnbuiltInv /\ Phases /\ AtOn
    BY DEF EngineInv, Phases
  <1>2. TypeOK' /\ Belongings' /\ UnbuiltInv'
    BY <1>1, TypeStep, BelongingsStep, UnbuiltStep
  <1>3. CASE Opening
    BY <1>1, <1>2, <1>3, OpeningStep DEF EngineInv, Phases
  <1>4. CASE Closing
    BY <1>1, <1>2, <1>4, ClosingStep DEF EngineInv, Phases
  <1>5. CASE Quit \/ ListFails \/ Returns \/ Crash \/ ListDevices \/ Listed
    BY <1>1, <1>2, <1>5, RestStep DEF EngineInv, Phases
  <1>6. ASSUME NEW wish \in Wishes, Reload(wish) PROVE EngineInv'
    BY <1>1, <1>2, <1>6, ReloadStep DEF EngineInv, Phases
  <1>7. CASE Beside \/ UNCHANGED vars
    BY <1>1, <1>2, <1>7, BesideStep DEF EngineInv, Phases
  <1> QED BY <1>3, <1>4, <1>5, <1>6, <1>7, Zenon DEF Next, MainNext, Beside

LEMMA EngineIsInvariant == Spec => []EngineInv
  <1>1. Init => EngineInv
    BY EngineInit, EngineAssumption, EngineBounds
  <1>2. EngineInv /\ [Next]_vars => EngineInv'
    BY EngineNext, EngineAssumption, EngineBounds
  <1> QED BY <1>1, <1>2, PTL DEF Spec

-----------------------------------------------------------------------------
(* The theorems. *)

(* Every variable has its type: init() of PipeWire takes no eighth call, and *)
(* that of WASAPI no seventh, whatever fails and however often.              *)
THEOREM TypeCorrect == Spec => []TypeOK
  <1>1. EngineInv => TypeOK
    BY DEF EngineInv
  <1> QED BY <1>1, EngineIsInvariant, PTL

(* While the loop runs, one backend is open, and nothing is left of another:  *)
(* not of PipeWire, whose init() threw half-way before Pulse was tried, and   *)
(* not of what was opened beside it (AudioEngine::init and cleanup).          *)
THEOREM OneBackendHolds == Spec => []OneBackend
  <1>1. EngineInv => OneBackend
    BY DEF EngineInv, IdleInv, Only, Clean, OneBackend
  <1> QED BY <1>1, EngineIsInvariant, PTL

(* A program that ends has closed all it opened, after exceptions too         *)
(* (AudioEngine::cleanup at the end of main).                                 *)
THEOREM NothingIsLeftHolds == Spec => []NothingIsLeft
  <1>1. EngineInv => NothingIsLeft
    BY DEF EngineInv, QuitInv, Only, Clean, NothingIsLeft
  <1> QED BY <1>1, EngineIsInvariant, PTL

(* The stream that is open is the one the configuration asks for, unless the  *)
(* last reload came while nothing ran (the reconfigure() of each backend).    *)
THEOREM StreamIsCurrentHolds == Spec => []StreamIsCurrent
  <1>1. EngineInv => StreamIsCurrent
    BY DEF EngineInv, IdleInv, Only, Clean, StreamIsCurrent
  <1> QED BY <1>1, EngineIsInvariant, PTL

(* Only the exit, the first reload, and a reload that asks for another device *)
(* free Pulse's stream (Pulseaudio::reconfigure and cleanup).                 *)
THEOREM StreamSurvives == Spec => StreamSurvivesReload
  <1> DEFINE Survives == paStream = "open" /\ paStream' = "freed"
                           => job = "quit" \/ options.device # opened["pulse"] \/ reloads = 1
  <1>1. ASSUME EngineInv, [Next]_vars PROVE [Survives]_vars
    <2>1. CASE PaFree
      <3>1. at = "clean" /\ on = "pulse" /\ job \in {"boot", "reload", "quit"}
        BY <1>1, <2>1 DEF PaFree, EngineInv, AtOn
      <3>2. job = "boot" => paStream = "null"
        BY <1>1, <3>1 DEF EngineInv, BootInv
      <3>3. job = "reload" /\ paStream = "open" => options.device # opened["pulse"] \/ reloads = 1
        BY <1>1, <3>1 DEF EngineInv, ReloadInv
      <3> QED BY <3>1, <3>2, <3>3
    <2>2. CASE PaOpen \/ PaFails \/ PaNull
      BY <2>2 DEF PaOpen, PaFails, PaNull
    <2>3. CASE paStream' = paStream
      BY <2>3
    <2>4. CASE PwTakes \/ PwFails \/ PwReady \/ WaTakes \/ WaFails \/ WaOpen
      BY <2>3, <2>4 DEF PwTakes, PwFails, PwReady, WaTakes, WaFails, WaOpen
    <2>5. CASE PwDestroy \/ PwStop \/ PwFree \/ WaClean \/ WaJoin
      BY <2>3, <2>5 DEF PwDestroy, PwStop, PwFree, WaClean, WaJoin
    <2>6. CASE Quit \/ ListFails \/ Returns \/ Crash \/ ListDevices \/ Listed
      BY <2>3, <2>6 DEF Quit, ListFails, Returns, Crash, ListDevices, Listed
    <2>7. ASSUME NEW wish \in Wishes, Reload(wish) PROVE [Survives]_vars
      BY <2>3, <2>7 DEF Reload
    <2>8. CASE Beside \/ UNCHANGED vars
      BY <2>3, <2>8, BesideLeavesMain DEF vars
    <2> QED BY <1>1, <2>1, <2>2, <2>4, <2>5, <2>6, <2>7, <2>8, Zenon
            DEF Next, MainNext, Opening, Closing, Beside
  <1> QED BY <1>1, EngineIsInvariant, PTL DEF Spec, StreamSurvivesReload

=============================================================================
