--------------------------- MODULE DspThreads_proofs ---------------------------
(***************************************************************************)
(* Proofs about DspThreads, for every set of options and every bound.      *)
(*                                                                         *)
(* The safety properties rest on one inductive invariant.  MutexDiscipline *)
(* ties each mutex to the program counters; PlansWhere says between which  *)
(* steps the plans are missing; JoinedBy and TornDownBy place the joins    *)
(* and the releases of the cleanup; StopWhere ties the stop token to the   *)
(* main loop.                                                              *)
(***************************************************************************)
EXTENDS DspThreads, TLAPS

(* The plans are missing only inside recreatePlans and after the cleanup. *)
PlansWhere == bufSize = 0 => mainPc \in {"alloc"} \cup AfterFftCleanup

(* The DSP thread's own progress tells which workers run: none before it   *)
(* started them, and its epilogue joins one after the other.               *)
JoinedBy ==
  /\ dspPc = "start" => \A c \in Channel : fftPc[c] = "unborn"
  /\ dspPc \in {"stopMid", "joinMid", "exited"} => fftPc["side"] = "exited"
  /\ dspPc = "exited" => fftPc["mid"] = "exited"

(* What the cleanup of main() has released, by its program counter. *)
TornDownBy ==
  /\ mainPc \in {"clearRegistry", "unloadPlugins", "done"} => dspPc = "exited"
  /\ registry <=> mainPc \notin {"unloadPlugins", "done"}
  /\ plugins <=> mainPc # "done"

(* Nobody else ever takes a mutex. *)
Holders ==
  /\ \A c \in Channel : holder[c] \in {Nobody, "main", c}
  /\ holder["lufs"] \in {Nobody, "dsp"}

(* The DSP thread is asked to stop by the cleanup only, and leaves its loop *)
(* only then.                                                               *)
StopWhere ==
  /\ stop["dsp"] => mainPc \in Cleanup \ {"requestStop"}
  /\ dspPc \in LufsReset => stop["dsp"]
  /\ dspPc \in LufsReset \ {"lufsReset"} => ~lufsState

(* What the invariant says beyond the types. *)
Shape ==
  /\ MutexDiscipline
  /\ Holders
  /\ PlansWhere
  /\ JoinedBy
  /\ TornDownBy
  /\ StopWhere

IInv == TypeOK /\ Shape

-----------------------------------------------------------------------------
(* The invariant holds when main() enters its loop. *)
LEMMA InitIInv == Init => IInv
  <1> SUFFICES ASSUME Init PROVE IInv
    OBVIOUS
  <1> USE ConfigAssumption, BoundAssumption DEF Init
  <1>1. TypeOK
    <2>1. mainPc \in MainPcs /\ dspPc \in DspPcs /\ "unborn" \in FftPcs
      BY DEF MainPcs, DspPcs, FftPcs
    <2>2. /\ fftPc \in [Channel -> FftPcs]
          /\ sig \in [Signal -> BOOLEAN]
          /\ stop \in [Channel \cup {"dsp"} -> BOOLEAN]
          /\ holder \in [Mutex -> Thread \cup {Nobody}]
          /\ seen \in [Channel -> 0..MaxFrames]
      BY <2>1
    <2>3. /\ options \in Configs
          /\ DOMAIN last = Table
          /\ bufSize \in Nat
          /\ frame \in 0..MaxFrames
          /\ changes \in 0..MaxChanges
      OBVIOUS
    <2> QED BY <2>1, <2>2, <2>3 DEF TypeOK
  <1>2. MutexDiscipline /\ Holders
    BY DEF MutexDiscipline, Holders, Channel, Mutex, Nobody
  <1>3. PlansWhere /\ JoinedBy /\ TornDownBy
    BY DEF PlansWhere, JoinedBy, TornDownBy
  <1>4. StopWhere
    BY DEF StopWhere, LufsReset
  <1> QED BY <1>1, <1>2, <1>3, <1>4 DEF IInv, Shape

-----------------------------------------------------------------------------
(* Every step keeps the types. *)
LEMMA TypeOKStep == TypeOK /\ [Next]_vars => TypeOK'
  <1> SUFFICES ASSUME TypeOK, [Next]_vars PROVE TypeOK'
    OBVIOUS
  <1> USE ConfigAssumption, BoundAssumption
      DEF TypeOK, MainPcs, DspPcs, FftPcs, Channel, Signal, Mutex, Thread,
          Nobody, Table, MainGoes, DspGoes, FftGoes, Alive,
          control, sync, config, memory, data
  <1>1. CASE MainCheckTables
    BY <1>1 DEF MainCheckTables, MainCheck, Remember
  <1>2. CASE MainFree
    BY <1>2 DEF MainFree
  <1>3. CASE MainAlloc
    BY <1>3 DEF MainAlloc
  <1>4. CASE MainRebuilt
    BY <1>4 DEF MainRebuilt
  <1>5. CASE MainEvents
    BY <1>5 DEF MainEvents
  <1>6. CASE MainWait
    BY <1>6 DEF MainWait
  <1>7. CASE MainRender
    BY <1>7 DEF MainRender
  <1>8. CASE MainRequestStop
    BY <1>8 DEF MainRequestStop
  <1>9. CASE MainFftCleanup
    BY <1>9 DEF MainFftCleanup
  <1>10. CASE MainJoin
    BY <1>10 DEF MainJoin
  <1>11. CASE MainClearRegistry
    BY <1>11 DEF MainClearRegistry
  <1>12. CASE MainUnloadPlugins
    BY <1>12 DEF MainUnloadPlugins
  <1>13. CASE MainLockMid
    BY <1>13 DEF MainLockMid, Acquire
  <1>14. CASE MainLockSide
    BY <1>14 DEF MainLockSide, Acquire
  <1>15. CASE MainLufsInit
    BY <1>15 DEF MainLufsInit
  <1>16. CASE MainReload
    BY <1>16 DEF MainReload, NewOptions
  <1>17. CASE MainMenuEdit
    BY <1>17 DEF MainMenuEdit, NewOptions
  <1>18. CASE DspTop
    BY <1>18 DEF DspTop
  <1>19. CASE DspRead
    BY <1>19 DEF DspRead
  <1>20. CASE DspReadFails
    BY <1>20 DEF DspReadFails
  <1>21. CASE DspSignal
    BY <1>21 DEF DspSignal, Set
  <1>22. CASE DspFilter
    BY <1>22 DEF DspFilter
  <1>23. CASE DspLufsUse
    BY <1>23 DEF DspLufsUse
  <1>24. CASE DspPublish
    BY <1>24 DEF DspPublish, Set
  <1>25. CASE DspLufsReset
    BY <1>25 DEF DspLufsReset
  <1>26. CASE DspStopWorker
    BY <1>26 DEF DspStopWorker, Set
  <1>27. CASE DspJoinWorker
    BY <1>27 DEF DspJoinWorker
  <1>28. CASE DspStart
    BY <1>28 DEF DspStart
  <1>29. CASE DspLufsLock
    BY <1>29 DEF DspLufsLock, Acquire
  <1>30. CASE Fault
    BY <1>30 DEF Fault
  <1>31. ASSUME NEW c \in Channel, FftWait(c) PROVE TypeOK'
    BY <1>31 DEF FftWait
  <1>32. ASSUME NEW c \in Channel, FftExit(c) PROVE TypeOK'
    BY <1>32 DEF FftExit
  <1>33. ASSUME NEW c \in Channel, FftSkip(c) PROVE TypeOK'
    BY <1>33 DEF FftSkip
  <1>34. ASSUME NEW c \in Channel, FftBegin(c) PROVE TypeOK'
    BY <1>34 DEF FftBegin, Length
  <1>35. ASSUME NEW c \in Channel, FftFill(c) PROVE TypeOK'
    BY <1>35 DEF FftFill
  <1>36. ASSUME NEW c \in Channel, FftExecute(c) PROVE TypeOK'
    BY <1>36 DEF FftExecute
  <1>37. ASSUME NEW c \in Channel, FftNoPlan(c) PROVE TypeOK'
    BY <1>37 DEF FftNoPlan
  <1>38. ASSUME NEW c \in Channel, FftSpectrum(c) PROVE TypeOK'
    BY <1>38 DEF FftSpectrum
  <1>39. ASSUME NEW c \in Channel, FftSmooth(c) PROVE TypeOK'
    BY <1>39 DEF FftSmooth
  <1>40. ASSUME NEW c \in Channel, FftLock(c) PROVE TypeOK'
    BY <1>40 DEF FftLock, Acquire
  <1>41. CASE MainStartPlugins
    BY <1>41 DEF MainStartPlugins
  <1>42. CASE UNCHANGED vars
    BY <1>42 DEF vars, control, sync, config, memory, data
  <1> QED
    BY <1>1, <1>2, <1>3, <1>4, <1>5, <1>6, <1>7, <1>8, <1>9, <1>10, <1>11,
       <1>12, <1>13, <1>14, <1>15, <1>16, <1>17, <1>18, <1>19, <1>20, <1>21,
       <1>22, <1>23, <1>24, <1>25, <1>26, <1>27, <1>28, <1>29, <1>30, <1>31,
       <1>32, <1>33, <1>34, <1>35, <1>36, <1>37, <1>38, <1>39, <1>40, <1>41, <1>42
    DEF Next, MainStep, MainLock, DspStep, DspLock, FftStep, Stopped

-----------------------------------------------------------------------------
(* Every step keeps what the invariant adds to the types. *)
LEMMA ShapeStep == TypeOK /\ TypeOK' /\ Shape /\ [Next]_vars => Shape'
  <1> SUFFICES ASSUME TypeOK, TypeOK', Shape, [Next]_vars PROVE Shape'
    OBVIOUS
  <1> USE ConfigAssumption, BoundAssumption
      DEF TypeOK, Shape, MutexDiscipline, Holders, PlansWhere, JoinedBy, TornDownBy,
          StopWhere, Channel, Mutex, Thread, Nobody, Cleanup, AfterFftCleanup, LufsReset, MainGoes, DspGoes, FftGoes,
          Alive, control, sync, config, memory, data
  <1>1. CASE MainCheckTables
    BY <1>1 DEF MainCheckTables, MainCheck, Remember
  <1>2. CASE MainFree
    BY <1>2 DEF MainFree
  <1>3. CASE MainAlloc
    BY <1>3 DEF MainAlloc
  <1>4. CASE MainRebuilt
    BY <1>4 DEF MainRebuilt
  <1>5. CASE MainEvents
    BY <1>5 DEF MainEvents
  <1>6. CASE MainWait
    BY <1>6 DEF MainWait
  <1>7. CASE MainRender
    BY <1>7 DEF MainRender
  <1>8. CASE MainRequestStop
    BY <1>8 DEF MainRequestStop
  <1>9. CASE MainFftCleanup
    BY <1>9 DEF MainFftCleanup
  <1>10. CASE MainJoin
    BY <1>10 DEF MainJoin
  <1>11. CASE MainClearRegistry
    BY <1>11 DEF MainClearRegistry
  <1>12. CASE MainUnloadPlugins
    BY <1>12 DEF MainUnloadPlugins
  <1>13. CASE MainLockMid
    BY <1>13 DEF MainLockMid, Acquire
  <1>14. CASE MainLockSide
    BY <1>14 DEF MainLockSide, Acquire
  <1>15. CASE MainLufsInit
    BY <1>15 DEF MainLufsInit
  <1>16. CASE MainReload
    BY <1>16 DEF MainReload, NewOptions
  <1>17. CASE MainMenuEdit
    BY <1>17 DEF MainMenuEdit, NewOptions
  <1>18. CASE DspTop
    BY <1>18 DEF DspTop
  <1>19. CASE DspRead
    BY <1>19 DEF DspRead
  <1>20. CASE DspReadFails
    BY <1>20 DEF DspReadFails
  <1>21. CASE DspSignal
    BY <1>21 DEF DspSignal, Set
  <1>22. CASE DspFilter
    BY <1>22 DEF DspFilter
  <1>23. CASE DspLufsUse
    BY <1>23 DEF DspLufsUse
  <1>24. CASE DspPublish
    BY <1>24 DEF DspPublish, Set
  <1>25. CASE DspLufsReset
    BY <1>25 DEF DspLufsReset
  <1>26. CASE DspStopWorker
    BY <1>26 DEF DspStopWorker, Set
  <1>27. CASE DspJoinWorker
    BY <1>27 DEF DspJoinWorker
  <1>28. CASE DspStart
    BY <1>28 DEF DspStart
  <1>29. CASE DspLufsLock
    BY <1>29 DEF DspLufsLock, Acquire
  <1>30. CASE Fault
    BY <1>30 DEF Fault
  <1>31. ASSUME NEW c \in Channel, FftWait(c) PROVE Shape'
    BY <1>31 DEF FftWait
  <1>32. ASSUME NEW c \in Channel, FftExit(c) PROVE Shape'
    BY <1>32 DEF FftExit
  <1>33. ASSUME NEW c \in Channel, FftSkip(c) PROVE Shape'
    BY <1>33 DEF FftSkip
  <1>34. ASSUME NEW c \in Channel, FftBegin(c) PROVE Shape'
    BY <1>34 DEF FftBegin, Length
  <1>35. ASSUME NEW c \in Channel, FftFill(c) PROVE Shape'
    BY <1>35 DEF FftFill
  <1>36. ASSUME NEW c \in Channel, FftExecute(c) PROVE Shape'
    BY <1>36 DEF FftExecute
  <1>37. ASSUME NEW c \in Channel, FftNoPlan(c) PROVE Shape'
    BY <1>37 DEF FftNoPlan
  <1>38. ASSUME NEW c \in Channel, FftSpectrum(c) PROVE Shape'
    BY <1>38 DEF FftSpectrum
  <1>39. ASSUME NEW c \in Channel, FftSmooth(c) PROVE Shape'
    BY <1>39 DEF FftSmooth
  <1>40. ASSUME NEW c \in Channel, FftLock(c) PROVE Shape'
    BY <1>40 DEF FftLock, Acquire
  <1>41. CASE MainStartPlugins
    BY <1>41 DEF MainStartPlugins
  <1>42. CASE UNCHANGED vars
    BY <1>42 DEF vars
  <1> QED
    BY <1>1, <1>2, <1>3, <1>4, <1>5, <1>6, <1>7, <1>8, <1>9, <1>10, <1>11,
       <1>12, <1>13, <1>14, <1>15, <1>16, <1>17, <1>18, <1>19, <1>20, <1>21,
       <1>22, <1>23, <1>24, <1>25, <1>26, <1>27, <1>28, <1>29, <1>30, <1>31,
       <1>32, <1>33, <1>34, <1>35, <1>36, <1>37, <1>38, <1>39, <1>40, <1>41, <1>42
    DEF Next, MainStep, MainLock, DspStep, DspLock, FftStep, Stopped

LEMMA IInvStep == IInv /\ [Next]_vars => IInv'
  BY TypeOKStep, ShapeStep DEF IInv

-----------------------------------------------------------------------------
(* The inductive invariant holds in every reachable state, for every set of *)
(* options and all bounds.                                                  *)
THEOREM Invariance == Spec => []IInv
  BY InitIInv, IInvStep, PTL DEF Spec

(* Type correctness of the threads' shared state. *)
THEOREM TypeCorrect == Spec => []TypeOK
  <1>1. IInv => TypeOK
    BY DEF IInv
  <1> QED BY <1>1, Invariance, PTL

(* The three mutexes are held exactly inside their critical sections. *)
THEOREM MutexesAreDisciplined == Spec => []MutexDiscipline
  <1>1. IInv => MutexDiscipline
    BY DEF IInv, Shape
  <1> QED BY <1>1, Invariance, PTL

(* fftwf_execute never runs while recreatePlans has the plans destroyed:    *)
(* the window in which they are missing is covered by both mutexes.         *)
THEOREM PlansOutliveTransforms == Spec => []ExecutesLivePlan
  <1>1. IInv => ExecutesLivePlan
    <2> SUFFICES ASSUME IInv, NEW c \in Channel, fftPc[c] = "exec",
                        mainPc \notin AfterFftCleanup, bufSize = 0
                 PROVE FALSE
      BY DEF ExecutesLivePlan
    <2>1. mainPc = "alloc"
      BY DEF IInv, Shape, PlansWhere
    <2>2. holder[c] = "main"
      BY <2>1 DEF IInv, Shape, MutexDiscipline, Channel
    <2>3. holder[c] = c
      BY DEF IInv, Shape, MutexDiscipline
    <2> QED BY <2>2, <2>3 DEF Channel
  <1> QED BY <1>1, Invariance, PTL

(* The cleanup releases the registry and the plugin libraries only after    *)
(* every DSP thread has ended.                                              *)
THEOREM TeardownIsOrdered == Spec => []TeardownOrder
  <1>1. IInv => TeardownOrder
    BY DEF IInv, Shape, JoinedBy, TornDownBy, TeardownOrder, Channel
  <1> QED BY <1>1, Invariance, PTL

(* The unlocked LUFS::reset is alone with the loudness state. *)
THEOREM LufsResetIsAlone == Spec => []LufsResetAlone
  <1>1. IInv => LufsResetAlone
    <2> SUFFICES ASSUME IInv, dspPc \in LufsReset
                 PROVE /\ holder["lufs"] = Nobody
                       /\ mainPc \in Cleanup
                       /\ dspPc # "lufsReset" => ~lufsState
      BY DEF LufsResetAlone
    <2>1. holder["lufs"] = Nobody
      BY DEF IInv, Shape, MutexDiscipline, Holders, LufsReset
    <2>2. mainPc \in Cleanup /\ (dspPc # "lufsReset" => ~lufsState)
      BY DEF IInv, Shape, StopWhere
    <2> QED BY <2>1, <2>2
  <1> QED BY <1>1, Invariance, PTL

-----------------------------------------------------------------------------
(* What StopIsFinal says of one step. *)
StopStep ==
  /\ mainPc \in Cleanup => mainPc' \in Cleanup
  /\ stop["dsp"] /\ dspPc = "top" => dspPc' \in LufsReset \cup {"top"}
  /\ \A c \in Channel : stop[c] /\ fftPc[c] = "check"
                          => fftPc'[c] \in {"check", "exited"}

(* The steps of main: only the first conjunct is at stake. *)
LEMMA MainStopStep ==
  ASSUME IInv, MainStep \/ MainLock \/ MainReload \/ MainMenuEdit
  PROVE  StopStep
  <1>1. /\ dspPc' = dspPc /\ fftPc' = fftPc
        /\ mainPc \in Cleanup => mainPc' \in Cleanup
    BY DEF MainStep, MainLock, MainReload, MainMenuEdit, MainStartPlugins, MainCheckTables,
           MainCheck, MainFree, MainAlloc, MainRebuilt, MainEvents, MainWait,
           MainRender, MainRequestStop, MainFftCleanup, MainJoin,
           MainClearRegistry, MainUnloadPlugins, MainLockMid, MainLockSide,
           MainLufsInit, MainGoes, Cleanup, AfterFftCleanup
  <1> QED BY <1>1 DEF StopStep

(* The steps of the DSP thread: a worker at "check" was born long ago. *)
LEMMA DspStopStep ==
  ASSUME IInv, DspStep \/ DspLock
  PROVE  StopStep
  <1>1. mainPc' = mainPc
    BY DEF DspStep, DspLock, DspTop, DspRead, DspReadFails, DspSignal, DspFilter,
           DspLufsUse, DspPublish, DspLufsReset, DspStopWorker, DspJoinWorker,
           DspStart, DspLufsLock, DspGoes
  <1>2. stop["dsp"] /\ dspPc = "top" => dspPc' \in LufsReset
    BY DEF DspStep, DspLock, DspTop, DspRead, DspReadFails, DspSignal, DspFilter,
           DspLufsUse, DspPublish, DspLufsReset, DspStopWorker, DspJoinWorker,
           DspStart, DspLufsLock, DspGoes, LufsReset
  <1>3. fftPc' = fftPc \/ \A c \in Channel : fftPc[c] = "unborn"
    BY DEF DspStep, DspLock, DspTop, DspRead, DspReadFails, DspSignal, DspFilter,
           DspLufsUse, DspPublish, DspLufsReset, DspStopWorker, DspJoinWorker,
           DspStart, DspLufsLock, DspGoes, IInv, Shape, JoinedBy
  <1> QED BY <1>1, <1>2, <1>3 DEF StopStep

(* The steps of a worker. *)
LEMMA FftStopStep ==
  ASSUME IInv, NEW c \in Channel, FftStep(c) \/ FftLock(c)
  PROVE  StopStep
  <1>1. mainPc' = mainPc /\ dspPc' = dspPc
    BY DEF FftStep, FftWait, FftExit, FftSkip, FftBegin, FftFill, FftExecute,
           FftNoPlan, FftSpectrum, FftSmooth, FftLock, FftGoes, control
  <1>2. \A d \in Channel \ {c} : fftPc'[d] = fftPc[d]
    BY DEF FftStep, FftWait, FftExit, FftSkip, FftBegin, FftFill, FftExecute,
           FftNoPlan, FftSpectrum, FftSmooth, FftLock, FftGoes, control,
           IInv, TypeOK
  <1>3. stop[c] /\ fftPc[c] = "check" => fftPc'[c] \in {"check", "exited"}
    BY DEF FftStep, FftWait, FftExit, FftSkip, FftBegin, FftFill, FftExecute,
           FftNoPlan, FftSpectrum, FftSmooth, FftLock, FftGoes, control,
           IInv, TypeOK
  <1> QED BY <1>1, <1>2, <1>3 DEF StopStep

(* Nothing that was asked to stop goes back to work, for every set of       *)
(* options and all bounds.                                                  *)
THEOREM StoppingIsFinal == Spec => StopIsFinal
  <1>1. IInv /\ [Next]_vars => [StopStep]_vars
    <2> SUFFICES ASSUME IInv, Next PROVE StopStep \/ UNCHANGED vars
      OBVIOUS
    <2>1. CASE Fault
      BY <2>1 DEF Fault, control, StopStep
    <2>2. CASE Stopped
      BY <2>2 DEF Stopped
    <2> QED BY <2>1, <2>2, MainStopStep, DspStopStep, FftStopStep DEF Next
  <1>2. [][StopStep]_vars => StopIsFinal
    BY PTL DEF StopIsFinal, StopStep
  <1> QED BY <1>1, <1>2, Invariance, PTL DEF Spec
=============================================================================
