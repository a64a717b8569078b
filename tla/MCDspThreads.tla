----------------------------- MODULE MCDspThreads -----------------------------
(* Instances of DspThreads for TLC.  Sets of options: the default, a longer *)
(* FFT, Constant-Q with every table's key changed and a mono waveform, and  *)
(* the same with both channels shown (the workers' shortest path from one   *)
(* signal to the next, for the run over two blocks).                        *)
EXTENDS DspThreads

Default == [size |-> 1, cqt |-> FALSE, bins |-> 3, lowpass |-> 1, mono |-> FALSE]
Longer  == [Default EXCEPT !.size = 2]
ConstQ  == [size |-> 2, cqt |-> TRUE, bins |-> 4, lowpass |-> 2, mono |-> TRUE]

Stereo  == [ConstQ EXCEPT !.mono = FALSE]

AllConfigs == {Default, Longer, ConstQ}
TwoConfigs == {Default, ConstQ}
OnlyStereo == {Stereo}

\* What TLC tells apart.  A process that died takes no further step, so its
\* states are one.  The lengths of kernels and spectra decide where a thread may
\* fault and nothing else: no other guard reads them.
Decides == IF crashed THEN <<>>
           ELSE <<control, sync, config, bufSize, lufsState, registry, plugins,
                  frame, seen>>
=============================================================================
