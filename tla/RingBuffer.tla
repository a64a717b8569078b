------------------------------ MODULE RingBuffer ------------------------------
(***************************************************************************)
(* The ring of audio samples (DSP::bufferMid, bufferSide and writePos), the *)
(* code of an audio backend that fills it, and the two consumers that must  *)
(* see every sample: FIR::process, which remembers where it stopped, and    *)
(* LUFS::addSamples, which takes the last block.                            *)
(*                                                                         *)
(* With AVX2 a block is stored in vectors of Lanes samples and the rest one *)
(* by one; a vector is stored at writePos without wrapping its lanes.       *)
(* The "pulse" backend fills the ring in the DSP thread, between the        *)
(* consumers; the "callback" backends (PipeWire, WASAPI) fill it from a     *)
(* thread of their own, with blocks of the size the audio server likes, and *)
(* signal the DSP thread.  No lock guards the ring.  (WASAPI also stores     *)
(* packets flagged as silent, sample by sample; they are left out.)         *)
(*                                                                         *)
(* Samples are numbered from 1 as they arrive; 0 is the initial silence.    *)
(***************************************************************************)
EXTENDS Naturals

CONSTANTS
  Size,        (* bufferSize                                             *)
  Lanes,       (* samples per vector store: 4 with AVX2, 1 without       *)
  Nominals,    (* values of sampleCount: sample_rate / fps_limit, which  *)
               (* may be more than the ring holds                        *)
  Blocks,      (* lengths of the blocks a callback delivers              *)
  MaxSamples   (* bound: samples that arrive in one run                  *)

ASSUME RingAssumption ==
  /\ Size \in Nat \ {0}
  /\ Lanes \in Nat \ {0}
  /\ Size % Lanes = 0
  /\ Nominals \subseteq Nat \ {0}
  /\ Blocks \subseteq Nat \ {0}
  /\ MaxSamples \in Nat

Cell == 0..(Size - 1)

VARIABLES
  backend,   \* which kind of backend AudioEngine::init found
  nominal,   \* sampleCount of this frame
  mem,       \* the samples in the buffer
  writePos,  \* DSP::writePos
  writer,    \* whether the backend is inside a block
  pending,   \* samples of the block that are not stored yet
  fresh,     \* a block was completed and not yet taken by AudioEngine::read
  dspPc,     \* where DSP::Threads::mainThread is
  last,      \* lastWritePos of FIR::process
  to,        \* where the running FIR::process found writePos
  total,     \* history: samples stored
  odd,       \* history: some block was not a whole number of vectors
  overrun,   \* history: the most samples stored past the end at once
  heard,     \* history: the last sample FIR::process has filtered
  got,       \* history: this frame has stored a block, or been told of one
  measured   \* history: the last sample LUFS::addSamples has counted

ring    == <<mem, writePos, total, overrun>>
feed    == <<writer, pending, fresh, odd>>
readers == <<dspPc, last, to, heard, measured, got>>
setup   == <<backend, nominal>>
vars    == <<setup, ring, feed, readers>>

TypeOK ==
  /\ backend \in {"pulse", "callback"}
  /\ nominal \in Nominals
  /\ mem \in [Cell -> 0..MaxSamples]
  /\ writePos \in Cell
  /\ writer \in {"idle", "store"}
  /\ pending \in 0..MaxSamples
  /\ fresh \in BOOLEAN
  /\ dspPc \in {"read", "fir", "firEnd", "lufs"}
  /\ last \in Cell
  /\ to \in Cell
  /\ total \in 0..MaxSamples
  /\ odd \in BOOLEAN
  /\ overrun \in Nat
  /\ heard \in 0..MaxSamples
  /\ measured \in 0..MaxSamples
  /\ got \in BOOLEAN

Init ==
  /\ backend \in {"pulse", "callback"}
  /\ nominal \in Nominals
  /\ mem = [i \in Cell |-> 0]
  /\ writePos = 0
  /\ writer = "idle" /\ pending = 0 /\ fresh = FALSE
  /\ dspPc = "read" /\ last = 0 /\ to = 0
  /\ total = 0 /\ odd = FALSE /\ overrun = 0 /\ heard = 0
  /\ measured = 0 /\ got = FALSE

-----------------------------------------------------------------------------
(* The backend. *)

(* A block arrives.  Pulse's arrives while the DSP thread is in read(), which *)
(* then stores readBuf: what it has just read or, if read() returned at once  *)
(* because the stream was being set up again, and that is done by now, what   *)
(* an earlier read left there.                                                *)
BeginBlock(n) ==
  /\ writer = "idle"
  /\ backend = "pulse" => dspPc = "read" /\ ~fresh /\ n = nominal
  /\ total + n <= MaxSamples
  /\ writer' = "store"
  /\ pending' = n
  /\ odd' = (odd \/ n % Lanes # 0)
  /\ UNCHANGED <<setup, ring, fresh, readers>>

(* How many of n samples stored at writePos lie past the end. *)
Beyond(n) == IF writePos + n > Size THEN writePos + n - Size ELSE 0

(* FAULT: the write position moves one sample too little. *)
StoreLags(n) ==
  /\ mem' = [i \in Cell |-> IF i \in writePos..(writePos + n - 1)
                            THEN total + 1 + i - writePos ELSE mem[i]]
  /\ writePos' = (writePos + n - 1) % Size
  /\ total' = total + n
  /\ overrun' = IF Beyond(n) > overrun THEN Beyond(n) ELSE overrun
  /\ pending' = pending - n
  /\ UNCHANGED <<setup, writer, fresh, odd, readers>>

(* The next n samples of the block are stored at writePos, the lanes past   *)
(* the end outside of the buffer.                                           *)
Store(n) ==
  /\ mem' = [i \in Cell |-> IF i \in writePos..(writePos + n - 1)
                            THEN total + 1 + i - writePos ELSE mem[i]]
  /\ writePos' = (writePos + n) % Size
  /\ total' = total + n
  /\ overrun' = IF Beyond(n) > overrun THEN Beyond(n) ELSE overrun
  /\ pending' = pending - n
  /\ UNCHANGED <<setup, writer, fresh, odd, readers>>

(* FAULT: the rest of the block is stored as a vector too. *)
StoreVectorOfAnyLength == writer = "store" /\ pending > 0 /\ Store(Lanes)

StoreVector == writer = "store" /\ pending >= Lanes /\ Store(Lanes)
StoreScalar == writer = "store" /\ pending \in 1..(Lanes - 1) /\ Store(1)

(* The block is stored: read() returns, or the callback sets readSig. *)
EndBlock ==
  /\ writer = "store"
  /\ pending = 0
  /\ writer' = "idle"
  /\ fresh' = TRUE
  /\ UNCHANGED <<setup, ring, pending, odd, readers>>

-----------------------------------------------------------------------------
(* The DSP thread. *)

(* FAULT: the flag is left set, the block is processed again. *)
DspReadsTwice ==
  /\ dspPc = "read"
  /\ fresh
  /\ dspPc' = "fir"
  /\ got' = TRUE
  /\ UNCHANGED <<setup, ring, feed, last, to, heard, measured>>

DspRead ==
  /\ dspPc = "read"
  /\ fresh
  /\ fresh' = FALSE
  /\ dspPc' = "fir"
  /\ got' = TRUE
  /\ UNCHANGED <<setup, ring, writer, pending, odd, last, to, heard, measured>>

(* Without a block, the thread is not inside Pulse's read or its stores. *)
NoBlock == dspPc = "read" /\ ~fresh /\ (backend = "pulse" => writer = "idle")

(* While reconfigure() sets the stream of Pulse up again, read() returns true *)
(* without a stream, or the block it has read is not stored because running   *)
(* is false by then: the frame goes on without a block.                       *)
DspReadNothing ==
  /\ backend = "pulse"
  /\ NoBlock
  /\ dspPc' = "fir"
  /\ got' = FALSE
  /\ UNCHANGED <<setup, ring, feed, last, to, heard, measured>>

(* read() fails, a callback backend's after 100 ms without a block; the loop  *)
(* takes sampleCount from the options again.                                  *)
DspReadFails ==
  /\ NoBlock
  /\ nominal' \in Nominals
  /\ UNCHANGED <<backend, ring, feed, readers>>

(* No pitch was found within the limits. *)
FirSkip ==
  /\ dspPc = "fir"
  /\ dspPc' = "lufs"
  /\ UNCHANGED <<setup, ring, feed, last, to, heard, measured, got>>

(* FIR::process returns at once when the write position has not moved. *)
FirIdle ==
  /\ dspPc = "fir"
  /\ last = writePos
  /\ dspPc' = "lufs"
  /\ UNCHANGED <<setup, ring, feed, last, to, heard, measured, got>>

(* The samples from lastWritePos to the write position are filtered. *)
FirFilter ==
  /\ dspPc = "fir"
  /\ last # writePos
  /\ to' = writePos
  /\ heard' = mem[(writePos + Size - 1) % Size]
  /\ dspPc' = "firEnd"
  /\ UNCHANGED <<setup, ring, feed, last, measured, got>>

(* FAULT: the next call starts one sample late. *)
FirEndsLate ==
  /\ dspPc = "firEnd"
  /\ last' = (to + 1) % Size
  /\ dspPc' = "lufs"
  /\ UNCHANGED <<setup, ring, feed, to, heard, measured, got>>

(* lastWritePos = writePos: the compiler may read the global again. *)
FirEnd ==
  /\ dspPc = "firEnd"
  /\ last' \in {to, writePos}
  /\ dspPc' = "lufs"
  /\ UNCHANGED <<setup, ring, feed, to, heard, measured, got>>

(* LUFS::addSamples counts the last sampleCount samples of the ring; the next *)
(* frame takes sampleCount from the options again.                            *)
DspLufs ==
  /\ dspPc = "lufs"
  /\ measured' = mem[(writePos + Size - 1) % Size]
  /\ dspPc' = "read"
  /\ nominal' \in Nominals
  /\ UNCHANGED <<backend, ring, feed, last, to, heard, got>>

-----------------------------------------------------------------------------
Writer == (\E n \in Blocks \cup {nominal} : BeginBlock(n))
          \/ StoreVector \/ StoreScalar \/ EndBlock

Reader == DspRead \/ DspReadNothing \/ DspReadFails
          \/ FirSkip \/ FirIdle \/ FirFilter \/ FirEnd \/ DspLufs

Next == Writer \/ Reader

Spec == Init /\ [][Next]_vars

-----------------------------------------------------------------------------
(* Properties. *)

(* Behind: the cell k places behind the write position, as every reader      *)
(* computes it.                                                              *)
Behind(k) == (writePos + Size - k) % Size

Window == INSTANCE SampleWindow
            WITH count <- total, latest <- [k \in 1..Size |-> mem[Behind(k)]]

(* As long as no vector was stored across the end of the buffer, the ring is *)
(* the window of the last Size samples: whatever the block lengths, however  *)
(* vector and single stores mix, and wherever the write position wraps.      *)
ImplementsWindow ==
  Window!Init /\ [][overrun' = 0 => [Window!Next]_(Window!vars)]_vars

(* A store runs past the end by less than a vector, and only after a block   *)
(* that was not a whole number of vectors put the write position off the     *)
(* vector grid.                                                              *)
OverrunBounded == overrun < Lanes /\ (overrun > 0 => odd)

(* With the Pulse backend, FIR::process filters the stream without a gap and *)
(* without a repetition, although it is not called in every frame: unless    *)
(* the ring has lapped it, a call begins with the sample after the last one  *)
(* filtered, and a call that finds nothing to do has missed nothing.         *)
FirContinuous ==
  [][backend = "pulse" /\ overrun = 0 /\ total - heard < Size =>
       /\ FirFilter => mem[last] = heard + 1
       /\ FirIdle => total = heard]_vars

(* With the Pulse backend, the loudness counts each sample once as long as    *)
(* frames have a block: what is measured starts where the last measurement    *)
(* ended, also across frames that read nothing and changes of the block       *)
(* length.  A frame that read nothing counts the end of the stream a second   *)
(* time, but misses nothing.  (A block longer than the ring cannot be read    *)
(* back from it.)                                                             *)
LufsCountsBlocks ==
  [][backend = "pulse" /\ overrun = 0 /\ nominal <= Size /\ DspLufs =>
       IF got THEN mem[Behind(nominal)] = measured + 1
              ELSE measured = total]_vars

=============================================================================
