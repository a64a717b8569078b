--------------------------- MODULE RingBuffer_proofs ---------------------------
(***************************************************************************)
(* Proofs about RingBuffer, for every buffer size, vector width, set of     *)
(* block lengths and length of the stream.                                  *)
(*                                                                         *)
(* Two arithmetic lemmas carry the module: WrapOnce evaluates "% Size" for  *)
(* the positions the code computes, and OnGridFits says that a vector that  *)
(* starts on the vector grid ends inside of the buffer.                     *)
(***************************************************************************)
EXTENDS RingBuffer, Integers, TLAPS

-----------------------------------------------------------------------------
(* A position less than two buffers long wraps at most once. *)
LEMMA WrapOnce ==
  ASSUME NEW N \in Nat \ {0}, NEW i, NEW r, i \in Nat, i < 2 * N, r = i % N
  PROVE  r = IF i < N THEN i ELSE i - N
  BY SMTT(30)

(* What lies k places behind a position, as the code computes it. *)
LEMMA WrapBack ==
  ASSUME NEW N \in Nat \ {0}, NEW w \in 0..(N - 1), NEW k \in 1..N
  PROVE  (w + N - k) % N = IF k <= w THEN w - k ELSE w + N - k
  <1>1. PICK i \in Nat : i = w + N - k /\ i < 2 * N
    OBVIOUS
  <1>2. i % N = IF i < N THEN i ELSE i - N
    BY <1>1, WrapOnce
  <1>3. CASE k <= w
    <2>1. ~(i < N) /\ i - N = w - k
      BY <1>1, <1>3
    <2> QED BY <1>1, <1>2, <1>3, <2>1, Zenon
  <1>4. CASE ~(k <= w)
    <2>1. i < N
      BY <1>1, <1>4
    <2> QED BY <1>1, <1>2, <1>4, <2>1, Zenon
  <1> QED BY <1>3, <1>4

(* A position is on the grid when it is a multiple of the vector width. *)
LEMMA Multiple ==
  ASSUME NEW L \in Nat \ {0}, NEW p \in Nat
  PROVE  p % L = 0 <=> \E x \in Nat : p = L * x
  <1>1. p % L = 0 => \E x \in Nat : p = L * x
    BY SMTT(30)
  <1>2. \A x \in Nat : (L * x) % L = 0
    BY SMTT(30)
  <1> QED BY <1>1, <1>2

(* The two facts about products that the grid needs. *)
LEMMA Monotone ==
  ASSUME NEW L \in Nat, NEW x \in Nat, NEW y \in Nat, x <= y
  PROVE  L * x <= L * y
  BY SMTT(30)

LEMMA Distribute ==
  ASSUME NEW L \in Nat, NEW x \in Int
  PROVE  L * (x + 1) = L * x + L /\ L * (x - 1) = L * x - L
  BY SMTT(30)

(* A vector that starts on the grid and inside of the buffer fits in it. *)
LEMMA OnGridFits ==
  ASSUME NEW N \in Nat \ {0}, NEW L \in Nat \ {0}, NEW p \in 0..(N - 1),
         N % L = 0, p % L = 0
  PROVE  p + L <= N
  <1>1. PICK x \in Nat, y \in Nat : p = L * x /\ N = L * y
    <2>1. p \in Nat /\ N \in Nat
      OBVIOUS
    <2>2. \E x \in Nat : p = L * x
      BY <2>1, Multiple
    <2>3. \E y \in Nat : N = L * y
      BY <2>1, Multiple
    <2> QED BY <2>2, <2>3
  <1>2. x < y
    <2> SUFFICES ASSUME y <= x PROVE FALSE
      OBVIOUS
    <2>1. L * y <= L * x
      BY Monotone
    <2> QED BY <2>1, <1>1
  <1>3. L * (x + 1) <= L * y
    <2>1. x + 1 \in Nat /\ x + 1 <= y
      BY <1>2
    <2> QED BY <2>1, Monotone
  <1>4. L * (x + 1) = L * x + L
    BY Distribute
  <1> QED BY <1>1, <1>3, <1>4

(* The grid is kept by whole vectors, forward and back. *)
LEMMA GridStep ==
  ASSUME NEW L \in Nat \ {0}, NEW a \in Nat, a % L = 0
  PROVE  /\ (a + L) % L = 0
         /\ a >= L => (a - L) % L = 0
  <1>1. PICK x \in Nat : a = L * x
    BY Multiple
  <1>2. a + L = L * (x + 1)
    BY <1>1, Distribute
  <1>3. a >= L => x - 1 \in Nat /\ a - L = L * (x - 1)
    <2> SUFFICES ASSUME a >= L PROVE x - 1 \in Nat /\ a - L = L * (x - 1)
      OBVIOUS
    <2>1. x # 0
      BY <1>1, SMTT(30)
    <2>2. L * (x - 1) = L * x - L
      BY Distribute
    <2> QED BY <1>1, <2>1, <2>2
  <1>4. (a + L) % L = 0
    <2>1. a + L \in Nat /\ x + 1 \in Nat
      OBVIOUS
    <2> QED BY <1>2, <2>1, Multiple
  <1>5. ASSUME a >= L PROVE (a - L) % L = 0
    <2>1. a - L \in Nat
      BY <1>5
    <2> QED BY <1>3, <1>5, <2>1, Multiple
  <1> QED BY <1>4, <1>5

-----------------------------------------------------------------------------
(* As long as every block was a whole number of vectors, the position and    *)
(* what is left of the block stay on the grid; so nothing has run over.      *)
OnGrid == ~odd => writePos % Lanes = 0 /\ pending % Lanes = 0

(* What is left of a block still fits under the bound of the stream. *)
Fits == total + pending <= MaxSamples

IInv == TypeOK /\ Fits /\ OnGrid /\ OverrunBounded

LEMMA InitIInv == Init => IInv
  <1> SUFFICES ASSUME Init PROVE IInv
    OBVIOUS
  <1> USE RingAssumption DEF Init
  <1>1. TypeOK
    <2>1. 0 \in Cell
      BY DEF Cell
    <2>2. mem \in [Cell -> 0..MaxSamples]
      OBVIOUS
    <2>3. nominal \in Nominals /\ backend \in {"pulse", "callback"}
      OBVIOUS
    <2> QED BY <2>1, <2>2, <2>3 DEF TypeOK
  <1>2. OnGrid
    <2>1. 0 % Lanes = 0
      BY SMTT(30)
    <2> QED BY <2>1 DEF OnGrid
  <1>3. Fits /\ OverrunBounded
    BY DEF Fits, OverrunBounded
  <1> QED BY <1>1, <1>2, <1>3 DEF IInv

(* A store of n samples, a whole vector or fewer. *)
LEMMA StoreStep ==
  ASSUME IInv, NEW n \in 1..Lanes, n <= pending, Store(n),
         ~odd => n = Lanes
  PROVE  IInv'
  <1> USE RingAssumption DEF IInv, Store
  <1>1. writePos \in 0..(Size - 1) /\ Size - 1 \in Nat /\ Lanes <= Size
    <2>1. 0 % Lanes = 0
      BY SMTT(30)
    <2>2. 0 + Lanes <= Size
      BY <2>1, OnGridFits
    <2> QED BY <2>2 DEF TypeOK, Cell
  <1>2. writePos' = IF writePos + n < Size THEN writePos + n
                                         ELSE writePos + n - Size
    <2>1. writePos + n \in Nat /\ writePos + n < 2 * Size
      BY <1>1
    <2>2. /\ Size \in Nat \ {0} /\ writePos \in Nat /\ n \in Nat
          /\ writePos' = (writePos + n) % Size
      BY <1>1
    <2> QED BY <2>1, <2>2, WrapOnce
  <1>3. writePos' \in Cell /\ total' \in 0..MaxSamples /\ pending' \in 0..MaxSamples
    BY <1>1, <1>2 DEF TypeOK, Fits, Cell
  <1>4. mem' \in [Cell -> 0..MaxSamples]
    <2> SUFFICES ASSUME NEW i \in Cell, i \in writePos..(writePos + n - 1)
                 PROVE  total + 1 + i - writePos \in 0..MaxSamples
      BY DEF TypeOK
    <2> QED BY <1>1 DEF TypeOK, Fits, Cell
  <1>5. Beyond(n) \in 0..(Lanes - 1)
    BY <1>1 DEF Beyond
  <1>6. Fits'
    BY <1>3 DEF Fits, TypeOK
  <1>7. OverrunBounded'
    <2>1. overrun' < Lanes
      BY <1>5 DEF OverrunBounded, TypeOK
    <2>2. ASSUME ~odd PROVE Beyond(n) = 0
      <3>1. writePos + Lanes <= Size
        BY <1>1, <2>2, OnGridFits DEF OnGrid
      <3> QED BY <2>2, <3>1, <1>1 DEF Beyond
    <2>3. overrun' > 0 => odd'
      BY <2>2, <1>5 DEF OverrunBounded, TypeOK
    <2> QED BY <2>1, <2>3 DEF OverrunBounded
  <1>8. OnGrid'
    <2> SUFFICES ASSUME ~odd PROVE writePos' % Lanes = 0 /\ pending' % Lanes = 0
      BY DEF OnGrid
    <2>1. n = Lanes /\ writePos % Lanes = 0 /\ pending % Lanes = 0
      BY DEF OnGrid
    <2>2. (writePos + Lanes) % Lanes = 0
      <3>1. Lanes \in Nat \ {0} /\ writePos \in Nat /\ writePos % Lanes = 0
        BY <1>1, <2>1
      <3> QED BY <3>1, GridStep
    <2>3. pending' % Lanes = 0
      <3>1. Lanes \in Nat \ {0} /\ pending \in Nat /\ pending % Lanes = 0
        BY <2>1 DEF TypeOK
      <3>2. (pending - Lanes) % Lanes = 0
        BY <2>1, <3>1, GridStep
      <3> QED BY <2>1, <3>2
    <2>4. writePos + Lanes <= Size
      BY <1>1, <2>1, OnGridFits
    <2>5. writePos + Lanes = Size => writePos' = 0
      BY <1>1, <1>2, <2>1
    <2>6. 0 % Lanes = 0
      BY SMTT(30)
    <2>7. writePos + Lanes < Size => writePos' = writePos + Lanes
      BY <1>2, <2>1
    <2> QED BY <1>1, <2>2, <2>3, <2>4, <2>5, <2>6, <2>7
  <1>9. TypeOK'
    BY <1>3, <1>4, <1>5 DEF TypeOK, setup, readers
  <1> QED BY <1>6, <1>7, <1>8, <1>9

(* A new block keeps the grid unless it is recorded as odd. *)
LEMMA BeginStep ==
  ASSUME IInv, NEW n \in Blocks \cup {nominal}, BeginBlock(n)
  PROVE  IInv'
  <1> USE RingAssumption DEF IInv, BeginBlock, setup, ring, readers
  <1>1. n \in Nat
    BY DEF TypeOK
  <1>2. TypeOK' /\ Fits'
    BY <1>1 DEF TypeOK, Fits
  <1>3. OnGrid' /\ OverrunBounded'
    BY DEF OnGrid, OverrunBounded, TypeOK
  <1> QED BY <1>2, <1>3

(* The consumers only read the ring. *)
LEMMA ReaderStep == ASSUME IInv, Reader \/ EndBlock PROVE IInv'
  <1> USE RingAssumption
      DEF IInv, TypeOK, Fits, OnGrid, OverrunBounded, setup, ring, feed
  <1>1. \A k \in {1} : (writePos + Size - k) % Size \in Cell
    <2>1. writePos + Size - 1 \in Nat /\ writePos + Size - 1 < 2 * Size
      BY DEF Cell
    <2> QED BY <2>1, WrapOnce DEF Cell
  <1>2. mem[(writePos + Size - 1) % Size] \in 0..MaxSamples
    BY <1>1
  <1>3. CASE DspRead \/ DspReadNothing \/ DspReadFails
    BY <1>3 DEF DspRead, DspReadNothing, DspReadFails, NoBlock, readers
  <1>4. CASE FirSkip \/ FirIdle
    BY <1>4 DEF FirSkip, FirIdle
  <1>5. CASE FirFilter
    BY <1>5, <1>2 DEF FirFilter
  <1>6. CASE FirEnd
    BY <1>6 DEF FirEnd
  <1>7. CASE DspLufs
    BY <1>7, <1>2 DEF DspLufs
  <1>8. CASE EndBlock
    BY <1>8 DEF EndBlock, readers
  <1> QED BY <1>3, <1>4, <1>5, <1>6, <1>7, <1>8 DEF Reader

LEMMA IInvStep == IInv /\ [Next]_vars => IInv'
  <1> SUFFICES ASSUME IInv, [Next]_vars PROVE IInv'
    OBVIOUS
  <1> USE RingAssumption
  <1>1. ASSUME NEW n \in Blocks \cup {nominal}, BeginBlock(n) PROVE IInv'
    BY <1>1, BeginStep
  <1>2. CASE StoreVector
    <2>1. Lanes \in 1..Lanes /\ Lanes <= pending
      BY <1>2 DEF StoreVector, IInv, TypeOK
    <2> QED BY <1>2, <2>1, StoreStep DEF StoreVector
  <1>3. CASE StoreScalar
    <2>1. 1 \in 1..Lanes /\ 1 <= pending /\ pending \in 1..(Lanes - 1)
      BY <1>3 DEF StoreScalar, IInv, TypeOK
    <2>2. pending % Lanes = pending
      BY <2>1, WrapOnce
    <2>3. odd
      BY <2>1, <2>2 DEF IInv, OnGrid
    <2> QED BY <1>3, <2>1, <2>3, StoreStep DEF StoreScalar
  <1>4. CASE Reader \/ EndBlock
    BY <1>4, ReaderStep
  <1>5. CASE UNCHANGED vars
    BY <1>5 DEF vars, setup, ring, feed, readers, IInv, TypeOK, Fits, OnGrid, OverrunBounded
  <1> QED BY <1>1, <1>2, <1>3, <1>4, <1>5 DEF Next, Writer

-----------------------------------------------------------------------------
(* The invariant holds in every reachable state. *)
THEOREM Invariance == Spec => []IInv
  BY InitIInv, IInvStep, PTL DEF Spec

(* Type correctness, for every buffer size, width and set of blocks. *)
THEOREM TypeCorrect == Spec => []TypeOK
  <1>1. IInv => TypeOK
    BY DEF IInv
  <1> QED BY <1>1, Invariance, PTL

(* Nothing is stored past the end while all blocks are whole vectors, and    *)
(* never as much as a vector.                                                *)
THEOREM OverrunIsBounded == Spec => []OverrunBounded
  <1>1. IInv => OverrunBounded
    BY DEF IInv
  <1> QED BY <1>1, Invariance, PTL

-----------------------------------------------------------------------------
(* Where a reader finds the k-th most recent sample. *)
LEMMA BehindValue ==
  ASSUME TypeOK, NEW k \in 1..Size
  PROVE  Behind(k) = IF k <= writePos THEN writePos - k ELSE writePos + Size - k
  <1>1. Size \in Nat \ {0} /\ writePos \in 0..(Size - 1)
    BY RingAssumption DEF TypeOK, Cell
  <1> QED BY <1>1, WrapBack DEF Behind

(* A store that stays inside of the buffer puts its samples before all that   *)
(* were there, as the readers count.                                          *)
LEMMA StoreShifts ==
  ASSUME IInv, IInv', NEW n \in 1..Lanes, Store(n), overrun' = 0
  PROVE  /\ n \in 1..Size
         /\ writePos' = IF writePos + n < Size THEN writePos + n ELSE 0
         /\ writePos + n <= Size
         /\ \A k \in 1..Size :
              mem'[Behind(k)'] = IF k <= n THEN total + n + 1 - k
                                          ELSE mem[Behind(k - n)]
  <1> USE DEF IInv
  <1>0. Size \in Nat \ {0} /\ Lanes \in Nat \ {0}
    BY RingAssumption
  <1> USE <1>0
  <1>1. /\ writePos \in 0..(Size - 1)
        /\ writePos + n <= Size
        /\ n \in 1..Size
    <2>1. writePos \in 0..(Size - 1) /\ overrun \in Nat
      BY DEF TypeOK, Cell
    <2>2. Beyond(n) \in Nat
      BY <2>1 DEF Beyond
    <2>3. Beyond(n) = 0
      BY <2>1, <2>2 DEF Store
    <2> QED BY <2>1, <2>3 DEF Beyond
  <1>2. writePos' = IF writePos + n < Size THEN writePos + n ELSE 0
    <2>1. writePos + n \in Nat /\ writePos + n < 2 * Size
      BY <1>1
    <2>2. /\ Size \in Nat \ {0} /\ writePos \in Nat /\ n \in Nat
          /\ writePos' = (writePos + n) % Size
      BY <1>1 DEF Store
    <2>3. writePos' = IF writePos + n < Size THEN writePos + n
                                             ELSE writePos + n - Size
      BY <2>1, <2>2, WrapOnce
    <2> QED BY <1>1, <2>3
  <1>3. ASSUME NEW k \in 1..Size
        PROVE  mem'[Behind(k)'] = IF k <= n THEN total + n + 1 - k
                                            ELSE mem[Behind(k - n)]
    <2>1. Behind(k)' = IF k <= writePos' THEN writePos' - k
                                         ELSE writePos' + Size - k
      <3>1. writePos' \in 0..(Size - 1)
        BY <1>1, <1>2
      <3> QED BY <3>1, WrapBack DEF Behind
    <2>2. Behind(k)' \in Cell
      BY <2>1, <1>1, <1>2 DEF Cell
    <2>3. CASE k <= n
      <3>1. Behind(k)' = writePos + n - k
        BY <2>1, <2>3, <1>1, <1>2
      <3> QED BY <3>1, <2>2, <2>3, <1>1 DEF Store, TypeOK
    <2>4. CASE k > n
      <3>1. k - n \in 1..Size
        BY <2>4, <1>1
      <3>2. Behind(k - n) = IF k - n <= writePos THEN writePos - (k - n)
                                                ELSE writePos + Size - (k - n)
        BY <3>1, BehindValue
      <3>3. Behind(k)' = Behind(k - n)
        BY <2>1, <2>4, <3>2, <1>1, <1>2
      <3>4. Behind(k)' \notin writePos..(writePos + n - 1)
        BY <3>2, <3>3, <2>4, <1>1
      <3> QED BY <2>2, <2>4, <3>3, <3>4, <1>1 DEF Store
    <2> QED BY <2>3, <2>4, <1>1
  <1> QED BY <1>1, <1>2, <1>3

(* So it delivers them to the window. *)
LEMMA StoreDelivers ==
  ASSUME IInv, IInv', NEW n \in 1..Lanes, Store(n), overrun' = 0
  PROVE  Window!Next
  <1>1. n \in 1..Size
    BY StoreShifts
  <1>2. ASSUME NEW k \in 1..Size
        PROVE  mem'[Behind(k)'] = IF k <= n THEN total + n + 1 - k
                                            ELSE mem[Behind(k - n)]
    BY StoreShifts
  <1>3. Window!Deliver(n)
    <2>1. [k \in 1..Size |-> mem'[Behind(k)']]
            = [k \in 1..Size |->
                 IF k <= n THEN total + n + 1 - k
                           ELSE [j \in 1..Size |-> mem[Behind(j)]][k - n]]
      <3>1. ASSUME NEW k \in 1..Size
            PROVE  mem'[Behind(k)']
                     = IF k <= n THEN total + n + 1 - k
                       ELSE [j \in 1..Size |-> mem[Behind(j)]][k - n]
        <4>1. k > n => k - n \in 1..Size
          BY <1>1, RingAssumption
        <4> QED BY <1>1, <1>2, <4>1
      <3> QED BY <3>1
    <2>2. total' = total + n
      BY DEF Store
    <2> QED BY <2>1, <2>2 DEF Window!Deliver, Store
  <1> QED BY <1>1, <1>3 DEF Window!Next

(* The ring implements the window of the last Size samples, for every buffer *)
(* size and vector width, until a vector is stored across the end.           *)
THEOREM RingIsWindow == Spec => ImplementsWindow
  <1>1. Init => Window!Init
    <2> SUFFICES ASSUME Init PROVE Window!Init
      OBVIOUS
    <2>1. ASSUME NEW k \in 1..Size PROVE mem[Behind(k)] = 0
      <3>1. Behind(k) \in Cell
        <4>1. TypeOK
          BY InitIInv DEF IInv
        <4>2. Behind(k) = IF k <= writePos THEN writePos - k
                                           ELSE writePos + Size - k
          BY <4>1, BehindValue
        <4> QED BY <4>1, <4>2, RingAssumption DEF TypeOK, Cell
      <3> QED BY <3>1 DEF Init
    <2> QED BY <2>1 DEF Init, Window!Init
  <1>2. IInv /\ IInv' /\ [Next]_vars => [overrun' = 0 => [Window!Next]_(Window!vars)]_vars
    <2> SUFFICES ASSUME IInv, IInv', Next, overrun' = 0
                 PROVE  Window!Next \/ UNCHANGED Window!vars
      OBVIOUS
    <2> USE RingAssumption
    <2>1. CASE StoreVector
      BY <2>1, StoreDelivers DEF StoreVector
    <2>2. CASE StoreScalar
      <3>1. 1 \in 1..Lanes
        OBVIOUS
      <3> QED BY <2>2, <3>1, StoreDelivers DEF StoreScalar
    <2>3. CASE Reader \/ EndBlock \/ \E n \in Blocks \cup {nominal} : BeginBlock(n)
      <3>1. UNCHANGED ring
        BY <2>3 DEF Reader, DspRead, DspReadNothing, DspReadFails, FirSkip, FirIdle,
                    FirFilter, FirEnd, DspLufs, EndBlock, BeginBlock
      <3>2. ASSUME NEW k \in 1..Size PROVE Behind(k)' = Behind(k)
        BY <3>1 DEF ring, Behind
      <3> QED BY <3>1, <3>2 DEF ring, Window!vars
    <2> QED BY <2>1, <2>2, <2>3 DEF Next, Writer
  <1> QED BY <1>1, <1>2, Invariance, PTL DEF Spec, ImplementsWindow
-----------------------------------------------------------------------------
(* The consumers.  What they read is where the ring keeps it: the k-th most  *)
(* recent sample is the one that arrived k-th last.                          *)
Content ==
  overrun = 0 =>
    \A k \in 1..Size : mem[Behind(k)] = IF k <= total THEN total + 1 - k ELSE 0

(* With Pulse, a block is stored while the DSP thread waits in read(), and   *)
(* the loudness is at most that one block behind.                            *)
Phases ==
  /\ writer = "store" =>
       dspPc = "read" /\ ~fresh /\ measured + nominal = total + pending
  /\ fresh => dspPc = "read"
  /\ writer = "idle" =>
       pending = 0
       /\ measured + (IF fresh \/ (dspPc # "read" /\ got) THEN nominal ELSE 0) = total

(* lastWritePos is as far behind the write position as the last filtered     *)
(* sample is behind the last stored one, unless the ring lapped it.          *)
FirPlace ==
  /\ heard <= total
  /\ dspPc = "firEnd" => to = writePos /\ heard = total
  /\ dspPc # "firEnd" /\ total - heard < Size =>
       last = IF heard = total THEN writePos ELSE Behind(total - heard)

Consumed == backend = "pulse" /\ overrun = 0 => Phases /\ FirPlace

CInv == IInv /\ Content /\ Consumed

LEMMA InitCInv == Init => CInv
  <1> SUFFICES ASSUME Init PROVE CInv
    OBVIOUS
  <1>1. IInv
    BY InitIInv
  <1>2. Content
    <2>1. ASSUME NEW k \in 1..Size PROVE mem[Behind(k)] = 0
      <3>1. Behind(k) = IF k <= writePos THEN writePos - k ELSE writePos + Size - k
        BY <1>1, BehindValue DEF IInv
      <3>2. Behind(k) \in Cell
        BY <1>1, <3>1, RingAssumption DEF IInv, TypeOK, Cell
      <3> QED BY <3>2 DEF Init
    <2> QED BY <2>1, RingAssumption DEF Init, Content
  <1>3. Phases /\ FirPlace
    BY <1>1 DEF Init, Phases, FirPlace, IInv, TypeOK
  <1> QED BY <1>1, <1>2, <1>3 DEF CInv, Consumed

(* A store moves the samples back, and the next call of FIR::process starts   *)
(* where it would have started.                                               *)
LEMMA StoreConsumed ==
  ASSUME CInv, IInv', NEW n \in 1..Lanes, n <= pending, Store(n),
         writer = "store", overrun' = 0
  PROVE  Content' /\ Consumed'
  <1>0. /\ Size \in Nat \ {0} /\ Lanes \in Nat \ {0}
        /\ total \in Nat /\ heard \in Nat /\ overrun \in Nat /\ measured \in Nat
        /\ writePos \in 0..(Size - 1) /\ writePos' \in 0..(Size - 1)
        /\ pending \in Nat /\ nominal \in Nat
    BY RingAssumption DEF CInv, IInv, TypeOK, Cell
  <1> USE <1>0
  <1>1. overrun = 0
    <2>1. Beyond(n) \in Nat
      BY DEF Beyond
    <2> QED BY <2>1 DEF Store
  <1>2. /\ n \in 1..Size
        /\ writePos' = IF writePos + n < Size THEN writePos + n ELSE 0
        /\ writePos + n <= Size
    BY StoreShifts DEF CInv
  <1>3. Content'
    <2> SUFFICES ASSUME NEW k \in 1..Size
                 PROVE  mem'[Behind(k)'] = IF k <= total' THEN total' + 1 - k ELSE 0
      BY DEF Content
    <2>1. mem'[Behind(k)'] = IF k <= n THEN total + n + 1 - k
                                       ELSE mem[Behind(k - n)]
      BY StoreShifts DEF CInv
    <2>2. total' = total + n
      BY DEF Store
    <2>3. CASE k <= n
      BY <2>1, <2>2, <2>3, <1>2
    <2>4. CASE k > n
      <3>1. k - n \in 1..Size
        BY <2>4, <1>2
      <3>2. mem[Behind(k - n)] = IF k - n <= total THEN total + 1 - (k - n) ELSE 0
        BY <3>1, <1>1 DEF CInv, Content
      <3>3. k - n <= total <=> k <= total + n
        BY <1>2
      <3>4. total + 1 - (k - n) = total + n + 1 - k
        BY <1>2
      <3>5. ~(k <= n)
        BY <2>4, <1>2
      <3> QED BY <2>1, <2>2, <3>2, <3>3, <3>4, <3>5
    <2> QED BY <2>3, <2>4, <1>2
  <1>4. ASSUME backend = "pulse" PROVE Phases' /\ FirPlace'
    <2>1. Phases /\ FirPlace
      BY <1>1, <1>4 DEF CInv, Consumed
    <2>2. Phases'
      BY <2>1, <1>2 DEF Phases, Store, setup, readers
    <2>3. /\ dspPc' = "read" /\ dspPc = "read" /\ last' = last
          /\ heard' = heard /\ total' = total + n /\ heard <= total
      BY <2>1 DEF Phases, FirPlace, Store, readers
    <2>4. ASSUME total' - heard' < Size PROVE last' = Behind(total - heard)'
      <3>1. PICK d \in 1..Size : d = total + n - heard
        BY <2>3, <2>4, <1>2
      <3>0. last' = last /\ Behind(total - heard)' = Behind(d)'
        <4>1. total' - heard' = d
          BY <2>3, <3>1
        <4> QED BY <4>1, <2>3 DEF Behind
      <3>2. Behind(d)' = IF d <= writePos' THEN writePos' - d
                                           ELSE writePos' + Size - d
        BY WrapBack DEF Behind
      <3>3. CASE heard = total
        <4>1. last = writePos /\ d = n
          BY <2>1, <2>3, <3>1, <3>3, <1>2 DEF FirPlace
        <4>2. Behind(d)' = writePos
          BY <3>2, <4>1, <1>2
        <4> QED BY <4>1, <4>2, <3>0
      <3>4. CASE heard # total
        <4>1. PICK e \in 1..Size : e = total - heard /\ d = e + n
          BY <2>3, <2>4, <3>1, <3>4, <1>2
        <4>2. last = Behind(e)
          BY <2>1, <2>3, <2>4, <3>4, <4>1, <1>2 DEF FirPlace
        <4>3. Behind(e) = IF e <= writePos THEN writePos - e
                                           ELSE writePos + Size - e
          BY BehindValue DEF CInv, IInv
        <4>4. d < Size
          BY <2>3, <2>4, <3>1
        <4>5. Behind(d)' = Behind(e)
          BY <3>2, <4>1, <4>3, <4>4, <1>2
        <4> QED BY <4>2, <4>5, <3>0
      <3> QED BY <3>3, <3>4
    <2>5. heard' <= total' /\ heard' # total'
      BY <2>3, <1>2
    <2> QED BY <2>2, <2>3, <2>4, <2>5 DEF FirPlace
  <1> QED BY <1>3, <1>4 DEF Consumed, Store, setup

(* What FIR::process and LUFS::addSamples find at the end of the ring is the  *)
(* last sample that was stored, or the silence before the first.              *)
LEMMA LatestSample ==
  ASSUME CInv, overrun = 0
  PROVE  mem[(writePos + Size - 1) % Size] = total
  <1>1. 1 \in 1..Size /\ total \in Nat
    BY RingAssumption DEF CInv, IInv, TypeOK
  <1>2. mem[Behind(1)] = IF 1 <= total THEN total + 1 - 1 ELSE 0
    BY <1>1 DEF CInv, Content
  <1> QED BY <1>1, <1>2 DEF Behind

(* The steps of the DSP thread, and the begin and the end of a block. *)
LEMMA ReaderConsumed ==
  ASSUME CInv, IInv', Next, ~StoreVector, ~StoreScalar
  PROVE  Content' /\ Consumed'
  <1>0. UNCHANGED <<ring, backend>>
    BY DEF Next, Writer, Reader, BeginBlock, EndBlock, DspRead, DspReadNothing,
           DspReadFails, FirSkip, FirIdle, FirFilter, FirEnd, DspLufs, setup
  <1>1. /\ mem' = mem /\ writePos' = writePos /\ total' = total
        /\ overrun' = overrun /\ backend' = backend
    BY <1>0 DEF ring
  <1>2. ASSUME NEW k \in Int PROVE Behind(k)' = Behind(k)
    BY <1>1 DEF Behind
  <1>3. Content'
    BY <1>1, <1>2 DEF Content, CInv
  <1>4. ASSUME backend = "pulse", overrun = 0 PROVE Phases' /\ FirPlace'
    <2>1. Phases /\ FirPlace
      BY <1>4 DEF CInv, Consumed
    <2>2. /\ total \in Nat /\ heard \in Nat /\ measured \in Nat
          /\ nominal \in Nat \ {0} /\ Size \in Nat \ {0} /\ pending \in Nat
          /\ writer \in {"idle", "store"} /\ fresh \in BOOLEAN
      BY RingAssumption DEF CInv, IInv, TypeOK
    <2>4. ASSUME dspPc' # "firEnd" /\ dspPc # "firEnd", last' = last, heard' = heard
          PROVE  FirPlace'
      <3>1. Behind(total - heard)' = Behind(total - heard)
        BY <1>1, <2>4 DEF Behind
      <3> QED BY <2>1, <2>4, <3>1, <1>1 DEF FirPlace
    <2>5. ASSUME NEW n \in Blocks \cup {nominal}, BeginBlock(n)
          PROVE  Phases' /\ FirPlace'
      <3>1. Phases'
        BY <2>1, <2>2, <2>5, <1>1, <1>4 DEF Phases, BeginBlock, readers, setup
      <3>2. FirPlace'
        BY <2>1, <2>4, <2>5, <1>4 DEF BeginBlock, readers
      <3> QED BY <3>1, <3>2
    <2>6. CASE EndBlock
      <3>1. Phases'
        BY <2>1, <2>2, <2>6, <1>1 DEF Phases, EndBlock, readers, setup
      <3>2. FirPlace'
        BY <2>1, <2>4, <2>6 DEF EndBlock, readers, Phases
      <3> QED BY <3>1, <3>2
    <2>7. CASE DspRead \/ DspReadNothing \/ DspReadFails
      <3>1. Phases'
        BY <2>1, <2>2, <2>7, <1>1, <1>4
        DEF Phases, DspRead, DspReadNothing, DspReadFails, NoBlock, setup, feed, readers
      <3>2. FirPlace'
        BY <2>4, <2>7 DEF DspRead, DspReadNothing, DspReadFails, NoBlock, readers
      <3> QED BY <3>1, <3>2
    <2>8. CASE FirSkip \/ FirIdle
      <3>1. Phases'
        BY <2>1, <2>2, <2>8, <1>1 DEF Phases, FirSkip, FirIdle, feed, setup
      <3>2. FirPlace'
        BY <2>4, <2>8 DEF FirSkip, FirIdle
      <3> QED BY <3>1, <3>2
    <2>9. CASE FirFilter
      <3>1. Phases'
        BY <2>1, <2>2, <2>9, <1>1 DEF Phases, FirFilter, feed, setup
      <3>2. heard' = total
        BY <2>9, <1>4, LatestSample DEF FirFilter
      <3> QED BY <2>2, <2>9, <3>1, <3>2, <1>1 DEF FirPlace, FirFilter
    <2>10. CASE FirEnd
      <3>1. Phases'
        BY <2>1, <2>2, <2>10, <1>1 DEF Phases, FirEnd, feed, setup
      <3>2. heard' = total' /\ last' = writePos'
        BY <2>1, <2>10, <1>1 DEF FirPlace, FirEnd
      <3> QED BY <2>2, <2>10, <3>1, <3>2, <1>1 DEF FirPlace, FirEnd
    <2>11. CASE DspLufs
      <3>1. measured' = total
        BY <2>11, <1>4, LatestSample DEF DspLufs
      <3>2. Phases'
        BY <2>1, <2>2, <2>11, <3>1, <1>1 DEF Phases, DspLufs, feed
      <3>3. FirPlace'
        BY <2>4, <2>11 DEF DspLufs
      <3> QED BY <3>2, <3>3
    <2> QED BY <2>5, <2>6, <2>7, <2>8, <2>9, <2>10, <2>11 DEF Next, Writer, Reader
  <1> QED BY <1>1, <1>3, <1>4 DEF Consumed

LEMMA CInvStep == CInv /\ [Next]_vars => CInv'
  <1> SUFFICES ASSUME CInv, [Next]_vars PROVE CInv'
    OBVIOUS
  <1>1. IInv'
    BY IInvStep DEF CInv
  <1>2. ASSUME NEW n \in 1..Lanes, n <= pending, Store(n), writer = "store"
        PROVE  Content' /\ Consumed'
    <2>1. CASE overrun' = 0
      BY <1>1, <1>2, <2>1, StoreConsumed
    <2>2. CASE overrun' # 0
      BY <2>2 DEF Content, Consumed
    <2> QED BY <2>1, <2>2
  <1>3. CASE StoreVector
    <2>1. Lanes \in 1..Lanes /\ Lanes <= pending
      BY <1>3, RingAssumption DEF StoreVector, CInv, IInv, TypeOK
    <2> QED BY <1>1, <1>2, <1>3, <2>1 DEF StoreVector, CInv
  <1>4. CASE StoreScalar
    <2>1. 1 \in 1..Lanes /\ 1 <= pending
      BY <1>4, RingAssumption DEF StoreScalar, CInv, IInv, TypeOK
    <2> QED BY <1>1, <1>2, <1>4, <2>1 DEF StoreScalar, CInv
  <1>5. CASE Next /\ ~StoreVector /\ ~StoreScalar
    BY <1>1, <1>5, ReaderConsumed DEF CInv
  <1>6. CASE UNCHANGED vars
    <2>1. ASSUME NEW k \in Int PROVE Behind(k)' = Behind(k)
      BY <1>6 DEF Behind, vars, ring
    <2>2. Content'
      BY <1>6, <2>1 DEF Content, CInv, vars, ring
    <2>3. Behind(total - heard)' = Behind(total - heard)
      BY <1>6 DEF Behind, vars, ring, readers
    <2>4. Consumed'
      BY <1>6, <2>3 DEF Consumed, Phases, FirPlace, CInv, vars, ring, setup, feed, readers
    <2> QED BY <1>1, <2>2, <2>4 DEF CInv
  <1> QED BY <1>3, <1>4, <1>5, <1>6

LEMMA ConsumersInvariance == Spec => []CInv
  BY InitCInv, CInvStep, PTL DEF Spec

(* FIR::process filters every sample once, whatever the block length, the    *)
(* buffer size, and however many calls were left out before.                 *)
THEOREM FirIsContinuous == Spec => FirContinuous
  <1>1. CInv /\ [Next]_vars =>
          [backend = "pulse" /\ overrun = 0 /\ total - heard < Size =>
             /\ FirFilter => mem[last] = heard + 1
             /\ FirIdle => total = heard]_vars
    <2> SUFFICES ASSUME CInv, backend = "pulse", overrun = 0, total - heard < Size
                 PROVE  /\ FirFilter => mem[last] = heard + 1
                        /\ FirIdle => total = heard
      OBVIOUS
    <2>1. FirPlace
      BY DEF CInv, Consumed
    <2>2. total \in Nat /\ heard \in Nat /\ Size \in Nat \ {0}
          /\ writePos \in 0..(Size - 1)
      BY RingAssumption DEF CInv, IInv, TypeOK, Cell
    <2>3. ASSUME heard # total, dspPc # "firEnd"
          PROVE  mem[last] = heard + 1 /\ last # writePos
      <3>1. PICK d \in 1..Size : d = total - heard /\ d # Size
        BY <2>1, <2>2, <2>3 DEF FirPlace
      <3>2. last = Behind(d)
        BY <2>1, <2>2, <2>3, <3>1 DEF FirPlace
      <3>3. mem[Behind(d)] = total + 1 - d
        BY <2>2, <3>1 DEF CInv, Content
      <3>4. Behind(d) = IF d <= writePos THEN writePos - d ELSE writePos + Size - d
        BY BehindValue DEF CInv, IInv
      <3>5. Behind(d) # writePos
        BY <2>2, <3>1, <3>4
      <3>6. total + 1 - d = heard + 1
        BY <2>2, <3>1
      <3> QED BY <3>2, <3>3, <3>5, <3>6
    <2>4. FirFilter => mem[last] = heard + 1
      BY <2>1, <2>2, <2>3 DEF FirFilter, FirPlace
    <2>5. FirIdle => total = heard
      BY <2>3 DEF FirIdle
    <2> QED BY <2>4, <2>5
  <1> QED BY <1>1, ConsumersInvariance, PTL DEF Spec, FirContinuous

(* The loudness counts the samples of each block once and misses none, for   *)
(* every sequence of block lengths that fit in the ring.                     *)
THEOREM LufsCounts == Spec => LufsCountsBlocks
  <1>1. CInv /\ [Next]_vars =>
          [backend = "pulse" /\ overrun = 0 /\ nominal <= Size /\ DspLufs =>
             IF got THEN mem[Behind(nominal)] = measured + 1
                    ELSE measured = total]_vars
    <2> SUFFICES ASSUME CInv, backend = "pulse", overrun = 0, nominal <= Size, DspLufs
                 PROVE  IF got THEN mem[Behind(nominal)] = measured + 1
                               ELSE measured = total
      OBVIOUS
    <2>1. /\ total \in Nat /\ measured \in Nat /\ nominal \in 1..Size
          /\ Size \in Nat /\ writer \in {"idle", "store"} /\ got \in BOOLEAN
      BY RingAssumption DEF CInv, IInv, TypeOK
    <2>2. measured + (IF got THEN nominal ELSE 0) = total
      BY <2>1 DEF CInv, Consumed, Phases, DspLufs
    <2>3. CASE got
      <3>1. mem[Behind(nominal)] = total + 1 - nominal
        BY <2>1, <2>2, <2>3 DEF CInv, Content
      <3> QED BY <2>1, <2>2, <2>3, <3>1
    <2>4. CASE ~got
      BY <2>1, <2>2, <2>4
    <2> QED BY <2>3, <2>4
  <1> QED BY <1>1, ConsumersInvariance, PTL DEF Spec, LufsCountsBlocks
=============================================================================
