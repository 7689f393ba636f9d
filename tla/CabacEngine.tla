---------------------------- MODULE CabacEngine ----------------------------
(***************************************************************************)
(* CabacReader (cabac.rs): the arithmetic decoder of a CABAC slice.        *)
(*                                                                         *)
(* The code keeps the offset of clause 9.3.3.2 scaled by 2^17 in a 32-bit  *)
(* word: above bit 17 the offset, below it bits fetched ahead and, as the  *)
(* lowest one bit, a marker of how many there are.  When the marker passes *)
(* bit 15 two more bytes are fetched.  ArithmeticDecoder states what this  *)
(* must amount to.  Comparisons that the code makes without a branch are   *)
(* written as conditions; that no operation wraps is the invariant         *)
(* EngineInRange.                                                          *)
(***************************************************************************)
EXTENDS Integers, Sequences, CabacTables

CONSTANTS Contexts,   \* the context variables in play
          InitValues, \* context variable -> <<m, n>> of the initialisation tables
          Qps,        \* slice QPs
          PcmBytes    \* bytes of samples behind an I_PCM macroblock (384)

ASSUME InitValuesAssumption == InitValues \in [Contexts -> Int \X Int]
ASSUME QpsAssumption == Qps \subseteq Int
ASSUME PcmBytesAssumption == PcmBytes \in Nat

VARIABLES data,       \* the RBSP
          engine,     \* [low, range, pos], or Stopped
          state,      \* context variable -> 0..127, as state[ctx] in the code
          bin         \* the value decoded last

vars == <<data, engine, state, bin>>

CABAC_MASK == 65535
Scale == 131072                         \* 2^(CABAC_BITS + 1)
Pow == <<1, 2, 4, 8, 16, 32, 64, 128, 256, 512, 1024, 2048, 4096, 8192, 16384, 32768>>
Shl(n, k) == n * Pow[k + 1]
Register(low, range, pos) == [low |-> low, range |-> range, pos |-> pos]
Stopped == Register(0, 0, 0)

ByteAt(k) == IF k < Len(data) THEN data[k + 1] ELSE 0

-----------------------------------------------------------------------------
(* The register *)

Fresh(at) ==
  Register((ByteAt(at) * 262144) + (ByteAt(at + 1) * 1024) + 512, 510, at + 2)

(* A bit stream does not start with the offsets 510 and 511; nothing checks. *)
Conforming(at) == Fresh(at).low < 510 * Scale

Fetched(pos) == (ByteAt(pos) * 512) + (ByteAt(pos + 1) * 2) - CABAC_MASK

(* refill, after a shift by one. *)
Refill(e) ==
  IF e.low % (CABAC_MASK + 1) = 0
  THEN Register(e.low + Fetched(e.pos), e.range, e.pos + 2) ELSE e

(* Mutant: after a shift by more than one the bytes are added unshifted. *)
RefillUnshifted(e) == Refill(e)

(* The marker's distance beyond bit 16. *)
LowestOne(n, i) == n % Shl(2, i) = Shl(1, i)
Ahead(low) == CHOOSE i \in 0..7 : LowestOne(low \div 65536, i)

(* refill2, after a shift by any number. *)
Refill2(e) ==
  IF e.low % (CABAC_MASK + 1) = 0
  THEN Register(e.low + Shl(Fetched(e.pos), Ahead(e.low)), e.range, e.pos + 2) ELSE e

NormShift(range) ==
  IF range >= 256 THEN 0 ELSE IF range >= 128 THEN 1 ELSE IF range >= 64 THEN 2
  ELSE IF range >= 32 THEN 3 ELSE IF range >= 16 THEN 4 ELSE IF range >= 8 THEN 5
  ELSE IF range >= 4 THEN 6 ELSE 7

Shifted(e, k) == Register(Shl(e.low, k), Shl(e.range, k), e.pos)

-----------------------------------------------------------------------------
(* Decoding one bin *)

(* get_cabac: the state's lowest bit is the most probable value. *)
NextMps(s) == IF s < 124 THEN s + 2 ELSE s
Lower(e, lps) == Register(e.low, e.range - lps, e.pos)
Taken(e, lps) == Register(e.low - (e.range * Scale), lps, e.pos)
IsLps(e) == e.low > e.range * Scale

Renormalised(e) == Refill2(Shifted(e, NormShift(e.range)))

AfterSplit(e, lps, ctx, s) ==
  IF IsLps(e)
  THEN /\ engine' = Renormalised(Taken(e, lps))
       /\ state' = [state EXCEPT ![ctx] = MlpsLps[s + 1]]
       /\ bin' = 1 - (s % 2)
  ELSE /\ engine' = Renormalised(e)
       /\ state' = [state EXCEPT ![ctx] = NextMps(s)]
       /\ bin' = s % 2

LpsRange(range, s) == LpsRangeTable[((range \div 64) % 4) + 1][(s \div 2) + 1]

GetCabac(ctx) ==
  /\ engine # Stopped
  /\ \E lps \in {LpsRange(engine.range, state[ctx])} :
       AfterSplit(Lower(engine, lps), lps, ctx, state[ctx])
  /\ UNCHANGED data

(* Mutant: one of the copies of the code forgets to refill. *)
DoubledOnly(e) == Register(2 * e.low, e.range, e.pos)

(* get_cabac_bypass; get_cabac_bypass_sign subtracts first and adds back. *)
Doubled(e) == Refill(Register(2 * e.low, e.range, e.pos))
AfterBypass(e) ==
  IF e.low < e.range * Scale
  THEN engine' = e /\ bin' = 0
  ELSE engine' = Taken(e, e.range) /\ bin' = 1
GetCabacBypass ==
  /\ engine # Stopped
  /\ AfterBypass(Doubled(engine))
  /\ UNCHANGED <<data, state>>

(* Mutant: a byte that was fetched and not used is not given back. *)
PcmBytePositionLate(e) == e.pos - (IF e.low % 2 # 0 THEN 1 ELSE 0)

(* pcm_byte_position: of the two bytes fetched last, one or both may be unused. *)
PcmBytePosition(e) ==
  e.pos - (IF e.low % 2 # 0 THEN 1 ELSE 0) - (IF e.low % 512 # 0 THEN 1 ELSE 0)

(* After the terminating bin the slice ends, or the samples of an I_PCM      *)
(* macroblock follow, if they are all there, and reinit.                     *)
AfterPcm(at) ==
  engine' = IF at > Len(data) THEN Stopped ELSE Fresh(at)
AfterTerminate(e) ==
  IF e.low < e.range * Scale
  THEN engine' = Refill(Shifted(e, IF e.range < 256 THEN 1 ELSE 0)) /\ bin' = 0
  ELSE /\ bin' = 1
       /\ \/ engine' = Stopped
          \/ Conforming(PcmBytePosition(e) + PcmBytes) /\ AfterPcm(PcmBytePosition(e) + PcmBytes)
GetCabacTerminate ==
  /\ engine # Stopped
  /\ AfterTerminate(Lower(engine, 2))
  /\ UNCHANGED <<data, state>>

-----------------------------------------------------------------------------
(* init_cabac_states and CabacReader::new, at the start of the slice data *)

ClampQp(qp) == IF qp < 0 THEN 0 ELSE IF qp > 51 THEN 51 ELSE qp

(* Mutant: the lower half is mirrored without the step between -1 and 0. *)
FoldedByAbs(pre) == IF pre < 0 THEN -pre ELSE pre

Folded(pre) == IF pre < 0 THEN -pre - 1 ELSE pre
Capped(pre) == IF pre > 124 THEN 124 + (pre % 2) ELSE pre
InitState(mn, qp) == Capped(Folded((2 * (((mn[1] * ClampQp(qp)) \div 16) + mn[2])) - 127))

StartSlice(at, qp) ==
  /\ engine = Stopped
  /\ Conforming(at)
  /\ engine' = Fresh(at)
  /\ state' = [c \in Contexts |-> InitState(InitValues[c], qp)]
  /\ bin' = -1
  /\ UNCHANGED data

Init ==
  /\ data \in Seq(0..255)
  /\ engine = Stopped
  /\ state = [c \in Contexts |-> 0]
  /\ bin = -1

Next ==
  \/ \E at \in 0..Len(data), qp \in Qps : StartSlice(at, qp)
  \/ \E ctx \in Contexts : GetCabac(ctx)
  \/ GetCabacBypass
  \/ GetCabacTerminate

Spec == Init /\ [][Next]_vars

-----------------------------------------------------------------------------
(* The register between two bins: the offset lies below the range, so that   *)
(* no addition or shift of the u32 wraps and comparisons have the sign they  *)
(* should have; and one lowest bit below bit 16 marks what is fetched ahead. *)
MarkedAt(low, m) == (low \div Pow[m + 1]) % 2 = 1 /\ low % Pow[m + 1] = 0
EngineInRange ==
  engine # Stopped =>
    /\ engine.range \in 256..510
    /\ engine.low \in 0..(engine.range * Scale) - 1
    /\ \E m \in 0..15 : MarkedAt(engine.low, m)
    /\ engine.pos \in Nat
    /\ state \in [Contexts -> 0..127]

(* What the registers mean to clause 9.3: the bits of low above bit 17 are   *)
(* the offset, those between there and the marker have not been read yet.    *)
Marker(low) == CHOOSE m \in 0..15 : MarkedAt(low, m)
BitsRead == IF engine = Stopped THEN 0 ELSE (8 * engine.pos) - (16 - Marker(engine.low))

Arithmetic == INSTANCE ArithmeticDecoder WITH
  codIRange  <- engine.range,
  codIOffset <- engine.low \div Scale,
  position   <- BitsRead,
  pStateIdx  <- [c \in Contexts |-> state[c] \div 2],
  valMPS     <- [c \in Contexts |-> state[c] % 2],
  binVal     <- bin

(* The engine decodes the bins of clause 9.3.3.2, whatever is asked for in   *)
(* whatever order, and finds the samples of an I_PCM macroblock.             *)
ImplementsArithmetic == Arithmetic!Spec
=============================================================================
