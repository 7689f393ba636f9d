------------------------- MODULE ArithmeticDecoder -------------------------
(***************************************************************************)
(* Clause 9.3 as the standard writes it: an offset of nine bits, read bit  *)
(* by bit, a range, and for each context variable a probability state and  *)
(* the value it makes probable.  CabacEngine is shown to implement it.     *)
(***************************************************************************)
EXTENDS Integers, Sequences, FiniteSetsExt, CabacTables

CONSTANTS Contexts, InitValues, Qps, PcmBytes

VARIABLES data,         \* the bytes; behind their end zeros are read
          codIRange,    \* 0 while no slice is decoded
          codIOffset,
          position,     \* bits read so far
          pStateIdx, valMPS,
          binVal

vars == <<data, codIRange, codIOffset, position, pStateIdx, valMPS, binVal>>

Bit(p) ==
  IF p \div 8 < Len(data) THEN (data[(p \div 8) + 1] \div (2 ^ (7 - (p % 8)))) % 2 ELSE 0
ReadBits(p, n) ==
  LET v[k \in 0..n] == IF k = 0 THEN 0 ELSE (2 * v[k - 1]) + Bit(p + k - 1) IN v[n]

(* 9.3.1.2; the standard forbids the offsets 510 and 511. *)
InitDecoder(p) ==
  /\ codIRange' = 510
  /\ codIOffset' = ReadBits(p, 9)
  /\ codIOffset' < 510
  /\ position' = p + 9

Stop ==
  /\ codIRange' = 0
  /\ codIOffset' = 0
  /\ position' = 0

(* 9.3.3.2.2: as many shifts as bring the range to 256 or more. *)
RenormD(range, offset) ==
  LET n == Min({k \in 0..8 : range * (2 ^ k) >= 256})
  IN /\ codIRange' = range * (2 ^ n)
     /\ codIOffset' = (offset * (2 ^ n)) + ReadBits(position, n)
     /\ position' = position + n

(* 9.3.1.1 *)
Clip3(lo, hi, v) == IF v < lo THEN lo ELSE IF v > hi THEN hi ELSE v
preCtxState(c, qp) ==
  Clip3(1, 126, ((InitValues[c][1] * Clip3(0, 51, qp)) \div 16) + InitValues[c][2])

StartSlice(at, qp) ==
  /\ InitDecoder(8 * at)
  /\ valMPS' = [c \in Contexts |-> IF preCtxState(c, qp) <= 63 THEN 0 ELSE 1]
  /\ pStateIdx' = [c \in Contexts |-> IF preCtxState(c, qp) <= 63 THEN 63 - preCtxState(c, qp)
                                      ELSE preCtxState(c, qp) - 64]
  /\ binVal' = -1
  /\ UNCHANGED data

rangeLPS(c) == LpsRangeTable[((codIRange \div 64) % 4) + 1][pStateIdx[c] + 1]

(* 9.3.3.2.1 *)
MostProbable(c) ==
  /\ codIOffset < codIRange - rangeLPS(c)
  /\ RenormD(codIRange - rangeLPS(c), codIOffset)
  /\ binVal' = valMPS[c]
  /\ pStateIdx' = [pStateIdx EXCEPT ![c] = Min({@ + 1, 62})]
  /\ UNCHANGED valMPS

LeastProbable(c) ==
  /\ codIOffset >= codIRange - rangeLPS(c)
  /\ RenormD(rangeLPS(c), codIOffset - (codIRange - rangeLPS(c)))
  /\ binVal' = 1 - valMPS[c]
  /\ valMPS' = IF pStateIdx[c] = 0 THEN [valMPS EXCEPT ![c] = 1 - @] ELSE valMPS
  /\ pStateIdx' = [pStateIdx EXCEPT ![c] = transIdxLPS[@ + 1]]

DecodeDecision(c) ==
  /\ codIRange # 0
  /\ MostProbable(c) \/ LeastProbable(c)
  /\ UNCHANGED data

(* 9.3.3.2.3 *)
DecodeBypass ==
  /\ codIRange # 0
  /\ \E offset \in {(2 * codIOffset) + Bit(position)} :
       /\ binVal' = IF offset >= codIRange THEN 1 ELSE 0
       /\ codIOffset' = offset - (codIRange * binVal')
  /\ position' = position + 1
  /\ UNCHANGED <<data, codIRange, pStateIdx, valMPS>>

(* 9.3.3.2.4: after the terminating bin nothing is read; the samples of an   *)
(* I_PCM macroblock begin at the next byte and 9.3.1.2 is invoked behind.    *)
DecodeTerminate ==
  /\ codIRange # 0
  /\ IF codIOffset < codIRange - 2
     THEN RenormD(codIRange - 2, codIOffset) /\ binVal' = 0
     ELSE /\ binVal' = 1
          /\ Stop \/ InitDecoder((8 * ((position + 7) \div 8)) + (8 * PcmBytes))
  /\ UNCHANGED <<data, pStateIdx, valMPS>>

(* Between slices anything may arrive. *)
Idle == codIRange = 0 /\ codIRange' = 0

Init == codIRange = 0 /\ codIOffset = 0 /\ position = 0

Next ==
  \/ Idle
  \/ \E at \in 0..Len(data), qp \in Qps : StartSlice(at, qp)
  \/ \E c \in Contexts : DecodeDecision(c)
  \/ DecodeBypass
  \/ DecodeTerminate

Spec == Init /\ [][Next]_vars
=============================================================================
