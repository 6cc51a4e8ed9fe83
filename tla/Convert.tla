-------------------------------- MODULE Convert -------------------------------
(***************************************************************************)
(* loader/convert.{hpp,cpp}: the conversion of a weight from BF16 to FP16  *)
(* on bit patterns, and the overflow test of the checked path.  A binary32 *)
(* pattern is its sign and its 31 other bits, which TLC can compute with;  *)
(* the sign is carried over unchanged.                                     *)
(***************************************************************************)
EXTENDS Integers, FiniteSets

CONSTANTS
  Bf16Patterns,               \* BF16 magnitudes (15 bits) to convert
  Fp32Patterns                \* further binary32 magnitudes for the second half

ASSUME ConvertAssumption ==
  /\ Bf16Patterns \subseteq 0 .. 32767
  /\ Fp32Patterns \subseteq Nat

VARIABLES
  input,                      \* [kind, abs]: an element to convert
  output                      \* the FP16 magnitude; -1 before, -2 when it threw

convertVars == <<input, output>>

-----------------------------------------------------------------------------
Pow2(n) == 2 ^ n

Bf16BitsToFp32Bits(abs) == abs * Pow2(16)

InfFp32 == 255 * Pow2(23)     \* 0x7F800000
kInfFp16 == 31 * Pow2(10)     \* 0x7C00
kNanFp16 == 63 * Pow2(9)      \* 0x7E00

\* Mutant: a tie always rounds up.
RoundNormalUp(abs) == ((abs - 112 * Pow2(23)) + Pow2(12)) \div Pow2(13)

\* Add half less one, plus the last bit kept: ties go to even.
RoundNormal(abs) ==
  LET rebased == abs - 112 * Pow2(23)
      lsb     == (rebased \div Pow2(13)) % 2
  IN (rebased + Pow2(12) - 1 + lsb) \div Pow2(13)

\* RNE of |x| * 2^24; 1024 is the carry into the smallest normal.
RoundSubnormal(abs) ==
  LET exp32    == abs \div Pow2(23)
      sig      == Pow2(23) + (abs % Pow2(23))
      shift    == 126 - exp32
      q        == sig \div Pow2(shift)
      rem      == sig % Pow2(shift)
      halfway  == Pow2(shift - 1)
      round_up == rem > halfway \/ (rem = halfway /\ q % 2 # 0)
  IN q + (IF round_up THEN 1 ELSE 0)

Fp32BitsToFp16BitsRne(abs) ==
  LET exp32 == abs \div Pow2(23) IN
  CASE abs > InfFp32 -> kNanFp16
    [] abs \in 143 * Pow2(23) .. InfFp32 -> kInfFp16
    [] exp32 \in 113 .. 142 -> RoundNormal(abs)
    [] exp32 \in 102 .. 112 -> RoundSubnormal(abs)
    [] exp32 < 102 -> 0

\* 0x4780 (65536) up to and including infinity, 0x7F80.
Bf16OverflowsFp16(abs) == abs \in 18304 .. 32640

ConvertInit ==
  /\ input \in [kind : {"bf16"}, abs : Bf16Patterns] \cup [kind : {"fp32"}, abs : Fp32Patterns]
  /\ output = -1

\* One element of ConvertBf16ToFp16: refuse it or convert it.
ConvertElement ==
  /\ output = -1 /\ input.kind = "bf16"
  /\ output' = IF Bf16OverflowsFp16(input.abs) THEN -2
               ELSE Fp32BitsToFp16BitsRne(Bf16BitsToFp32Bits(input.abs))
  /\ UNCHANGED input

\* The second half alone, on any binary32 value.
ConvertFp32 ==
  /\ output = -1 /\ input.kind = "fp32"
  /\ output' = Fp32BitsToFp16BitsRne(input.abs)
  /\ UNCHANGED input

Converted == output # -1 /\ UNCHANGED convertVars

ConvertNext == ConvertElement \/ ConvertFp32 \/ Converted

ConvertSpec == ConvertInit /\ [][ConvertNext]_convertVars

-----------------------------------------------------------------------------
(***************************************************************************)
(* Properties.                                                             *)
(***************************************************************************)
Fp32Input == IF input.kind = "bf16" THEN Bf16BitsToFp32Bits(input.abs) ELSE input.abs

\* The finite binary32 magnitude is sig * 2^(exp - 150); subnormals share exp 1.
Sig(abs) == IF abs < Pow2(23) THEN abs ELSE Pow2(23) + (abs % Pow2(23))
Exp(abs) == IF abs < Pow2(23) THEN 1 ELSE abs \div Pow2(23)

\* Spacing of FP16 values around x, as a power of two over x's last bit.
Spacing(abs) == IF Exp(abs) >= 113 THEN 13 ELSE 126 - Exp(abs)

\* The FP16 magnitude h in multiples of that spacing: subnormals count from 0,
\* a normal has 1024 more than its mantissa, and the next binade counts double.
InSpacings(h, abs) ==
  LET field == h \div 1024
      base  == IF Exp(abs) >= 113 THEN Exp(abs) - 112 ELSE 1
  IN IF field = 0 THEN h ELSE (1024 + (h % 1024)) * (IF field > base THEN 2 ELSE 1)

\* 65504, the largest FP16 value, and 65520, from where on the nearest is infinity.
MaxFp16InFp32 == 143 * Pow2(23) - Pow2(13)
RoundsToInf == 143 * Pow2(23) - Pow2(12)

\* Every finite value the FP16 range covers becomes its nearest FP16 value, of
\* two equally near ones the even one; below half the smallest it becomes zero
\* (Fp32BitsToFp16BitsRne, the subnormal and the carry cases included).  NaN
\* stays NaN; the checked path refuses exactly what is larger than 65504, so it
\* never stores an infinity (Bf16OverflowsFp16).
RoundsToNearestEven ==
  LET abs == Fp32Input IN
  output # -1 =>
    /\ output = kNanFp16 <=> abs > InfFp32
    /\ output = -2 <=> input.kind = "bf16" /\ abs \in MaxFp16InFp32 + 1 .. InfFp32
    /\ output = kInfFp16 <=> input.kind = "fp32" /\ abs \in RoundsToInf .. InfFp32
    /\ output >= 0 /\ output < kInfFp16 =>
         IF Spacing(abs) > 24 THEN output = 0
         ELSE LET h    == InSpacings(output, abs)
                  unit == Pow2(Spacing(abs))
                  off  == IF h * unit >= Sig(abs) THEN h * unit - Sig(abs) ELSE Sig(abs) - h * unit
              IN 2 * off < unit \/ (2 * off = unit /\ output % 2 = 0)

===============================================================================
