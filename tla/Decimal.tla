------------------------------- MODULE Decimal ------------------------------
(***************************************************************************)
(* The two's-complement big-endian bytes of an unscaled decimal, and the   *)
(* decimal plans over bytes and over fixed (generic/codec.go).             *)
(*                                                                         *)
(* A byte has Bits bits, 8 in the code.  Power is the table of the powers  *)
(* of two that shifts multiply by.                                         *)
(***************************************************************************)
EXTENDS Integers, Sequences, FiniteSetsExt

CONSTANTS
  Bits,          \* bits of a byte
  MaxLength,     \* bound: bytes of the longest value, and of a fixed
  Power,         \* the powers of two
  MaxPrecision   \* bound: the largest precision of a schema

ASSUME DecimalAssumption ==
  /\ Bits \in Nat \ {0, 1}
  /\ MaxLength \in Nat \ {0}
  /\ Power \in [0 .. Bits * (MaxLength + 1) -> Nat]
  /\ Power[0] = 1
  /\ \A n \in 1 .. Bits * (MaxLength + 1) : Power[n] = 2 * Power[n - 1]
  /\ MaxPrecision \in Nat \ {0}

\* The largest magnitude of so many bytes.
Bound == Power[Bits * MaxLength - 1]

Radix == Power[Bits]

\* Radix to the n, the first number too long for n bytes.
Beyond(n) == Power[Bits * n]

Sign == Radix \div 2        \* 0x80

Size == 1 .. MaxLength

Magnitude(v) == IF v < 0 THEN -v ELSE v

\* big.Int.BitLen and big.Int.Bytes of a magnitude.
BitLen(m) == Min({n \in 0 .. Bits * (MaxLength + 1) : m < Power[n]})

BigEndian(m, n) == [i \in 1 .. n |-> (m \div Beyond(n - i)) % Radix]

ByteLen(m) == (BitLen(m) + Bits - 1) \div Bits

Bytes(m) == BigEndian(m, ByteLen(m))

\* A leading zero byte keeps a first bit that is set from being a sign.
PositiveBytes(m) == IF Bytes(m)[1] >= Sign THEN <<0>> \o Bytes(m) ELSE Bytes(m)

\* How many bytes twosComplementBytes takes for the negative number -m.
NegativeLen(m) == IF BitLen(m) % Bits = 0 THEN ByteLen(m) + 1 ELSE ByteLen(m)

NegativeBytes(m) ==
  LET n == NegativeLen(m) IN BigEndian(Beyond(n) - m, n)

TwosComplementBytes(v) ==
  IF v = 0 THEN <<0>>
  ELSE IF v > 0 THEN PositiveBytes(v)
  ELSE NegativeBytes(Magnitude(v))

\* big.Int.SetBytes.
SetBytes(b) ==
  LET value[n \in 0 .. Len(b)] == IF n = 0 THEN 0 ELSE value[n - 1] * Radix + b[n]
  IN  value[Len(b)]

BytesToBigInt(b) ==
  IF b = << >> THEN 0
  ELSE IF b[1] >= Sign THEN SetBytes(b) - Beyond(Len(b))
  ELSE SetBytes(b)

\* Mutant: negative numbers are padded like the others.
PadWithZero(b, size, sign) == [i \in 1 .. size - Len(b) |-> 0] \o b

PadTwosComplement(b, size, sign) ==
  LET pad == IF sign < 0 THEN Radix - 1 ELSE 0
  IN  [i \in 1 .. size - Len(b) |-> pad] \o b

PrecisionLimit(precision) == 10 ^ precision

DecimalFits(v, limit) == Magnitude(v) < limit

Rejected(e) == [err |-> e, bytes |-> << >>]

\* Encoding with the plan of a decimal over bytes.
EncodeBytes(v, precision) ==
  IF ~DecimalFits(v, PrecisionLimit(precision))
  THEN Rejected("precision")
  ELSE [err |-> "none", bytes |-> TwosComplementBytes(v)]

\* Mutant: one byte is kept for the sign.
TooLongForSign(b, size) == Len(b) >= size

TooLong(b, size) == Len(b) > size

\* Encoding with the plan of a decimal over a fixed of size bytes.
EncodeFixed(v, precision, size) ==
  LET b == TwosComplementBytes(v)
  IN  IF ~DecimalFits(v, PrecisionLimit(precision)) THEN Rejected("precision")
      ELSE IF TooLong(b, size) THEN Rejected("size")
      ELSE [err |-> "none", bytes |-> PadTwosComplement(b, size, v)]

-----------------------------------------------------------------------------
Precisions == 1 .. MaxPrecision

\* What either plan writes for the unscaled v, its decoder reads.
ReadsBack(v) ==
  \A p \in Precisions :
    /\ EncodeBytes(v, p).err = "none" => BytesToBigInt(EncodeBytes(v, p).bytes) = v
    /\ \A s \in Size :
         LET fixed == EncodeFixed(v, p, s)
         IN  fixed.err = "none" => Len(fixed.bytes) = s /\ BytesToBigInt(fixed.bytes) = v

\* A fixed of s bytes can hold every value of precision p.
RoomForPrecision(p, s) == PrecisionLimit(p) <= Beyond(s) \div 2

RoomyTakes(v) ==
  \A p \in Precisions : \A s \in Size :
    RoomForPrecision(p, s) => EncodeFixed(v, p, s).err # "size"
=============================================================================
