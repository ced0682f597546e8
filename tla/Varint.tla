------------------------------- MODULE Varint -------------------------------
(***************************************************************************)
(* Avro's variable-length zigzag encoding of a long, at a scaled width.    *)
(*                                                                         *)
(* In the code a byte carries 7 payload bits and a continuation bit, and a *)
(* long has 64 bits, so it takes at most 10 bytes, the tenth of which can  *)
(* only contribute one bit (9 * 7 + 1 = 64).  Here a byte carries Base     *)
(* payload values (Base = 128 in the code), a long takes at most MaxLen    *)
(* bytes (binary.MaxVarintLen64 = 10 in the code), and there are           *)
(* Half == Base^(MaxLen-1) nonnegative longs (128^9 = 2^63): the           *)
(* proportions of the code, last one-bit byte included, are kept.  Weight  *)
(* is the function i |-> Base^i, what the i-th group of bits is worth.     *)
(***************************************************************************)
EXTENDS Integers, Sequences, FiniteSetsExt

CONSTANTS
  Base,      \* payload values of one byte: 2^7 in the code
  MaxLen,    \* most bytes of one varint: binary.MaxVarintLen64
  Weight     \* the powers of Base

ASSUME VarintAssumption ==
  /\ Base \in Nat \ {0, 1}
  /\ MaxLen \in Nat \ {0, 1}
  /\ Weight \in [0 .. MaxLen -> Nat \ {0}]
  /\ Weight[0] = 1
  /\ \A i \in 1 .. MaxLen : Weight[i] = Base * Weight[i - 1]

Half == Weight[MaxLen - 1]        \* 2^63

Long  == (-Half) .. (Half - 1)    \* int64
ULong == 0 .. (2 * Half - 1)      \* uint64
Byte  == 0 .. (2 * Base - 1)      \* a byte >= Base has its continuation bit

\* int64 arithmetic wraps around.
Wrap(n) == ((n + Half) % (2 * Half)) - Half

ZigZag(l) == IF l >= 0 THEN 2 * l ELSE -(2 * l) - 1

UnZigZag(u) == IF u % 2 = 0 THEN u \div 2 ELSE -(u \div 2) - 1

\* binary.PutVarint: the number of bytes of u, then the bytes, low group first.
GroupCount(u) == Min({n \in 1 .. MaxLen : u < Weight[n]})

PutVarint(l) ==
  LET u == ZigZag(l)
      n == GroupCount(u)
      group(i) == (u \div Weight[i - 1]) % Base
  IN  [i \in 1 .. n |-> IF i < n THEN Base + group(i) ELSE group(i)]

(***************************************************************************)
(* What the bytes of a varint stand for, one turn of ReadLong's loop after *)
(* the other, and what ReadLong makes of it: uint64(b & 0x7f) << shift     *)
(* drops the bits beyond the width of a long.                              *)
(***************************************************************************)
Accumulated(bytes) ==
  LET unsigned[n \in 0 .. Len(bytes)] ==
        IF n = 0 THEN 0 ELSE unsigned[n - 1] + (bytes[n] % Base) * Weight[n - 1]
  IN  unsigned

GroupsValue(bytes) == Accumulated(bytes)[Len(bytes)]

VarintValue(bytes) == UnZigZag(GroupsValue(bytes) % (2 * Half))
=============================================================================
