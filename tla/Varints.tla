------------------------------- MODULE Varints -------------------------------
(***************************************************************************)
(* How the generated code of pkg/storage/protocol.pb.go and                *)
(* config/config.pb.go writes a number or a piece of known length, and     *)
(* finds it again among other bytes.  Positions count from 1.              *)
(***************************************************************************)
EXTENDS Naturals, Sequences

CONSTANT Width64    \* stands for the 64 bits of int and uint64

ASSUME Width64Assumption == Width64 \in Nat \ {0}

-----------------------------------------------------------------------------
(* Writing.                                                                *)

\* A number, seven bits per byte; the upper bit says that more bytes follow.
Varint[n \in Nat] ==
  IF n < 128 THEN <<n>> ELSE <<128 + (n % 128)>> \o Varint[n \div 128]

\* bits.Len64(n | 1)
Bits[n \in Nat] == IF n < 2 THEN 1 ELSE 1 + Bits[n \div 2]

\* sovProtocol and sovConfig
SizeOfVarint(n) == (Bits[n] + 6) \div 7

\* Bytes, a string or a message, after their length.
Prefixed(bytes) == Varint[Len(bytes)] \o bytes

-----------------------------------------------------------------------------
(* Reading.  The result is a set, which is empty for an error.             *)

\* The last byte of the varint at i: the first one below 128, which has to
\* come before the shift reaches the width of the type.
VarintEnd(b, i) ==
  {e \in i..i + ((Width64 - 1) \div 7) :
     e <= Len(b) /\ b[e] < 128 /\ \A k \in i..e - 1 : b[k] >= 128}

\* What the bytes up to e are worth, from each of them on.
ValueUpTo(b, e) ==
  LET value[k \in 1..e] ==
        (b[k] % 128) + (IF k = e THEN 0 ELSE 128 * value[k + 1])
  IN value

\* The varint from i to e; what is shifted out of the type is lost.
ReadVarint(b, i, e, width) == ValueUpTo(b, e)[i] % 2^width

\* From where to where the value of wire type w reaches that begins at i: a
\* varint, or the bytes that follow their length.  A length that is negative
\* as an int or leads beyond the end is an error.
Extent(b, i, w) ==
  {x \in {IF w = 0 THEN <<i, e>> ELSE <<e + 1, e + ReadVarint(b, i, e, Width64)>>
          : e \in VarintEnd(b, i)} : x[2] <= Len(b)}
=============================================================================
