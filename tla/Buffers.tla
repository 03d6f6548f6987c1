------------------------------- MODULE Buffers -------------------------------
(***************************************************************************)
(* utils/buffers.cpp: a 32-bit length as four bytes.  The number of values *)
(* of a byte is a parameter, so that the whole range can be enumerated.    *)
(***************************************************************************)
EXTENDS Integers, Sequences

CONSTANT Base   \* values of a byte: 256 in the code

ASSUME BaseAssumption == Base \in Nat /\ Base > 1

Byte == 0 .. Base - 1

\* One past the largest uint32_t.
Range32 == Base * Base * Base * Base

UInt32 == 0 .. Range32 - 1

\* value >> 8u.
Shift8(value) == value \div Base

\* value & 0xFFu, or the conversion of value to a char.
LowByte(value) == value % Base

\* write_uint32 with endianness::big, at offset 0.
WriteBig(value) ==
  << LowByte(Shift8(Shift8(Shift8(value)))), LowByte(Shift8(Shift8(value))),
     LowByte(Shift8(value)), LowByte(value) >>

\* read_uint32 with endianness::big, at offset 0: each byte is shifted to its place.
ReadBig(b) == b[1] * (Base * Base * Base) + b[2] * (Base * Base) + b[3] * Base + b[4]

\* The conversion of a uint32_t to an int of the same width.
ToInt(u) == IF 2 * u < Range32 THEN u ELSE u - Range32
=============================================================================
