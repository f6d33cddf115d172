------------------------------ MODULE CompositId ------------------------------
(***************************************************************************)
(* RefLibCommon/reflib_composit_id.h: the identity of a NetConnection, a   *)
(* slot number and a salt that is incremented each time the slot's         *)
(* connection is put to use again.  The library's typedef uint32 is the    *)
(* SIGNED int (reflib_type_def.h), so a salt runs 0, 1, ..., 2^31 - 1,     *)
(* -2^31, ..., -1 and then back to 0.  GetIndex packs both halves into the *)
(* 64-bit key under which the connection manager files a busy connection.  *)
(***************************************************************************)
EXTENDS Integers

CONSTANT SaltLimit   \* 2^31: how many non-negative values a uint32 has

ASSUME SaltLimitAssumption == SaltLimit \in Nat \ {0}

WordSize == 2 * SaltLimit                       \* 2^32

\* The values of the library's uint32, which is int.
Word == (-SaltLimit) .. (SaltLimit - 1)

\* The usual arithmetic conversion of a uint32 operand to unsigned int.
AsUnsigned(w) == IF w < 0 THEN w + WordSize ELSE w

\* Mutant: a reused connection keeps its salt.
IncSaltNever(salt) == salt

\* _salt < UINT32_MAX ? _salt + 1 : 0.  The comparison is unsigned; _salt + 1
\* overflows a signed int at 2^31 - 1, which the MSVC build wraps.
IncSalt(salt) ==
    IF AsUnsigned(salt) < WordSize - 1
    THEN IF salt = SaltLimit - 1 THEN -SaltLimit ELSE salt + 1
    ELSE 0

\* Mutants: one half of the identity does not reach the key.
GetIndexOfSalt(slot, salt) == AsUnsigned(salt)
GetIndexOfSlot(slot, salt) == slot * WordSize

\* (_id & UINT64_MAX) << 32 | _salt.  A negative salt is sign-extended to
\* 64 bits before the "or": its upper word is all ones and hides the slot.
GetIndex(slot, salt) ==
    IF salt >= 0
    THEN slot * WordSize + salt
    ELSE (WordSize - 1) * WordSize + AsUnsigned(salt)

===============================================================================
