------------------------------- MODULE BitMap -------------------------------
(***************************************************************************)
(* The validity bitmap of a blob file as the bytes it is stored in, checked*)
(* against a set of offsets.  file is the bitmap of a BlobFileMeta, scratch*)
(* the one that OnCompactionCompleted, RewriteValidKeyToLSM or a GC job    *)
(* holds.                                                                  *)
(***************************************************************************)
EXTENDS Integers, Sequences, Bitwise

CONSTANTS
  Sizes,      \* numbers of entries of blob files
  ByteBits,   \* bits of a byte: 8
  FastBytes   \* bytes that the fast path of BitOps takes at a time: 32

BitMapAssumption ==
  Sizes \subseteq Nat /\ ByteBits \in Nat \ {0} /\ FastBytes \in Nat \ {0}

VARIABLES
  file, scratch,      \* [valid_bits, bits]
  fileSet, scratchSet \* the offsets that should be set

vars == <<file, scratch, fileSet, scratchSet>>

\* Mutant of ByteSize: rounded up.
ByteSizeRounded(n) == (n + ByteBits - 1) \div ByteBits
ByteSize(n) == n \div ByteBits + 1

\* BitMap(n), and BitMap().
New(n) == [valid_bits |-> n, bits |-> [k \in 1 .. ByteSize(n) |-> 0]]
Null == [valid_bits |-> 0, bits |-> <<>>]

Byte(offset) == offset \div ByteBits + 1
Bit(offset)  == ByteBits - 1 - (offset % ByteBits)
Accepts(b, offset) == ~ (offset > b.valid_bits)

GetBit(b, offset) == (b.bits[Byte(offset)] \div 2 ^ Bit(offset)) % 2

SetBit(b, offset, on) ==
  LET old == (b.bits[Byte(offset)] \div 2 ^ Bit(offset)) % 2 IN
  [b EXCEPT !.bits[Byte(offset)] = @ + (on - old) * 2 ^ Bit(offset)]

BitOpsType == {"kBitAnd", "kBitOr", "kBitXor"}
Op(type, x, y) == CASE type = "kBitAnd" -> x & y
                    [] type = "kBitOr"  -> x | y
                    [] type = "kBitXor" -> x ^^ y

\* The bytes that the fast path has done: j after its loop.
FastEnd(size) == (size \div FastBytes) * FastBytes

\* Mutant of BitOps: the slow path starts at the first byte again.
BitOpsAgain(b, type, other) ==
  LET size == Len(b.bits)
      fast == [k \in 1 .. size |-> IF k <= FastEnd(size)
                 THEN Op(type, b.bits[k], other.bits[k]) ELSE b.bits[k]] IN
  [b EXCEPT !.bits = [k \in 1 .. size |-> Op(type, fast[k], other.bits[k])]]

BitOps(b, type, other) ==
  LET size == Len(b.bits)
      fast == [k \in 1 .. size |-> IF k <= FastEnd(size)
                 THEN Op(type, b.bits[k], other.bits[k]) ELSE b.bits[k]] IN
  [b EXCEPT !.bits = [k \in 1 .. size |-> IF k > FastEnd(size)
                        THEN Op(type, fast[k], other.bits[k]) ELSE fast[k]]]

-----------------------------------------------------------------------------
Init ==
  \E n \in Sizes : /\ file = New(n) /\ scratch = Null
                   /\ fileSet = {} /\ scratchSet = {}

\* A handler starts with a bitmap for the entries of the file.
NewScratch ==
  /\ scratch' = New(file.valid_bits) /\ scratchSet' = {}
  /\ UNCHANGED <<file, fileSet>>

SetScratch(offset, on) ==
  /\ scratch # Null /\ Accepts(scratch, offset)
  /\ scratch' = SetBit(scratch, offset, on)
  /\ scratchSet' = IF on = 1 THEN scratchSet \cup {offset} ELSE scratchSet \ {offset}
  /\ UNCHANGED <<file, fileSet>>

\* UpdateInvalidEntryIndexes uses kBitOr; the other operations are for tests.
Combine(type) ==
  /\ scratch # Null /\ scratch.valid_bits = file.valid_bits
  /\ file' = BitOps(file, type, scratch)
  /\ fileSet' = CASE type = "kBitAnd" -> fileSet \cap scratchSet
                  [] type = "kBitOr"  -> fileSet \cup scratchSet
                  [] type = "kBitXor" ->
                       (fileSet \ scratchSet) \cup (scratchSet \ fileSet)
  /\ UNCHANGED <<scratch, scratchSet>>

\* CopyTo, into a bitmap that has no bits yet.
CopyTo ==
  /\ scratch = Null
  /\ scratch' = file /\ scratchSet' = fileSet
  /\ UNCHANGED <<file, fileSet>>

\* The GC job drops its copy.
Free ==
  /\ scratch' = Null /\ scratchSet' = {}
  /\ UNCHANGED <<file, fileSet>>

Offsets == 0 .. (CHOOSE n \in Sizes : \A m \in Sizes : m <= n) + 1

Next ==
  \/ NewScratch
  \/ \E offset \in Offsets, on \in {0, 1} : SetScratch(offset, on)
  \/ \E type \in BitOpsType : Combine(type)
  \/ CopyTo
  \/ Free

Spec == Init /\ [][Next]_vars

-----------------------------------------------------------------------------
(* Properties.                                                             *)

Represents(b, set) ==
  \A offset \in 0 .. b.valid_bits :
    b.bits # <<>> => GetBit(b, offset) = IF offset \in set THEN 1 ELSE 0

\* After any sequence of SetBit, BitOps and CopyTo the bytes hold the set: bits
\* do not run into each other, and every byte is combined once.
HoldsSet == Represents(file, fileSet) /\ Represents(scratch, scratchSet)

\* An offset that SetBit and GetBit accept lies within the bytes allocated.
WithinBytes ==
  \A b \in {file, scratch} : b # Null =>
    \A offset \in Offsets : Accepts(b, offset) => Byte(offset) \in DOMAIN b.bits
=============================================================================
