------------------------------- MODULE XzFormat -------------------------------
(***************************************************************************)
(* The .xz container as uf2_xz.c writes it and uf2_decompress.c reads it.  *)
(*                                                                         *)
(* A byte of a file is a record.  A byte of framing has a value; one of    *)
(* LZMA2 data is what Lzma2Stream says of it; one of a CRC says of what it *)
(* is the CRC and which of its bytes it is, so that no two different       *)
(* contents have the same CRC.  A variable length integer has VliBits bits *)
(* in a byte where the format has 7.                                       *)
(***************************************************************************)
EXTENDS Lzma2Stream

CONSTANTS
  VliBits,       \* 7
  VliBytesMax    \* XZ_VLI_BYTES_MAX

ASSUME XzAssumption == VliBits \in Nat \ {0} /\ VliBytesMax \in Nat \ {0}

VliBase == 2 ^ VliBits

F(v) == [kind |-> "frame", v |-> v]
Fs(vs) == [i \in 1 .. Len(vs) |-> F(vs[i])]

Value(b) == CASE b.kind = "frame" -> b.v [] b.kind = "end" -> 0 [] OTHER -> 255
IsZero(bytes) == \A i \in 1 .. Len(bytes) : Value(bytes[i]) = 0

Crc(content, size) == [i \in 1 .. size |-> [kind |-> "crc", of |-> content, at |-> i]]
Crc32(content) == Crc(content, 4)

(* Bytes up to the next multiple of four.                                  *)
PadSize(n) == (4 - (n % 4)) % 4
Padded(bytes, more) == bytes \o [i \in 1 .. PadSize(Len(bytes) + more) |-> F(0)]

CheckNone == 0
Crc32Type == 1
Crc64Type == 4
CheckSize(check) == IF check = 0 THEN 0 ELSE 4 * 2 ^ ((check - 1) \div 3)    \* XZ_checkSize

Magic == <<253, 55, 122, 88, 90, 0>>       \* XZ_magic
IsXz(bytes) == Len(bytes) >= 6 /\ \A i \in 1 .. 6 : Value(bytes[i]) = Magic[i]

HasCSize == 64
HasUSize == 128
FilterId == 5                              \* XZ_LZMA2_FILTER_ID

StreamHeaderSize == 12
StreamFooterSize == 12

-----------------------------------------------------------------------------
(* Writing.                                                                *)
RECURSIVE VliEncode(_)
VliEncode(x) ==
  IF x < VliBase THEN <<F(x)>> ELSE <<F(VliBase + (x % VliBase))>> \o VliEncode(x \div VliBase)

WriteStreamHeader(check) ==
  Fs(Magic) \o Fs(<<0, check>>) \o Crc32(Fs(<<0, check>>))

(* Each size is there, as a sequence of one, or unknown.                   *)
WithCrc(bytes) == bytes \o Crc32(bytes)
WithSize(rest) == <<F((Len(rest) + 5) \div 4 - 1)>> \o rest

WriteBlockHeader(cSize, uSize, prop) ==
  LET flags == (IF cSize # <<>> THEN HasCSize ELSE 0) + (IF uSize # <<>> THEN HasUSize ELSE 0)
      size(s) == IF s # <<>> THEN VliEncode(s[1]) ELSE <<>>
  IN  WithCrc(WithSize(Padded(<<F(flags)>> \o size(cSize) \o size(uSize) \o Fs(<<FilterId, 1, prop>>), 5)))

(* The records are pairs of Unpadded and Uncompressed Size.                *)
WriteIndex(count, records) ==
  LET body == FoldLeft(LAMBDA s, r : s \o VliEncode(r[1]) \o VliEncode(r[2]), <<F(0)>> \o count, records)
  IN  WithCrc(Padded(body, 0))

WriteStreamFooter(indexSize, check) ==
  LET fields == Fs(<<indexSize \div 4 - 1, 0, 0, 0, 0, check>>)
  IN  Crc32(fields) \o fields \o Fs(<<89, 90>>)

-----------------------------------------------------------------------------
(* Reading.                                                                *)

(* XZ_vliDecode: how many bytes an integer takes, 0 if it is malformed.    *)
VliDecode(bytes) ==
  LET ends == {n \in 1 .. VliBytesMax : n <= Len(bytes) /\ (Value(bytes[n]) \div VliBase) % 2 = 0}
      n    == Min(ends)
      value == FoldLeft(LAMBDA x, i : x + (Value(bytes[i]) % VliBase) * VliBase ^ (i - 1),
                        0, [i \in 1 .. n |-> i])
  IN  IF ends = {} \/ (n > 1 /\ Value(bytes[n]) = 0) THEN [n |-> 0, value |-> 0]
      ELSE [n |-> n, value |-> value]

Invalid == [ok |-> FALSE]

(* XZ_parseBlockHeader on a whole header: field after field, each where    *)
(* the one before it ended.                                                *)
HasC(h) == Value(h[2]) \in {HasCSize, HasCSize + HasUSize}
HasU(h) == Value(h[2]) \in {HasUSize, HasCSize + HasUSize}
Fields(h, q) == SubSeq(h, q, Len(h) - 4)
Absent == [n |-> 0, value |-> 0]

FieldsRead(h, c, u, filter, q, props) ==
  IF /\ SubSeq(h, Len(h) - 3, Len(h)) = Crc32(Fields(h, 1))
     /\ Value(h[2]) \in {0, HasCSize, HasUSize, HasCSize + HasUSize}
     /\ HasC(h) => c.n > 0 /\ c.value > 0
     /\ HasU(h) => u.n > 0
     /\ filter.n > 0 /\ filter.value = FilterId
     /\ props.n > 0 /\ props.value = 1 /\ q + props.n <= Len(h) - 4
     /\ Value(h[q + props.n]) <= 40
     /\ IsZero(Fields(h, q + props.n + 1))
  THEN [ok |-> TRUE, size |-> Len(h), hasC |-> HasC(h), hasU |-> HasU(h),
        cSize |-> c.value, uSize |-> u.value]
  ELSE Invalid

FilterRead(h, c, u, filter, q) == FieldsRead(h, c, u, filter, q, VliDecode(Fields(h, q)))

USizeRead(h, c, u, filter) == FilterRead(h, c, u, filter, 3 + c.n + u.n + filter.n)

CSizeRead(h, c, u) == USizeRead(h, c, u, VliDecode(Fields(h, 3 + c.n + u.n)))

FlagsRead(h, c) == CSizeRead(h, c, IF HasU(h) THEN VliDecode(Fields(h, 3 + c.n)) ELSE Absent)

ParseBlockHeader(h) == FlagsRead(h, IF HasC(h) THEN VliDecode(Fields(h, 3)) ELSE Absent)

(* The check type in a Stream Header, -1 where it is not accepted.         *)
ParseStreamHeader(h) ==
  IF /\ IsXz(h) /\ SubSeq(h, 9, 12) = Crc32(SubSeq(h, 7, 8))
     /\ Value(h[7]) = 0 /\ Value(h[8]) \in {CheckNone, Crc32Type, Crc64Type}
  THEN Value(h[8]) ELSE -1

LE32(f) == Value(f[1]) + 256 * Value(f[2]) + 65536 * Value(f[3]) + 16777216 * Value(f[4])

IsStreamFooter(f, indexSize, check) ==
  /\ SubSeq(f, 1, 4) = Crc32(SubSeq(f, 5, 10))
  /\ (LE32(SubSeq(f, 5, 8)) + 1) * 4 = indexSize
  /\ Value(f[9]) = 0 /\ Value(f[10]) = check
  /\ Value(f[11]) = 89 /\ Value(f[12]) = 90

(* The bytes as the LZMA2 decoder sees them: a zero is an end mark.        *)
AsLzma2(bytes) ==
  [p \in 1 .. Len(bytes) |-> IF bytes[p].kind = "frame" /\ bytes[p].v = 0 THEN Terminator[1]
                             ELSE bytes[p]]
=============================================================================
