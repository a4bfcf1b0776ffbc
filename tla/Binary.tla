-------------------------------- MODULE Binary --------------------------------
(***************************************************************************)
(* Bytes, and the DataView and Uint8Array calls the codecs of              *)
(* src/app/src/shared/utilities/codecs make.  A binary is a sequence of    *)
(* bytes.  A byte of an integer is a digit to the base ByteValues, least   *)
(* significant first; a byte of a float or of a text says of which value   *)
(* it is and its place in it, since nothing depends on more.  Offsets      *)
(* count from 0 as in the code.                                            *)
(***************************************************************************)
EXTENDS Integers, Sequences, SequencesExt

CONSTANTS
  ByteValues,   \* the values of a byte: 256, or fewer to meet the limits
  StringBytes,  \* the number of UTF-8 bytes of every text
  NaN,          \* the float that is not a number
  Garbage       \* what bytes of different values read together give

ASSUME ByteValuesAssumption == ByteValues \in Nat \ {0, 1}

UINT8_SIZE == 1
UINT16_SIZE == 2
UINT32_SIZE == 4
FLOAT64_SIZE == 8

\* The number of integers n bytes can tell apart, and the largest of them.
Range2(n) == ByteValues ^ n
MaxUint(n) == Range2(n) - 1

Zeros(n) == [k \in 1 .. n |-> <<"digit", 0, 0>>]

\* The bytes of an integer modulo the range of n bytes: setUint8, setUint16.
Digits(n, value) ==
  [k \in 1 .. n |-> <<"digit", 0, (value \div Range2(k - 1)) % ByteValues>>]

Parts(kind, value, n) == [k \in 1 .. n |-> <<kind, k, value>>]

\* The unsigned integer of some bytes.
NumberIn(bytes) ==
  LET digit(k) == IF bytes[k][1] = "digit" THEN bytes[k][3] ELSE ByteValues - 1
      number[k \in 1 .. Len(bytes) + 1] ==
        IF k > Len(bytes) THEN 0 ELSE digit(k) + ByteValues * number[k + 1]
  IN  number[1]

\* The float or text of some bytes; bytes never written are the float 0, no
\* bytes the empty text.
WholeIn(kind, bytes) ==
  CASE kind = "text" /\ bytes = <<>> -> ""
    [] kind = "float" /\ bytes = Zeros(Len(bytes)) -> 0
    [] OTHER -> IF bytes # <<>> /\ bytes = Parts(kind, Head(bytes)[3], Len(bytes))
                  THEN Head(bytes)[3]
                  ELSE Garbage

\* The sum of Term(x) over a sequence.
SumOver(seq, Term(_)) == FoldLeft(LAMBDA sum, x : sum + Term(x), 0, seq)

-----------------------------------------------------------------------------
(* Views.  A call outside of a view throws a RangeError.                   *)

Available(view, offset, n) == offset >= 0 /\ offset + n <= Len(view)

BytesAt(view, offset, n) == SubSeq(view, offset + 1, offset + n)

WithBytes(view, offset, bytes) ==
  SubSeq(view, 1, offset) \o bytes
    \o SubSeq(view, offset + Len(bytes) + 1, Len(view))

UintAt(view, offset, n) == NumberIn(BytesAt(view, offset, n))
FloatAt(view, offset) == WholeIn("float", BytesAt(view, offset, FLOAT64_SIZE))

\* The outcome of reading or writing: thrown, or the value and the offset
\* after it, and the view after a write.
Thrown == [ok |-> FALSE]
ReadResult(value, nextOffset) ==
  [ok |-> TRUE, value |-> value, nextOffset |-> nextOffset]

StartWriting(offset, view) ==
  [ok |-> TRUE, view |-> view, nextOffset |-> offset]

\* Bytes written where the last ones ended.
Put(written, bytes) ==
  IF written.ok /\ Available(written.view, written.nextOffset, Len(bytes))
    THEN [ ok         |-> TRUE,
           view       |-> WithBytes(written.view, written.nextOffset, bytes),
           nextOffset |-> written.nextOffset + Len(bytes) ]
    ELSE Thrown

PutAll(written, PutOne(_, _), seq) == FoldLeft(PutOne, written, seq)

\* count reads, each of which goes on where the last one ended.
Repeat(count, ReadOne(_), read) ==
  FoldLeft(LAMBDA r, k : IF r.ok THEN ReadOne(r) ELSE r,
           read, [k \in 1 .. count |-> k])

\* What follows a read or a write, unless that has thrown.
AndThen(done, Continue(_)) == IF done.ok THEN Continue(done) ELSE Thrown

\* count values one after the other, each read by ReadOne(offset).
ReadAll(offset, count, ReadOne(_)) ==
  LET Next(read) ==
        AndThen(ReadOne(read.nextOffset),
                LAMBDA one : ReadResult(Append(read.value, one.value),
                                        one.nextOffset))
  IN  Repeat(count, Next, ReadResult(<<>>, offset))

-----------------------------------------------------------------------------
(* The codec "string (2^16) v1.0".                                         *)

StringFits(text) == StringBytes[text] <= MaxUint(UINT16_SIZE)

StringSize(text) == UINT16_SIZE + StringBytes[text]

PutString(written, text) ==
  IF StringFits(text)
    THEN Put(Put(written, Digits(UINT16_SIZE, StringBytes[text])),
             Parts("text", text, StringBytes[text]))
    ELSE Thrown

ReadString(view, offset) ==
  LET length == UintAt(view, offset, UINT16_SIZE)
      start  == offset + UINT16_SIZE
  IN  IF /\ Available(view, offset, UINT16_SIZE)
         /\ Available(view, start, length)
        THEN ReadResult(WholeIn("text", BytesAt(view, start, length)),
                        start + length)
        ELSE Thrown
=============================================================================
