------------------------ MODULE EepromRecordsProofs ------------------------
(***************************************************************************)
(* The copying of bytes amounts to a table of texts, for any number and    *)
(* size of records, any texts and any leftovers in memory.                 *)
(***************************************************************************)
EXTENDS EepromRecords, WellFoundedInduction, SequenceTheorems, TLAPS

-----------------------------------------------------------------------------
\* Arithmetic

\* Every nonempty set of natural numbers has a least element, which is its Min.
LEMMA LeastIsMin ==
    ASSUME NEW S \in SUBSET Nat, S # {}
    PROVE  Min(S) \in S /\ \A k \in S : Min(S) <= k
<1>1. PICK m \in S : \A k \in S : <<k, m>> \notin OpToRel(<, Nat)
  BY WFMin, NatLessThanWellFounded, Zenon
<1>2. \A k \in S : k \in Nat /\ ~(k < m)
  BY <1>1, Zenon DEF OpToRel
<1>3. \A k \in S : m <= k
  BY <1>2
<1>4. QED
  BY <1>3, Zenon DEF Min

\* The least of two numbers.
LEMMA MinOfTwo ==
    ASSUME NEW m \in Nat, NEW n \in Nat
    PROVE  Min({m, n}) = IF m < n THEN m ELSE n
<1> DEFINE S == {m, n}
<1>1. S \in SUBSET Nat /\ S # {}
  OBVIOUS
<1>2. Min(S) \in S /\ \A k \in S : Min(S) <= k
  BY <1>1, LeastIsMin
<1>3. QED
  BY <1>2

\* Multiples of a positive number are that number apart.
LEMMA Multiples ==
    ASSUME NEW N \in Nat \ {0}, NEW a \in Int, NEW b \in Int, a < b
    PROVE  a * N + N <= b * N
  OBVIOUS

\* Quotient and remainder make up the number.
LEMMA DivMod ==
    ASSUME NEW N \in Nat \ {0}, NEW t \in Nat
    PROVE  /\ t \div N \in Nat
           /\ t % N \in 0 .. N - 1
           /\ t = (t \div N) * N + (t % N)
  OBVIOUS

\* Only one quotient and remainder do.
LEMMA DivModUnique ==
    ASSUME NEW N \in Nat \ {0}, NEW q \in Nat, NEW r \in 0 .. N - 1
    PROVE  /\ (q * N + r) \div N = q
           /\ (q * N + r) % N = r
  OBVIOUS

\* A record lies within the sector and within the part that save() writes.
LEMMA RecordFits ==
    ASSUME NEW r \in Records
    PROVE  /\ StartIndex(r) \in Nat
           /\ StartIndex(r) + RecordSize <= TotalSize
           /\ TotalSize \in Nat /\ TotalSize < SectorSize
           /\ \A k \in Offsets : StartIndex(r) + k \in Addresses
<1>1. RecordSize \in Nat \ {0} /\ r \in Int /\ RecordCount \in Int /\ r < RecordCount /\ SectorSize \in Nat
  BY SizeAssumption DEF Records
<1>2. r * RecordSize + RecordSize <= RecordCount * RecordSize
  BY <1>1, Multiples
<1>3. r * RecordSize \in Nat /\ RecordCount * RecordSize \in Nat
  BY SizeAssumption DEF Records
<1>4. QED
  BY <1>1, <1>2, <1>3, SizeAssumption DEF StartIndex, TotalSize, Addresses, Offsets

\* Records do not overlap.
LEMMA RecordsApart ==
    ASSUME NEW r \in Records, NEW p \in Records, r # p, NEW j \in Offsets, NEW k \in Offsets
    PROVE  StartIndex(r) + j # StartIndex(p) + k
<1>1. RecordSize \in Nat \ {0} /\ r \in Int /\ p \in Int /\ r * RecordSize \in Int /\ p * RecordSize \in Int
  BY SizeAssumption DEF Records
<1>2. CASE r < p
  <2>1. r * RecordSize + RecordSize <= p * RecordSize
    BY <1>1, <1>2, Multiples
  <2>2. QED
    BY <1>1, <2>1 DEF StartIndex, Offsets
<1>3. CASE p < r
  <2>1. p * RecordSize + RecordSize <= r * RecordSize
    BY <1>1, <1>3, Multiples
  <2>2. QED
    BY <1>1, <2>1 DEF StartIndex, Offsets
<1>4. QED
  BY <1>1, <1>2, <1>3

-----------------------------------------------------------------------------
\* C strings

\* Where the string at an address ends.
EndOf(bytes, start) == Min({n \in 0 .. RecordSize : n = RecordSize \/ bytes[start + n] = 0})

LEMMA EndIsFirstZero ==
    ASSUME NEW bytes, NEW start
    PROVE  /\ EndOf(bytes, start) \in 0 .. RecordSize
           /\ EndOf(bytes, start) = RecordSize \/ bytes[start + EndOf(bytes, start)] = 0
           /\ \A n \in 0 .. EndOf(bytes, start) - 1 : bytes[start + n] # 0
           /\ CString(bytes, start)
                = [k \in 1 .. EndOf(bytes, start) |-> bytes[start + k - 1]]
<1> DEFINE S == {n \in 0 .. RecordSize : n = RecordSize \/ bytes[start + n] = 0}
<1>1. RecordSize \in Nat
  BY SizeAssumption
<1>2. S \in SUBSET Nat /\ RecordSize \in S
  BY <1>1
<1>3. Min(S) \in S /\ \A k \in S : Min(S) <= k
  BY <1>2, LeastIsMin
<1>4. EndOf(bytes, start) = Min(S)
  BY DEF EndOf
<1>5. \A n \in 0 .. Min(S) - 1 : bytes[start + n] # 0
  <2> SUFFICES ASSUME NEW n \in 0 .. Min(S) - 1, bytes[start + n] = 0
               PROVE  FALSE
    OBVIOUS
  <2>1. n \in S /\ n < Min(S)
    BY <1>1, <1>3
  <2>2. QED
    BY <1>1, <1>3, <2>1
<1>6. QED
  BY <1>3, <1>4, <1>5 DEF CString, EndOf

\* A string is known by its end: there is no other place where the first zero, or
\* the end of the record, could be.
LEMMA EndIsUnique ==
    ASSUME NEW bytes, NEW start, NEW e \in 0 .. RecordSize,
           e = RecordSize \/ bytes[start + e] = 0,
           \A n \in 0 .. e - 1 : bytes[start + n] # 0
    PROVE  EndOf(bytes, start) = e
<1> DEFINE m == EndOf(bytes, start)
<1>1. /\ RecordSize \in Nat /\ m \in 0 .. RecordSize
      /\ m = RecordSize \/ bytes[start + m] = 0
      /\ \A n \in 0 .. m - 1 : bytes[start + n] # 0
  BY EndIsFirstZero, SizeAssumption
<1>2. ~(m < e)
  BY <1>1
<1>3. ~(e < m)
  BY <1>1
<1>4. QED
  BY <1>1, <1>2, <1>3

LEMMA FunctionIsSequence ==
    ASSUME NEW S, NEW n \in Nat, NEW f \in [1 .. n -> S]
    PROVE  f \in Seq(S) /\ Len(f) = n
  OBVIOUS

\* The text of a record is a text, no longer than the record.
LEMMA CStringType ==
    ASSUME NEW bytes, NEW start \in Nat,
           \A k \in Offsets : bytes[start + k] \in Bytes
    PROVE  /\ CString(bytes, start) \in Seq(1 .. 255)
           /\ Len(CString(bytes, start)) = EndOf(bytes, start)
<1> DEFINE m == EndOf(bytes, start)
<1>1. /\ RecordSize \in Nat /\ m \in 0 .. RecordSize
      /\ \A n \in 0 .. m - 1 : bytes[start + n] # 0
      /\ CString(bytes, start) = [k \in 1 .. m |-> bytes[start + k - 1]]
  BY EndIsFirstZero, SizeAssumption
<1>2. ASSUME NEW k \in 1 .. m PROVE bytes[start + k - 1] \in 1 .. 255
  <2>1. k - 1 \in 0 .. m - 1 /\ k - 1 \in Offsets /\ start + k - 1 = start + (k - 1)
    BY <1>1 DEF Offsets
  <2>2. QED
    BY <1>1, <2>1 DEF Bytes
<1>3. m \in Nat
  BY <1>1
<1> DEFINE text == [k \in 1 .. m |-> bytes[start + k - 1]]
<1>4. text \in [1 .. m -> 1 .. 255]
  BY <1>2, Zenon
<1>5. text \in Seq(1 .. 255) /\ Len(text) = m
  <2> HIDE DEF text, m
  <2> QED
    BY <1>3, <1>4, FunctionIsSequence
<1>6. QED
  BY <1>1, <1>5, Zenon

\* Records with the same bytes hold the same text.
LEMMA SameBytesSameText ==
    ASSUME NEW bytes, NEW start \in Nat, NEW bytes2, NEW start2 \in Nat,
           \A k \in Offsets : bytes[start + k] = bytes2[start2 + k]
    PROVE  CString(bytes, start) = CString(bytes2, start2)
<1> DEFINE m == EndOf(bytes, start)
<1>1. /\ RecordSize \in Nat /\ m \in 0 .. RecordSize
      /\ m = RecordSize \/ bytes[start + m] = 0
      /\ \A n \in 0 .. m - 1 : bytes[start + n] # 0
      /\ CString(bytes, start) = [k \in 1 .. m |-> bytes[start + k - 1]]
  BY EndIsFirstZero, SizeAssumption
<1> HIDE DEF m
<1>2. ASSUME m # RecordSize PROVE bytes2[start2 + m] = 0
  <2>1. m \in Offsets
    BY <1>1, <1>2 DEF Offsets
  <2>2. QED
    BY <1>1, <1>2, <2>1
<1>3. \A n \in 0 .. m - 1 : bytes2[start2 + n] # 0
  BY <1>1 DEF Offsets
<1>4. m = EndOf(bytes2, start2)
  <2>1. m \in 0 .. RecordSize /\ (m = RecordSize \/ bytes2[start2 + m] = 0)
    BY <1>1, <1>2
  <2>2. QED
    BY <1>3, <2>1, EndIsUnique
<1>5. CString(bytes2, start2) = [k \in 1 .. m |-> bytes2[start2 + k - 1]]
  BY <1>4, EndIsFirstZero
<1>6. ASSUME NEW k \in 1 .. m PROVE bytes[start + k - 1] = bytes2[start2 + k - 1]
  <2>1. k - 1 \in Offsets /\ start + k - 1 = start + (k - 1) /\ start2 + k - 1 = start2 + (k - 1)
    BY <1>1 DEF Offsets
  <2>2. QED
    BY <2>1
<1>7. QED
  BY <1>1, <1>5, <1>6, Zenon

-----------------------------------------------------------------------------
\* Buffers and the texts they hold

CutLength(text) == IF Len(text) < RecordSize - 1 THEN Len(text) ELSE RecordSize - 1

\* What a record keeps of a text.
LEMMA CutIsPrefix ==
    ASSUME NEW text \in Seq(1 .. 255)
    PROVE  /\ CutLength(text) \in Offsets /\ CutLength(text) <= Len(text)
           /\ Min({Len(text), RecordSize - 1}) = CutLength(text)
           /\ Texts!Cut(text) = SubSeq(text, 1, CutLength(text))
           /\ Texts!Cut(text) \in Seq(1 .. 255)
           /\ Len(Texts!Cut(text)) = CutLength(text)
           /\ \A k \in 1 .. CutLength(text) : Texts!Cut(text)[k] = text[k]
           /\ Texts!Cut(text) = [k \in 1 .. CutLength(text) |-> text[k]]
           /\ Len(text) <= RecordSize - 1 => Texts!Cut(text) = text
<1> DEFINE len == CutLength(text)
<1>1. RecordSize - 1 \in Nat /\ Len(text) \in Nat
  BY SizeAssumption
<1>2. len \in Offsets /\ len \in Nat /\ len <= Len(text)
  BY <1>1 DEF CutLength, Offsets
<1>3. Min({Len(text), RecordSize - 1}) = len
  BY <1>1, MinOfTwo DEF CutLength
<1>4. Texts!Cut(text) = SubSeq(text, 1, len)
  BY DEF Texts!Cut, Texts!Shorter, CutLength
<1>5. /\ SubSeq(text, 1, len) \in Seq(1 .. 255)
      /\ Len(SubSeq(text, 1, len)) = len
      /\ \A k \in 1 .. len : SubSeq(text, 1, len)[k] = text[k]
  <2> HIDE DEF len
  <2>1. \A k \in 1 .. len : text[k] \in 1 .. 255
    <3>1. \A k \in 1 .. Len(text) : text[k] \in 1 .. 255
      BY ElementOfSeq
    <3>2. QED
      BY <1>1, <1>2, <3>1
  <2>2. /\ SubSeq(text, 1, len) \in Seq(1 .. 255)
        /\ Len(SubSeq(text, 1, len)) = IF 1 <= len THEN len - 1 + 1 ELSE 0
        /\ \A k \in 1 .. len - 1 + 1 : SubSeq(text, 1, len)[k] = text[1 + k - 1]
    BY <1>2, <2>1, SubSeqProperties
  <2>3. \A k \in 1 .. len : k \in 1 .. len - 1 + 1 /\ 1 + k - 1 = k
    BY <1>2
  <2>4. Len(SubSeq(text, 1, len)) = len
    BY <1>2, <2>2
  <2>5. \A k \in 1 .. len : SubSeq(text, 1, len)[k] = text[k]
    BY <2>2, <2>3
  <2> QED
    BY <2>2, <2>4, <2>5
<1>6. SubSeq(text, 1, len) = [k \in 1 .. len |-> text[k]]
  <2> HIDE DEF len
  <2> QED
    BY <1>1, <1>2, <1>5
<1>7. Len(text) <= RecordSize - 1 => SubSeq(text, 1, len) = text
  <2> SUFFICES ASSUME Len(text) <= RecordSize - 1 PROVE SubSeq(text, 1, len) = text
    OBVIOUS
  <2>1. len = Len(text)
    BY <1>1 DEF CutLength
  <2>2. QED
    BY <1>1, <1>5, <2>1, SeqEqual
<1>8. QED
  BY <1>2, <1>3, <1>4, <1>5, <1>6, <1>7

\* setData leaves a buffer that ends its text, and the text that is read from it is
\* the one it was given, cut to the record's size.
LEMMA SetDataCuts ==
    ASSUME NEW buffer \in [Offsets -> Bytes], NEW text \in Seq(1 .. 255)
    PROVE  /\ SetData(buffer, text) \in [Offsets -> Bytes]
           /\ \E k \in Offsets : SetData(buffer, text)[k] = 0
           /\ CString(SetData(buffer, text), 0) = Texts!Cut(text)
<1> DEFINE len == CutLength(text)
           new == SetData(buffer, text)
<1>1. /\ RecordSize \in Nat /\ Len(text) \in Nat
      /\ len \in Offsets /\ len \in Nat /\ len <= Len(text) /\ len < RecordSize
      /\ new = [k \in Offsets |-> IF k < len THEN text[k + 1]
                                  ELSE IF k = len THEN 0 ELSE buffer[k]]
      /\ Texts!Cut(text) = [k \in 1 .. len |-> text[k]]
  <2>1. RecordSize \in Nat /\ Len(text) \in Nat
    BY SizeAssumption
  <2>2. /\ len \in Offsets /\ len <= Len(text)
        /\ Min({Len(text), RecordSize - 1}) = len
        /\ Texts!Cut(text) = [k \in 1 .. len |-> text[k]]
    BY CutIsPrefix, Zenon
  <2> HIDE DEF len
  <2>3. len \in Nat /\ len < RecordSize
    BY <2>1, <2>2 DEF Offsets
  <2>4. new = [k \in Offsets |-> IF k < len THEN text[k + 1]
                                  ELSE IF k = len THEN 0 ELSE buffer[k]]
    BY <2>2, Zenon DEF SetData
  <2> HIDE DEF new
  <2> QED
    BY <2>1, <2>2, <2>3, <2>4
<1> HIDE DEF len, new
<1>2. \A k \in 0 .. len - 1 : k \in Offsets /\ k + 1 \in 1 .. len /\ k + 1 \in 1 .. Len(text)
  BY <1>1 DEF Offsets
<1>3. \A k \in 0 .. len - 1 : new[k] = text[k + 1] /\ text[k + 1] \in 1 .. 255
  <2>1. \A k \in 1 .. Len(text) : text[k] \in 1 .. 255
    BY ElementOfSeq
  <2>2. QED
    BY <1>1, <1>2, <2>1
<1>4. new[len] = 0
  BY <1>1
<1>10. ASSUME NEW k \in 0 .. len - 1 PROVE new[k] # 0 /\ new[k] \in Bytes
  <2>1. \A v : v \in 1 .. 255 => v # 0 /\ v \in 0 .. 255
    OBVIOUS
  <2>2. QED
    BY <1>3, <2>1, Zenon DEF Bytes
<1>5. new \in [Offsets -> Bytes]
  <2>1. ASSUME NEW k \in Offsets PROVE new[k] \in Bytes
    <3>1. CASE k < len
      <4>1. k \in 0 .. len - 1
        BY <1>1, <2>1, <3>1 DEF Offsets
      <4>2. QED
        BY <1>10, <4>1
    <3>2. CASE ~(k < len)
      BY <1>1, <2>1, <3>2 DEF Bytes
    <3>3. QED
      BY <3>1, <3>2
  <2>2. QED
    BY <1>1, <2>1
<1>6. CString(new, 0) = [k \in 1 .. len |-> new[0 + k - 1]]
  <2>1. 0 + len = len /\ \A k \in 0 .. len - 1 : 0 + k = k
    BY <1>1
  <2>2. len \in 0 .. RecordSize /\ new[0 + len] = 0
    BY <1>1, <1>4, <2>1
  <2>5. \A k \in 0 .. len - 1 : new[0 + k] # 0
    BY <1>10, <2>1
  <2>3. len = EndOf(new, 0)
    BY <2>2, <2>5, EndIsUnique
  <2>4. QED
    BY <2>3, EndIsFirstZero
<1>7. \A k \in 1 .. len : new[0 + k - 1] = text[k]
  BY <1>1, <1>3
<1>8. CString(new, 0) = Texts!Cut(text)
  BY <1>1, <1>6, <1>7
<1>9. QED
  BY <1>1, <1>4, <1>5, <1>8 DEF new

\* A buffer that ends its text holds one that fits.
LEMMA EndedTextFits ==
    ASSUME NEW buffer \in [Offsets -> Bytes], \E k \in Offsets : buffer[k] = 0
    PROVE  /\ CString(buffer, 0) \in Seq(1 .. 255)
           /\ Len(CString(buffer, 0)) < RecordSize
           /\ Len(CString(buffer, 0)) = EndOf(buffer, 0)
           /\ Texts!Cut(CString(buffer, 0)) = CString(buffer, 0)
<1> DEFINE m == EndOf(buffer, 0)
<1>1. /\ RecordSize \in Nat /\ m \in 0 .. RecordSize
      /\ \A n \in 0 .. m - 1 : buffer[0 + n] # 0
  BY EndIsFirstZero, SizeAssumption
<1>2. PICK k \in Offsets : buffer[k] = 0
  OBVIOUS
<1>3. m < RecordSize
  <2>1. SUFFICES ASSUME m = RecordSize PROVE FALSE
    BY <1>1
  <2>2. k \in 0 .. m - 1 /\ 0 + k = k
    BY <1>1, <2>1 DEF Offsets
  <2>3. QED
    BY <1>1, <1>2, <2>2
<1>4. \A n \in Offsets : buffer[0 + n] \in Bytes
  BY DEF Offsets
<1>5. CString(buffer, 0) \in Seq(1 .. 255) /\ Len(CString(buffer, 0)) = m
  BY <1>4, CStringType
<1>6. Len(CString(buffer, 0)) <= RecordSize - 1
  BY <1>1, <1>3, <1>5
<1>7. QED
  BY <1>1, <1>3, <1>5, <1>6, CutIsPrefix

\* The text of a record, and the part of it that counts as stored.
LEMMA RecordText ==
    ASSUME sector \in [Addresses -> Bytes], NEW r \in Records
    PROVE  /\ ReadText(r) \in Seq(1 .. 255)
           /\ StoredText(r) = Texts!Cut(ReadText(r))
<1>1. StartIndex(r) \in Nat /\ \A k \in Offsets : sector[StartIndex(r) + k] \in Bytes
  BY RecordFits
<1>2. ReadText(r) \in Seq(1 .. 255)
  BY <1>1, CStringType DEF ReadText
<1>3. QED
  BY <1>2, CutIsPrefix DEF StoredText

\* The empty text.
LEMMA EmptyText ==
    /\ <<>> \in Seq(1 .. 255) /\ Len(<<>>) = 0
    /\ Texts!Cut(<<>>) = <<>>
    /\ \A text \in Seq(1 .. 255) : Texts!Cut(text) = <<>> => text = <<>>
<1>1. <<>> \in Seq(1 .. 255) /\ Len(<<>>) = 0 /\ RecordSize - 1 \in Nat \ {0}
  BY EmptySeq, SizeAssumption
<1>2. Texts!Cut(<<>>) = <<>>
  <2>1. Len(<<>>) <= RecordSize - 1 => Texts!Cut(<<>>) = <<>>
    BY <1>1, CutIsPrefix, Zenon
  <2>2. QED
    BY <1>1, <2>1
<1>3. ASSUME NEW text \in Seq(1 .. 255), Texts!Cut(text) = <<>> PROVE text = <<>>
  <2>1. CutLength(text) = 0 /\ Len(text) \in Nat
    <3>1. Len(Texts!Cut(text)) = CutLength(text)
      BY CutIsPrefix, Zenon
    <3>2. QED
      BY <1>1, <1>3, <3>1
  <2>2. Len(text) = 0
    BY <1>1, <2>1 DEF CutLength
  <2>3. QED
    BY <2>2, EmptySeq
<1>4. QED
  BY <1>1, <1>2, <1>3

\* A string that starts with a zero is empty.
LEMMA ZeroIsEmpty ==
    ASSUME NEW bytes, NEW start \in Nat, bytes[start] = 0
    PROVE  CString(bytes, start) = <<>>
<1>1. /\ 0 \in 0 .. RecordSize /\ bytes[start + 0] = 0
      /\ \A n \in 0 .. 0 - 1 : bytes[start + n] # 0
  BY SizeAssumption
<1>2. EndOf(bytes, start) = 0
  BY <1>1, EndIsUnique
<1>3. CString(bytes, start) = [k \in 1 .. 0 |-> bytes[start + k - 1]]
  BY <1>2, EndIsFirstZero
<1>4. QED
  BY <1>3

-----------------------------------------------------------------------------
\* Writing

\* A text written to a record is what is read from it; the other records keep
\* their bytes, but for the byte at 1 when the text is empty.
LEMMA WriteText ==
    ASSUME sector \in [Addresses -> Bytes], NEW r \in Records,
           NEW text \in Seq(1 .. 255), Len(text) < RecordSize,
           DoWrite(text, StartIndex(r))
    PROVE  /\ sector' \in [Addresses -> Bytes]
           /\ ReadText(r)' = text
           /\ \A p \in Records, k \in Offsets :
                 p # r /\ (text = <<>> => StartIndex(p) + k # 1)
                   => sector'[StartIndex(p) + k] = sector[StartIndex(p) + k]
           /\ text = <<>> => sector'[1] = 0
<1> DEFINE start == StartIndex(r)
           len == Len(text)
           dbIndex == IF text = <<>> THEN 0 ELSE start + len - 1
<1>1. /\ start \in Nat /\ len \in Nat /\ RecordSize \in Nat \ {0, 1} /\ SectorSize \in Nat
      /\ start + RecordSize <= TotalSize /\ TotalSize \in Nat /\ TotalSize < SectorSize
      /\ \A k \in Offsets : start + k \in Addresses
  BY RecordFits, SizeAssumption
<1>2. DOMAIN text = 1 .. len /\ \A k \in 1 .. len : text[k] \in 1 .. 255
  BY LenProperties, ElementOfSeq
<1>3. text = <<>> <=> len = 0
  BY EmptySeq
<1>4. sector' = [a \in Addresses |->
                    IF a - start + 1 \in 1 .. len THEN text[a - start + 1]
                    ELSE IF a = dbIndex + 1 \/ (text = <<>> /\ a = start) THEN 0
                    ELSE sector[a]]
  BY <1>2, Zenon DEF DoWrite
<1> HIDE DEF start, len
<1>12. ASSUME NEW a \in Addresses, a - start + 1 \in 1 .. len
       PROVE  sector'[a] = text[a - start + 1]
  BY <1>4, <1>12, Zenon
<1>13. ASSUME NEW a \in Addresses, a - start + 1 \notin 1 .. len
       PROVE  sector'[a] = IF a = dbIndex + 1 \/ (text = <<>> /\ a = start) THEN 0 ELSE sector[a]
  BY <1>4, <1>13, Zenon
<1> HIDE DEF dbIndex
<1>5. sector' \in [Addresses -> Bytes]
  <2>1. ASSUME NEW a \in Addresses PROVE sector'[a] \in Bytes
    <3>1. CASE a - start + 1 \in 1 .. len
      <4>1. \A v : v \in 1 .. 255 => v \in Bytes
        BY DEF Bytes
      <4>2. QED
        BY <1>2, <1>12, <3>1, <4>1, Zenon
    <3>2. CASE a - start + 1 \notin 1 .. len
      <4>1. 0 \in Bytes /\ sector[a] \in Bytes
        BY DEF Bytes
      <4>2. QED
        BY <1>13, <3>2, <4>1, Zenon
    <3>3. QED
      BY <3>1, <3>2
  <2>2. QED
    BY <1>4, <2>1
<1>6. ASSUME NEW k \in 0 .. len - 1
      PROVE  sector'[start + k] = text[k + 1] /\ k + 1 \in 1 .. len
  <2> DEFINE a == start + k
  <2>1. k \in Offsets /\ a - start + 1 = k + 1 /\ k + 1 \in 1 .. len
    BY <1>1, <1>6 DEF Offsets, len
  <2>2. a \in Addresses
    BY <1>1, <2>1
  <2> HIDE DEF a
  <2>3. a - start + 1 \in 1 .. len
    BY <2>1
  <2>4. sector'[a] = text[a - start + 1]
    BY <1>12, <2>2, <2>3, Zenon
  <2>5. QED
    BY <2>1, <2>4, Zenon DEF a
<1>7. sector'[start + len] = 0
  <2> DEFINE a == start + len
  <2>1. len \in Offsets /\ a - start + 1 \notin 1 .. len
    BY <1>1 DEF Offsets, len
  <2>2. a \in Addresses
    BY <1>1, <2>1
  <2>3. a = dbIndex + 1 \/ (text = <<>> /\ a = start)
    BY <1>1, <1>3 DEF dbIndex
  <2> HIDE DEF a
  <2>4. QED
    <3>1. sector'[a] = IF a = dbIndex + 1 \/ (text = <<>> /\ a = start) THEN 0 ELSE sector[a]
      BY <1>13, <2>1, <2>2, Zenon
    <3>2. sector'[a] = 0
      BY <2>3, <3>1
    <3>3. QED
      BY <3>2 DEF a
<1>8. ReadText(r)' = text
  <2>1. ASSUME NEW k \in 0 .. len - 1 PROVE sector'[start + k] # 0
    <3>1. text[k + 1] \in 1 .. 255
      BY <1>2, <1>6, Zenon
    <3>2. text[k + 1] # 0
      <4>1. \A v \in 1 .. 255 : v # 0
        OBVIOUS
      <4>2. QED
        BY <3>1, <4>1, Zenon
    <3>3. QED
      BY <1>6, <3>2, Zenon
  <2>2. len \in 0 .. RecordSize
    BY <1>1 DEF len
  <2>3. EndOf(sector', start) = len
    BY <1>7, <2>1, <2>2, EndIsUnique
  <2>4. CString(sector', start) = [k \in 1 .. len |-> sector'[start + k - 1]]
    BY <2>3, EndIsFirstZero
  <2>5. ASSUME NEW k \in 1 .. len PROVE sector'[start + k - 1] = text[k]
    <3>1. k - 1 \in 0 .. len - 1 /\ start + k - 1 = start + (k - 1) /\ (k - 1) + 1 = k
      BY <1>1
    <3>2. QED
      BY <1>6, <3>1
  <2>6. CString(sector', start) = [k \in 1 .. len |-> text[k]]
    BY <2>4, <2>5, Zenon
  <2>7. text = [k \in 1 .. len |-> text[k]]
    BY <1>2, LenProperties DEF len
  <2>8. QED
    BY <2>6, <2>7 DEF ReadText, start, StartIndex
<1>9. ASSUME NEW p \in Records, NEW k \in Offsets, p # r, text = <<>> => StartIndex(p) + k # 1
      PROVE  sector'[StartIndex(p) + k] = sector[StartIndex(p) + k]
  <2> DEFINE a == StartIndex(p) + k
  <2>1. a \in Addresses /\ a \in Int
    BY RecordFits DEF Addresses
  <2>2. \A j \in Offsets : start + j # a
    BY <1>9, RecordsApart DEF start
  <2> HIDE DEF a
  <2>3. a - start + 1 \notin 1 .. len
    <3>1. SUFFICES ASSUME a - start + 1 \in 1 .. len PROVE FALSE
      OBVIOUS
    <3>2. a - start \in Offsets /\ start + (a - start) = a
      BY <1>1, <2>1, <3>1 DEF Offsets, len
    <3>3. QED
      BY <2>2, <3>2
  <2>4. a # start /\ a # start + len
    <3>1. 0 \in Offsets /\ len \in Offsets /\ start + 0 = start
      BY <1>1 DEF Offsets, len
    <3>2. QED
      BY <2>2, <3>1
  <2>5. ~(a = dbIndex + 1 \/ (text = <<>> /\ a = start))
    BY <1>1, <1>9, <2>1, <2>4 DEF a, dbIndex
  <2>6. sector'[a] = sector[a]
    BY <1>13, <2>1, <2>3, <2>5, Zenon
  <2>7. QED
    BY <2>6 DEF a
<1>10. ASSUME text = <<>> PROVE sector'[1] = 0
  <2>1. 1 \in Addresses /\ 1 = dbIndex + 1
    BY <1>1, <1>10 DEF Addresses, dbIndex
  <2>2. 1 - start + 1 \notin 1 .. len
    BY <1>3, <1>10
  <2>3. QED
    BY <1>13, <2>1, <2>2, Zenon
<1>11. QED
  BY <1>5, <1>8, <1>9, <1>10

-----------------------------------------------------------------------------
\* Reading and changing entries

LEMMA BufferTypes == \A buffer \in Buffers : buffer \in [Offsets -> Bytes]
<1> SUFFICES ASSUME NEW b \in Leftovers PROVE [k \in Offsets |-> b] \in [Offsets -> Bytes]
  BY DEF Buffers
<1>1. b \in Bytes
  BY SizeAssumption DEF Bytes
<1>2. QED
  BY <1>1

\* One buffer gets a text.
LEMMA EntryChanges ==
    ASSUME TypeOK, NEW r \in Records, NEW text \in Seq(1 .. 255),
           data' = [data EXCEPT ![r] = SetData(@, text)]
    PROVE  /\ data' \in [Records -> [Offsets -> Bytes]]
           /\ \A p \in Records : \E k \in Offsets : data'[p][k] = 0
           /\ Cached' = [Cached EXCEPT ![r] = Texts!Cut(text)]
           /\ GetData(r)' = Texts!Cut(text)
<1>1. data \in [Records -> [Offsets -> Bytes]] /\ data[r] \in [Offsets -> Bytes]
  BY DEF TypeOK
<1>2. data'[r] = SetData(data[r], text) /\ \A p \in Records \ {r} : data'[p] = data[p]
  BY <1>1, Zenon
<1>3. /\ data'[r] \in [Offsets -> Bytes]
      /\ \E k \in Offsets : data'[r][k] = 0
      /\ CString(data'[r], 0) = Texts!Cut(text)
  BY <1>1, <1>2, SetDataCuts, Zenon
<1>4. data' \in [Records -> [Offsets -> Bytes]]
  <2>1. SetData(data[r], text) \in [Offsets -> Bytes]
    BY <1>2, <1>3, Zenon
  <2>2. QED
    BY <1>1, <2>1
<1>5. ASSUME NEW p \in Records PROVE \E k \in Offsets : data'[p][k] = 0
  <2>1. CASE p = r
    BY <1>3, <2>1, Zenon
  <2>2. CASE p # r
    <3>1. \E k \in Offsets : data[p][k] = 0
      BY DEF TypeOK
    <3>2. QED
      BY <1>2, <2>2, <3>1, Zenon
  <2>3. QED
    BY <2>1, <2>2
<1>6. GetData(r)' = Texts!Cut(text)
  BY <1>3, Zenon DEF GetData
<1>7. Cached' = [Cached EXCEPT ![r] = Texts!Cut(text)]
  <2>1. \A p \in Records : Cached'[p] = CString(data'[p], 0) /\ Cached[p] = CString(data[p], 0)
    BY Zenon DEF Cached, GetData
  <2>2. Cached = [p \in Records |-> Cached[p]] /\ Cached' = [p \in Records |-> Cached'[p]]
    BY Zenon DEF Cached
  <2>3. \A p \in Records : Cached'[p] = IF p = r THEN Texts!Cut(text) ELSE Cached[p]
    BY <1>2, <1>3, <2>1, Zenon
  <2> HIDE DEF Cached
  <2>4. QED
    BY <2>2, <2>3
<1>8. QED
  BY <1>4, <1>5, <1>6, <1>7

\* What is stored depends on the bytes in the sector only.
LEMMA SectorKeepsTexts ==
    ASSUME UNCHANGED sector
    PROVE  Stored' = Stored
  BY DEF Stored, StoredText, ReadText, StartIndex

LEMMA DataKeepsTexts ==
    ASSUME UNCHANGED data
    PROVE  Cached' = Cached
  BY DEF Cached, GetData

LEMMA ReadAllStep ==
    ASSUME TypeOK, NEW buffer \in Buffers, ReadAllEntries(buffer)
    PROVE  TypeOK' /\ Texts!ReadAll
<1>1. \A r \in Records : ReadText(r) \in Seq(1 .. 255) /\ StoredText(r) = Texts!Cut(ReadText(r))
  BY RecordText DEF TypeOK
<1>2. data' = [r \in Records |-> SetData(buffer, ReadText(r))] /\ UNCHANGED sector
  BY DEF ReadAllEntries
<1>3. ASSUME NEW r \in Records
      PROVE  /\ data'[r] \in [Offsets -> Bytes]
             /\ \E k \in Offsets : data'[r][k] = 0
             /\ CString(data'[r], 0) = StoredText(r)
  <2>1. data'[r] = SetData(buffer, ReadText(r))
    BY <1>2, Zenon
  <2>2. buffer \in [Offsets -> Bytes]
    BY BufferTypes
  <2> DEFINE new == SetData(buffer, ReadText(r))
  <2>3. /\ new \in [Offsets -> Bytes]
        /\ \E k \in Offsets : new[k] = 0
        /\ CString(new, 0) = Texts!Cut(ReadText(r))
    BY <1>1, <2>2, SetDataCuts
  <2> HIDE DEF new
  <2>4. data'[r] = new
    BY <2>1 DEF new
  <2>5. QED
    BY <1>1, <2>3, <2>4
<1>4. data' \in [Records -> [Offsets -> Bytes]]
  BY <1>2, <1>3, Zenon
<1>5. TypeOK'
  BY <1>2, <1>3, <1>4 DEF TypeOK
<1>6. Stored' = Stored
  BY <1>2, SectorKeepsTexts
<1>7. Cached' = Stored
  BY <1>3, Zenon DEF Cached, Stored, GetData
<1>8. QED
  BY <1>5, <1>6, <1>7 DEF Texts!ReadAll

LEMMA ReadStep ==
    ASSUME TypeOK, NEW r \in Records, GetEntry(r)
    PROVE  TypeOK' /\ Texts!Read(r)
<1>1. ReadText(r) \in Seq(1 .. 255) /\ StoredText(r) = Texts!Cut(ReadText(r))
  BY RecordText DEF TypeOK
<1>2. data' = [data EXCEPT ![r] = SetData(@, ReadText(r))] /\ UNCHANGED sector
  BY DEF GetEntry
<1>3. /\ data' \in [Records -> [Offsets -> Bytes]]
      /\ \A p \in Records : \E k \in Offsets : data'[p][k] = 0
      /\ Cached' = [Cached EXCEPT ![r] = Texts!Cut(ReadText(r))]
  BY <1>1, <1>2, EntryChanges, Zenon
<1>4. TypeOK'
  BY <1>2, <1>3 DEF TypeOK
<1>5. Stored' = Stored /\ Stored[r] = StoredText(r)
  BY <1>2, SectorKeepsTexts DEF Stored
<1>6. QED
  BY <1>1, <1>3, <1>4, <1>5 DEF Texts!Read

LEMMA ChangeStep ==
    ASSUME TypeOK, NEW r \in Records, NEW text \in InputTexts, SetEntry(r, text)
    PROVE  TypeOK' /\ Texts!Change(r, text)
<1>1. text \in Seq(1 .. 255)
  BY TextAssumption
<1>2. data' = [data EXCEPT ![r] = SetData(@, text)] /\ UNCHANGED sector
  BY DEF SetEntry
<1>3. /\ data' \in [Records -> [Offsets -> Bytes]]
      /\ \A p \in Records : \E k \in Offsets : data'[p][k] = 0
      /\ Cached' = [Cached EXCEPT ![r] = Texts!Cut(text)]
  BY <1>1, <1>2, EntryChanges, Zenon
<1>4. TypeOK'
  BY <1>2, <1>3 DEF TypeOK
<1>5. Stored' = Stored
  BY <1>2, SectorKeepsTexts
<1>6. QED
  BY <1>3, <1>4, <1>5 DEF Texts!Change

-----------------------------------------------------------------------------
\* Writing to the EEPROM

\* A text that fits its record is stored whole.
LEMMA FittingText ==
    ASSUME NEW text \in Seq(1 .. 255)
    PROVE  /\ Texts!Cut(text) \in Seq(1 .. 255)
           /\ Len(Texts!Cut(text)) < RecordSize
           /\ Texts!Cut(Texts!Cut(text)) = Texts!Cut(text)
           /\ Texts!Cut(text) = <<>> <=> text = <<>>
<1>1. /\ Texts!Cut(text) \in Seq(1 .. 255)
      /\ Len(Texts!Cut(text)) = CutLength(text)
      /\ CutLength(text) \in Offsets
  BY CutIsPrefix, Zenon
<1>2. RecordSize \in Nat
  BY SizeAssumption
<1>3. Len(Texts!Cut(text)) < RecordSize /\ Len(Texts!Cut(text)) <= RecordSize - 1
  BY <1>1, <1>2 DEF Offsets
<1>4. Texts!Cut(Texts!Cut(text)) = Texts!Cut(text)
  BY <1>1, <1>3, CutIsPrefix, Zenon
<1>5. QED
  BY <1>1, <1>3, <1>4, EmptyText, Zenon

\* When only the byte at 1 of a record is cleared, its first character is left.
LEMMA ClearedSecondByte ==
    ASSUME sector \in [Addresses -> Bytes], sector' \in [Addresses -> Bytes],
           0 \in Records, sector'[1] = 0,
           \A k \in Offsets : k # 1 => sector'[k] = sector[k]
    PROVE  StoredText(0)' = SubSeq(StoredText(0), 1, Texts!Shorter(Len(StoredText(0)), 1))
<1>1. StartIndex(0) = 0 /\ 0 \in Offsets /\ 1 \in Offsets /\ RecordSize - 1 \in Nat \ {0}
  BY SizeAssumption DEF StartIndex, Offsets
<1>2. sector'[0] = sector[0]
  BY <1>1
<1>3. /\ ReadText(0) \in Seq(1 .. 255) /\ StoredText(0) = Texts!Cut(ReadText(0))
      /\ ReadText(0)' \in Seq(1 .. 255) /\ StoredText(0)' = Texts!Cut(ReadText(0)')
  <2>1. \A k \in Offsets : sector[0 + k] \in Bytes /\ sector'[0 + k] \in Bytes
    BY <1>1, RecordFits
  <2>2. ReadText(0)' \in Seq(1 .. 255)
    BY <1>1, <2>1, CStringType DEF ReadText, StartIndex
  <2>3. StoredText(0)' = Texts!Cut(ReadText(0)')
    BY <2>2, CutIsPrefix DEF StoredText
  <2>4. QED
    BY <2>2, <2>3, RecordText
<1>4. CASE sector[0] = 0
  <2>1. ReadText(0) = <<>> /\ ReadText(0)' = <<>>
    BY <1>1, <1>2, <1>4, ZeroIsEmpty DEF ReadText, StartIndex
  <2>2. StoredText(0) = <<>> /\ StoredText(0)' = <<>>
    BY <1>3, <2>1, EmptyText
  <2>3. Texts!Shorter(Len(StoredText(0)), 1) = 0
    BY <2>2, EmptyText DEF Texts!Shorter
  <2>4. SubSeq(StoredText(0), 1, 0) = <<>>
    BY SubSeqEmpty
  <2>5. QED
    BY <2>2, <2>3, <2>4
<1>5. CASE sector[0] # 0
  <2>1. /\ 1 \in 0 .. RecordSize /\ sector'[0 + 1] = 0
        /\ \A n \in 0 .. 1 - 1 : sector'[0 + n] # 0
    <3>1. 1 \in 0 .. RecordSize /\ 0 + 1 = 1
      BY SizeAssumption
    <3>2. ASSUME NEW n \in 0 .. 1 - 1 PROVE sector'[0 + n] # 0
      <4>1. 0 + n = 0
        OBVIOUS
      <4>2. QED
        BY <1>2, <1>5, <4>1
    <3>3. QED
      BY <3>1, <3>2
  <2>2. EndOf(sector', 0) = 1
    BY <2>1, EndIsUnique
  <2>3. ReadText(0)' = [k \in 1 .. 1 |-> sector'[0 + k - 1]]
    <3>1. CString(sector', 0) = [k \in 1 .. EndOf(sector', 0) |-> sector'[0 + k - 1]]
      BY EndIsFirstZero
    <3>2. ReadText(0)' = CString(sector', 0)
      BY <1>1 DEF ReadText, StartIndex
    <3>3. QED
      BY <2>2, <3>1, <3>2
  <2>4. ReadText(0)' = <<sector[0]>> /\ Len(ReadText(0)') = 1
    BY <1>2, <2>3
  <2>5. StoredText(0)' = <<sector[0]>>
    <3>1. Len(ReadText(0)') <= RecordSize - 1
      <4>1. 1 <= RecordSize - 1
        BY SizeAssumption
      <4>2. QED
        BY <2>4, <4>1, Zenon
    <3>2. Texts!Cut(ReadText(0)') = ReadText(0)'
      BY <1>3, <3>1, CutIsPrefix, Zenon
    <3>3. QED
      BY <1>3, <2>4, <3>2
  <2> DEFINE m == EndOf(sector, 0)
  <2>6. /\ m \in 0 .. RecordSize /\ (m = RecordSize \/ sector[0 + m] = 0)
        /\ ReadText(0) = [k \in 1 .. m |-> sector[0 + k - 1]]
    BY <1>1, EndIsFirstZero DEF ReadText
  <2>7. m # 0 /\ m \in Nat
    BY <1>1, <1>5, <2>6
  <2> HIDE DEF m
  <2>8. Len(ReadText(0)) = m /\ ReadText(0)[1] = sector[0]
    BY <2>6, <2>7
  <2>9. CutLength(ReadText(0)) \in Nat \ {0}
    BY <1>1, <2>7, <2>8 DEF CutLength
  <2>10. /\ StoredText(0) \in Seq(1 .. 255)
         /\ Len(StoredText(0)) = CutLength(ReadText(0))
         /\ StoredText(0)[1] = sector[0]
    <3>1. /\ StoredText(0) \in Seq(1 .. 255)
          /\ Len(StoredText(0)) = CutLength(ReadText(0))
          /\ \A k \in 1 .. CutLength(ReadText(0)) : StoredText(0)[k] = ReadText(0)[k]
      <4>1. ReadText(0) \in Seq(1 .. 255) /\ StoredText(0) = Texts!Cut(ReadText(0))
        BY <1>3
      <4>2. /\ Texts!Cut(ReadText(0)) \in Seq(1 .. 255)
            /\ Len(Texts!Cut(ReadText(0))) = CutLength(ReadText(0))
            /\ \A k \in 1 .. CutLength(ReadText(0)) : Texts!Cut(ReadText(0))[k] = ReadText(0)[k]
        BY <4>1, CutIsPrefix
      <4>3. QED
        BY <4>1, <4>2
    <3>2. 1 \in 1 .. CutLength(ReadText(0))
      BY <2>9
    <3>3. QED
      BY <2>8, <3>1, <3>2
  <2>11. Texts!Shorter(Len(StoredText(0)), 1) = 1
    BY <2>9, <2>10 DEF Texts!Shorter
  <2>12. SubSeq(StoredText(0), 1, 1) = <<sector[0]>>
    <3> DEFINE s == SubSeq(StoredText(0), 1, 1)
    <3>1. \A i \in 1 .. 1 : StoredText(0)[i] \in 1 .. 255
      <4>1. 1 \in 1 .. Len(StoredText(0))
        BY <2>9, <2>10
      <4>2. StoredText(0)[1] \in 1 .. 255
        BY <2>10, <4>1, ElementOfSeq
      <4>3. QED
        BY <4>2
    <3>2. s \in Seq(1 .. 255) /\ Len(s) = 1 /\ s[1] = StoredText(0)[1]
      <4>1. /\ s \in Seq(1 .. 255)
            /\ Len(s) = IF 1 <= 1 THEN 1 - 1 + 1 ELSE 0
            /\ \A i \in 1 .. 1 - 1 + 1 : s[i] = StoredText(0)[1 + i - 1]
        BY <3>1, SubSeqProperties
      <4> HIDE DEF s
      <4>2. QED
        BY <4>1
    <3> HIDE DEF s
    <3>3. s = <<s[1]>>
      BY <3>2
    <3>4. QED
      BY <2>10, <3>2, <3>3 DEF s
  <2>13. QED
    BY <2>5, <2>11, <2>12
<1>6. QED
  BY <1>4, <1>5

\* What saving the empty text in a record does: its terminator is written at byte 1
\* too, so that of the first record no more than its first character stays.
Spills(r) ==
    /\ Cached' = [Cached EXCEPT ![r] = <<>>]
    /\ Stored' = [[Stored EXCEPT ![0] = SubSeq(@, 1, Texts!Shorter(Len(@), 1))]
                    EXCEPT ![r] = <<>>]

\* Storing one text leaves the others alone, but for the first record when the text
\* is empty.
LEMMA ChangeAndSaveStep ==
    ASSUME TypeOK, NEW r \in Records, NEW text \in SavedTexts, SetEntrySaving(r, text)
    PROVE  /\ TypeOK'
           /\ text # <<>> => Texts!ChangeAndSave(r, text)
           /\ text = <<>> => Spills(r)
<1> DEFINE cut == Texts!Cut(text)
<1>1. /\ text \in Seq(1 .. 255)
      /\ cut \in Seq(1 .. 255) /\ Len(cut) < RecordSize
      /\ Texts!Cut(cut) = cut /\ (cut = <<>> <=> text = <<>>)
  BY TextAssumption, FittingText
<1>2. data' = [data EXCEPT ![r] = SetData(@, text)]
  BY DEF SetEntrySaving
<1>3. /\ data' \in [Records -> [Offsets -> Bytes]]
      /\ \A p \in Records : \E k \in Offsets : data'[p][k] = 0
      /\ Cached' = [Cached EXCEPT ![r] = cut]
      /\ GetData(r)' = cut
  BY <1>1, <1>2, EntryChanges, Zenon
<1>4. DoWrite(cut, StartIndex(r))
  <2>1. DoWrite(GetData(r)', StartIndex(r))
    BY DEF SetEntrySaving
  <2>2. QED
    BY <1>3, <2>1, Zenon
<1> HIDE DEF cut
<1>5. /\ sector \in [Addresses -> Bytes] /\ sector' \in [Addresses -> Bytes]
      /\ ReadText(r)' = cut
      /\ \A p \in Records, k \in Offsets :
            p # r /\ (cut = <<>> => StartIndex(p) + k # 1)
              => sector'[StartIndex(p) + k] = sector[StartIndex(p) + k]
      /\ cut = <<>> => sector'[1] = 0
  <2>1. sector \in [Addresses -> Bytes]
    BY DEF TypeOK
  <2>2. QED
    BY <1>1, <1>4, <2>1, WriteText, Zenon
<1>6. TypeOK'
  BY <1>3, <1>5 DEF TypeOK
<1>7. StoredText(r)' = cut
  <2>1. StoredText(r)' = Texts!Cut(ReadText(r)')
    BY <1>1, <1>5, CutIsPrefix DEF StoredText
  <2>2. QED
    BY <1>1, <1>5, <2>1
<1>8. ASSUME NEW p \in Records, p # r, cut # <<>> \/ p # 0
      PROVE  StoredText(p)' = StoredText(p)
  <2>1. StartIndex(p) \in Nat
    BY RecordFits
  <2>2. ASSUME NEW k \in Offsets PROVE StartIndex(p) + k # 1 \/ cut # <<>>
    <3>1. CASE p # 0
      <4>1. p \in Nat \ {0} /\ p * RecordSize \in Int /\ RecordSize \in Nat \ {0, 1} /\ k \in Nat
        BY <1>8, <3>1, SizeAssumption DEF Records, Offsets
      <4>2. 0 * RecordSize + RecordSize <= p * RecordSize
        BY <4>1, Multiples
      <4>3. QED
        BY <4>1, <4>2 DEF StartIndex
    <3>2. QED
      BY <1>8, <3>1
  <2>3. \A k \in Offsets : sector'[StartIndex(p) + k] = sector[StartIndex(p) + k]
    BY <1>5, <1>8, <2>2, Zenon
  <2>4. CString(sector', StartIndex(p)) = CString(sector, StartIndex(p))
    BY <2>1, <2>3, SameBytesSameText
  <2>5. ReadText(p)' = ReadText(p)
    BY <2>4 DEF ReadText, StartIndex
  <2>6. QED
    BY <2>5 DEF StoredText
<1>9. ASSUME 0 \in Records, 0 # r, cut = <<>>
      PROVE  StoredText(0)' = SubSeq(StoredText(0), 1, Texts!Shorter(Len(StoredText(0)), 1))
  <2>1. \A k \in Offsets : StartIndex(0) + k = k
    BY SizeAssumption DEF StartIndex, Offsets
  <2>2. \A k \in Offsets : k # 1 => sector'[k] = sector[k]
    BY <1>5, <1>9, <2>1
  <2>3. QED
    BY <1>5, <1>9, <2>2, ClearedSecondByte
<1>10. 0 \in Records
  BY SizeAssumption DEF Records
<1>11. /\ Cached' = [Cached EXCEPT ![r] = cut]
       /\ Stored' = [(IF text = <<>>
                      THEN [Stored EXCEPT ![0] = SubSeq(@, 1, Texts!Shorter(Len(@), 1))]
                      ELSE Stored) EXCEPT ![r] = cut]
  <2> DEFINE rest == IF text = <<>>
                     THEN [Stored EXCEPT ![0] = SubSeq(@, 1, Texts!Shorter(Len(@), 1))]
                     ELSE Stored
  <2>1. \A p \in Records : Stored[p] = StoredText(p) /\ Stored'[p] = StoredText(p)'
    BY Zenon DEF Stored
  <2>2. Stored = [p \in Records |-> Stored[p]] /\ Stored' = [p \in Records |-> Stored'[p]]
    BY Zenon DEF Stored
  <2> HIDE DEF Stored
  <2>3. Stored'[r] = cut
    BY <1>7, <2>1
  <2>4. ASSUME NEW p \in Records, p # r PROVE Stored'[p] = rest[p]
    <3>1. CASE text # <<>>
      BY <1>1, <1>8, <2>1, <2>4, <3>1
    <3>2. CASE text = <<>> /\ p # 0
      BY <1>8, <2>1, <2>2, <2>4, <3>2
    <3>3. CASE text = <<>> /\ p = 0
      BY <1>1, <1>9, <1>10, <2>1, <2>2, <2>4, <3>3
    <3>4. QED
      BY <3>1, <3>2, <3>3
  <2>5. DOMAIN rest = Records /\ rest = [p \in Records |-> rest[p]]
    BY <2>2
  <2> HIDE DEF rest
  <2>6. Stored' = [rest EXCEPT ![r] = cut]
    BY <2>2, <2>3, <2>4, <2>5
  <2>7. QED
    BY <1>3, <2>6, Zenon DEF rest
<1>12. text # <<>> => Texts!ChangeAndSave(r, text)
  BY <1>11, Zenon DEF Texts!ChangeAndSave, cut
<1>13. text = <<>> => Spills(r)
  BY <1>1, <1>11, Zenon DEF Spills
<1>14. QED
  BY <1>6, <1>12, <1>13

\* save() makes every record's text the one in memory.
LEMMA SaveStep ==
    ASSUME TypeOK, Save
    PROVE  TypeOK' /\ Texts!SaveAll
<1> DEFINE Flat(k) == data[(k - 1) \div RecordSize][(k - 1) % RecordSize]
           flat == [k \in 1 .. TotalSize |-> Flat(k)]
<1>1. /\ data \in [Records -> [Offsets -> Bytes]] /\ sector \in [Addresses -> Bytes]
      /\ \A r \in Records : \E k \in Offsets : data[r][k] = 0
      /\ RecordSize \in Nat \ {0} /\ RecordCount \in Nat \ {0}
      /\ TotalSize \in Nat \ {0} /\ TotalSize < SectorSize /\ SectorSize \in Nat
  <2>1. 0 \in Records
    BY SizeAssumption DEF Records
  <2>2. 0 * RecordSize + RecordSize <= RecordCount * RecordSize
    BY SizeAssumption, Multiples
  <2>3. QED
    BY <2>1, <2>2, RecordFits, SizeAssumption DEF TypeOK, TotalSize
<1>2. UNCHANGED data /\ DoWrite(flat, 0)
  BY DEF Save
<1>3. DOMAIN flat = 1 .. TotalSize /\ flat # <<>>
  <2>1. DOMAIN flat = 1 .. TotalSize
    BY Zenon
  <2>2. 1 \in DOMAIN flat /\ 1 \notin DOMAIN <<>>
    BY <1>1, <2>1
  <2>3. QED
    BY <2>1, <2>2, Zenon
<1>4. \A k \in 1 .. TotalSize : flat[k] = Flat(k)
  BY Zenon
<1> HIDE DEF flat
<1>5. /\ \A a \in Addresses : a - 0 + 1 \in 1 .. TotalSize => sector'[a] = flat[a - 0 + 1]
      /\ \A a \in Addresses : a - 0 + 1 \notin 1 .. TotalSize => sector'[a] \in {0, sector[a]}
      /\ sector' = [a \in Addresses |-> sector'[a]]
  BY <1>2, <1>3, Zenon DEF DoWrite
<1>6. ASSUME NEW r \in Records, NEW k \in Offsets
      PROVE  sector'[StartIndex(r) + k] = data[r][0 + k]
  <2> DEFINE a == StartIndex(r) + k
  <2>1. a \in Addresses /\ a \in Nat /\ a - 0 + 1 \in 1 .. TotalSize /\ (a - 0 + 1) - 1 = a
    BY <1>1, RecordFits DEF Offsets
  <2>2. a \div RecordSize = r /\ a % RecordSize = k
    <3>1. r \in Nat /\ k \in 0 .. RecordSize - 1
      BY DEF Records, Offsets
    <3>2. QED
      BY <1>1, <3>1, DivModUnique DEF StartIndex
  <2> HIDE DEF a
  <2> DEFINE b == a - 0 + 1
  <2>3. b \in 1 .. TotalSize /\ b - 1 = a /\ sector'[a] = flat[b]
    BY <1>5, <2>1
  <2> HIDE DEF b
  <2>4. flat[b] = data[a \div RecordSize][a % RecordSize]
    BY <1>4, <2>3
  <2>5. 0 + k = k
    BY DEF Offsets
  <2>6. QED
    BY <2>2, <2>3, <2>4, <2>5 DEF a
<1>7. sector' \in [Addresses -> Bytes]
  <2>1. ASSUME NEW a \in Addresses PROVE sector'[a] \in Bytes
    <3>1. CASE a - 0 + 1 \in 1 .. TotalSize
      <4> DEFINE b == a - 0 + 1
      <4>1. /\ a \in Nat /\ a < RecordCount * RecordSize /\ b - 1 = a
        BY <1>1, <3>1 DEF Addresses, TotalSize
      <4>2. b \in 1 .. TotalSize /\ sector'[a] = flat[b]
        BY <1>5, <3>1
      <4>3. /\ a \div RecordSize \in Nat /\ a % RecordSize \in 0 .. RecordSize - 1
            /\ a = (a \div RecordSize) * RecordSize + (a % RecordSize)
        BY <1>1, <4>1, DivMod
      <4> HIDE DEF b
      <4>4. a \div RecordSize < RecordCount
        <5> DEFINE q == a \div RecordSize
                   p == a % RecordSize
        <5>1. q \in Nat /\ p \in 0 .. RecordSize - 1 /\ a = q * RecordSize + p
          BY <4>3
        <5> HIDE DEF q, p
        <5>2. SUFFICES ASSUME RecordCount <= q PROVE FALSE
          BY <1>1, <5>1 DEF q
        <5>3. RecordCount * RecordSize <= q * RecordSize
          <6>1. CASE RecordCount = q
            BY <1>1, <6>1
          <6>2. CASE RecordCount < q
            <7>1. RecordCount * RecordSize + RecordSize <= q * RecordSize
              BY <1>1, <5>1, <6>2, Multiples
            <7>2. RecordCount * RecordSize \in Nat /\ q * RecordSize \in Nat
              BY <1>1, <5>1
            <7>3. QED
              BY <1>1, <7>1, <7>2
          <6>3. QED
            BY <1>1, <5>1, <5>2, <6>1, <6>2
        <5>4. RecordCount * RecordSize \in Nat /\ q * RecordSize \in Nat
          BY <1>1, <5>1
        <5>5. QED
          BY <1>1, <4>1, <5>1, <5>3, <5>4
      <4>5. a \div RecordSize \in Records /\ a % RecordSize \in Offsets
        BY <1>1, <4>3, <4>4 DEF Records, Offsets
      <4>6. flat[b] = data[a \div RecordSize][a % RecordSize]
        BY <1>4, <4>1, <4>2
      <4>7. QED
        BY <1>1, <4>2, <4>5, <4>6
    <3>2. CASE a - 0 + 1 \notin 1 .. TotalSize
      <4>1. 0 \in Bytes /\ sector[a] \in Bytes
        BY <1>1 DEF Bytes
      <4>2. QED
        BY <1>5, <3>2, <4>1
    <3>3. QED
      BY <3>1, <3>2
  <2>2. QED
    BY <1>5, <2>1
<1>8. ASSUME NEW r \in Records PROVE StoredText(r)' = GetData(r)
  <2>1. StartIndex(r) \in Nat /\ 0 \in Nat
    BY RecordFits
  <2>2. CString(sector', StartIndex(r)) = CString(data[r], 0)
    BY <1>6, <2>1, SameBytesSameText
  <2>3. ReadText(r)' = GetData(r)
    BY <2>2 DEF ReadText, StartIndex, GetData
  <2>4. /\ GetData(r) \in Seq(1 .. 255)
        /\ Texts!Cut(GetData(r)) = GetData(r)
    <3>1. data[r] \in [Offsets -> Bytes] /\ \E k \in Offsets : data[r][k] = 0
      BY <1>1
    <3>2. QED
      BY <3>1, EndedTextFits DEF GetData
  <2>5. StoredText(r)' = Texts!Cut(ReadText(r)')
    BY <2>3, <2>4, CutIsPrefix DEF StoredText
  <2>6. QED
    BY <2>3, <2>4, <2>5
<1>9. Stored' = Cached
  BY <1>8, Zenon DEF Stored, Cached
<1>10. Cached' = Cached
  BY <1>2, DataKeepsTexts
<1>11. TypeOK'
  BY <1>1, <1>2, <1>7 DEF TypeOK
<1>12. QED
  BY <1>9, <1>10, <1>11 DEF Texts!SaveAll

\* clear() leaves no text in the sector, nor in memory if it is told to forget.
LEMMA EraseStep ==
    ASSUME TypeOK, NEW clearProgramMemory \in BOOLEAN, Clear(clearProgramMemory)
    PROVE  TypeOK' /\ Texts!EraseAll(clearProgramMemory)
<1>1. /\ data \in [Records -> [Offsets -> Bytes]]
      /\ sector' = [a \in Addresses |-> 0]
      /\ data' = IF clearProgramMemory THEN [r \in Records |-> SetData(data[r], <<>>)] ELSE data
  BY DEF TypeOK, Clear
<1>2. sector' \in [Addresses -> Bytes]
  BY <1>1 DEF Bytes
<1>3. ASSUME NEW r \in Records PROVE StoredText(r)' = <<>>
  <2>1. StartIndex(r) \in Nat /\ StartIndex(r) \in Addresses
    <3>1. 0 \in Offsets /\ StartIndex(r) \in Nat /\ StartIndex(r) + 0 = StartIndex(r)
      BY RecordFits, SizeAssumption DEF Offsets
    <3>2. StartIndex(r) + 0 \in Addresses
      BY <3>1, RecordFits
    <3>3. QED
      BY <3>1, <3>2
  <2>2. CString(sector', StartIndex(r)) = <<>>
    BY <1>1, <2>1, ZeroIsEmpty
  <2>3. ReadText(r)' = <<>>
    BY <2>2 DEF ReadText, StartIndex
  <2>4. StoredText(r)' = Texts!Cut(ReadText(r)')
    BY <2>3, EmptyText, CutIsPrefix DEF StoredText
  <2>5. QED
    BY <2>3, <2>4, EmptyText
<1>4. Stored' = [r \in Records |-> <<>>]
  BY <1>3, Zenon DEF Stored
<1>5. CASE clearProgramMemory
  <2>1. ASSUME NEW r \in Records
        PROVE  /\ data'[r] \in [Offsets -> Bytes]
               /\ \E k \in Offsets : data'[r][k] = 0
               /\ CString(data'[r], 0) = <<>>
    <3>1. data'[r] = SetData(data[r], <<>>) /\ data[r] \in [Offsets -> Bytes]
      BY <1>1, <1>5, Zenon
    <3>2. /\ data'[r] \in [Offsets -> Bytes]
          /\ \E k \in Offsets : data'[r][k] = 0
          /\ CString(data'[r], 0) = Texts!Cut(<<>>)
      <4>1. <<>> \in Seq(1 .. 255)
        BY EmptyText, Zenon
      <4>2. QED
        BY <3>1, <4>1, SetDataCuts, Zenon
    <3>3. QED
      BY <3>2, EmptyText, Zenon
  <2>2. data' \in [Records -> [Offsets -> Bytes]]
    BY <1>1, <1>5, <2>1, Zenon
  <2>3. TypeOK'
    BY <1>2, <2>1, <2>2 DEF TypeOK
  <2>4. Cached' = [r \in Records |-> <<>>]
    BY <2>1, Zenon DEF Cached, GetData
  <2>5. QED
    BY <1>4, <1>5, <2>3, <2>4 DEF Texts!EraseAll, Texts!Records, Records
<1>6. CASE ~clearProgramMemory
  <2>1. UNCHANGED data
    BY <1>1, <1>6
  <2>2. Cached' = Cached
    BY <2>1, DataKeepsTexts
  <2>3. TypeOK'
    BY <1>2, <2>1 DEF TypeOK
  <2>4. QED
    BY <1>4, <1>6, <2>2, <2>3 DEF Texts!EraseAll, Texts!Records, Records
<1>7. QED
  BY <1>5, <1>6

-----------------------------------------------------------------------------
\* A new chip: no zero byte anywhere, so every record reads as full of erased bytes.
LEMMA InitialTexts ==
    ASSUME Init
    PROVE  TypeOK /\ Texts!TextsInit
<1> DEFINE erased == [k \in 1 .. RecordSize - 1 |-> Erased]
<1>1. sector = [a \in Addresses |-> Erased] /\ sector \in [Addresses -> Bytes]
  BY DEF Init, Erased, Bytes
<1>2. PICK buffer \in Buffers : data = [r \in Records |-> SetData(buffer, ReadText(r))]
  BY DEF Init
<1>3. ASSUME NEW r \in Records
      PROVE  ReadText(r) \in Seq(1 .. 255) /\ StoredText(r) = erased
  <2>1. StartIndex(r) \in Nat /\ \A k \in Offsets : StartIndex(r) + k \in Addresses
    BY RecordFits
  <2>2. \A k \in Offsets : sector[StartIndex(r) + k] = 255
    BY <1>1, <2>1 DEF Erased
  <2>3. RecordSize \in 0 .. RecordSize /\ RecordSize \in Nat
        /\ \A n \in 0 .. RecordSize - 1 : sector[StartIndex(r) + n] # 0
    BY <2>2, SizeAssumption DEF Offsets
  <2>4. EndOf(sector, StartIndex(r)) = RecordSize
    BY <2>3, EndIsUnique
  <2>5. ReadText(r) = [k \in 1 .. RecordSize |-> sector[StartIndex(r) + k - 1]]
    BY <2>4, EndIsFirstZero DEF ReadText
  <2>6. /\ ReadText(r) \in Seq(1 .. 255) /\ Len(ReadText(r)) = RecordSize
        /\ StoredText(r) = Texts!Cut(ReadText(r))
    BY <1>1, <2>1, <2>2, <2>4, CStringType, RecordText DEF ReadText
  <2>7. CutLength(ReadText(r)) = RecordSize - 1
    BY <2>3, <2>6 DEF CutLength
  <2>8. StoredText(r) = [k \in 1 .. RecordSize - 1 |-> ReadText(r)[k]]
    <3>1. StoredText(r) = [k \in 1 .. CutLength(ReadText(r)) |-> ReadText(r)[k]]
      BY <2>6, CutIsPrefix, Zenon
    <3>2. QED
      BY <2>7, <3>1, Zenon
  <2>9. ASSUME NEW k \in 1 .. RecordSize - 1 PROVE ReadText(r)[k] = Erased
    <3>1. k \in 1 .. RecordSize /\ k - 1 \in Offsets /\ StartIndex(r) + k - 1 = StartIndex(r) + (k - 1)
      BY <2>1, <2>3 DEF Offsets
    <3>2. ReadText(r)[k] = sector[StartIndex(r) + (k - 1)]
      BY <2>5, <3>1
    <3>3. QED
      BY <2>2, <3>1, <3>2 DEF Erased
  <2>10. QED
    BY <2>6, <2>8, <2>9, Zenon
<1>4. ASSUME NEW r \in Records
      PROVE  /\ data[r] \in [Offsets -> Bytes]
             /\ \E k \in Offsets : data[r][k] = 0
             /\ CString(data[r], 0) = erased
  <2>1. data[r] = SetData(buffer, ReadText(r)) /\ buffer \in [Offsets -> Bytes]
    BY <1>2, BufferTypes, Zenon
  <2> DEFINE new == SetData(buffer, ReadText(r))
  <2>2. /\ new \in [Offsets -> Bytes]
        /\ \E k \in Offsets : new[k] = 0
        /\ CString(new, 0) = Texts!Cut(ReadText(r))
    BY <1>3, <2>1, SetDataCuts
  <2> HIDE DEF new
  <2>3. data[r] = new
    BY <2>1 DEF new
  <2>4. /\ data[r] \in [Offsets -> Bytes]
        /\ \E k \in Offsets : data[r][k] = 0
        /\ CString(data[r], 0) = Texts!Cut(ReadText(r))
    BY <2>2, <2>3
  <2>5. StoredText(r) = Texts!Cut(ReadText(r))
    BY <1>1, RecordText
  <2>6. QED
    BY <1>3, <2>4, <2>5, Zenon
<1> HIDE DEF erased
<1>5. TypeOK
  <2>1. data \in [Records -> [Offsets -> Bytes]]
    BY <1>2, <1>4, Zenon
  <2>2. QED
    BY <1>1, <1>4, <2>1 DEF TypeOK
<1>6. Stored = [r \in Records |-> erased] /\ Cached = Stored
  BY <1>3, <1>4, Zenon DEF Stored, Cached, GetData
<1>7. QED
  BY <1>5, <1>6 DEF Texts!TextsInit, Texts!Records, Records, erased

\* Every step of the bytes is a step of the texts.
LEMMA StepsAreTextSteps ==
    ASSUME TypeOK, [Next]_vars
    PROVE  /\ TypeOK'
           /\ \/ [Texts!TextsNext]_(Texts!textVars)
              \/ <<>> \in SavedTexts /\ \E r \in Records : Spills(r)
<1>1. CASE \E buffer \in Buffers : ReadAllEntries(buffer)
  BY <1>1, ReadAllStep DEF Texts!TextsNext
<1>2. CASE \E r \in Records : GetEntry(r)
  BY <1>2, ReadStep DEF Texts!TextsNext, Texts!Records, Records
<1>3. CASE \E r \in Records, text \in InputTexts : SetEntry(r, text)
  BY <1>3, ChangeStep DEF Texts!TextsNext, Texts!Records, Records
<1>4. CASE \E r \in Records, text \in SavedTexts : SetEntrySaving(r, text)
  <2>1. PICK r \in Records, text \in SavedTexts : SetEntrySaving(r, text)
    BY <1>4
  <2>2. TypeOK' /\ (text # <<>> => Texts!ChangeAndSave(r, text)) /\ (text = <<>> => Spills(r))
    BY <2>1, ChangeAndSaveStep
  <2>3. text \in InputTexts /\ r \in Texts!Records
    BY TextAssumption DEF Texts!Records, Records
  <2>4. CASE text = <<>>
    BY <2>2, <2>4
  <2>5. CASE text # <<>>
    BY <2>2, <2>3, <2>5 DEF Texts!TextsNext
  <2>6. QED
    BY <2>4, <2>5
<1>5. CASE Save
  BY <1>5, SaveStep DEF Texts!TextsNext
<1>6. CASE \E clearProgramMemory \in BOOLEAN : Clear(clearProgramMemory)
  BY <1>6, EraseStep DEF Texts!TextsNext
<1>7. CASE UNCHANGED vars
  <2>1. UNCHANGED sector /\ UNCHANGED data
    BY <1>7 DEF vars
  <2>2. TypeOK'
    BY <2>1 DEF TypeOK
  <2>3. QED
    BY <2>1, <2>2, SectorKeepsTexts, DataKeepsTexts DEF Texts!textVars
<1>8. QED
  BY <1>1, <1>2, <1>3, <1>4, <1>5, <1>6, <1>7 DEF Next

-----------------------------------------------------------------------------
\* Whatever is read, from a chip that was never written included, every buffer in
\* program memory ends its text.
THEOREM TypeCorrect == Spec => []TypeOK
<1>1. Init => TypeOK
  BY InitialTexts
<1>2. TypeOK /\ [Next]_vars => TypeOK'
  BY StepsAreTextSteps
<1>3. QED
  BY <1>1, <1>2, PTL DEF Spec

\* As long as setEntry saves no empty text, the bytes of EEPROMDatabase implement a
\* table of texts that is stored and cached: nothing a record is given reaches
\* another one, and what does not fit is cut.
THEOREM RecordsHoldTexts ==
    ASSUME <<>> \notin SavedTexts
    PROVE  Spec => ImplementsTexts
<1>1. Init => Texts!TextsInit
  BY InitialTexts
<1>2. TypeOK /\ [Next]_vars => [Texts!TextsNext]_(Texts!textVars)
  BY StepsAreTextSteps
<1>3. QED
  BY <1>1, <1>2, TypeCorrect, PTL DEF Spec, ImplementsTexts, Texts!TextsSpec

\* Saved empty texts included, the only step that is not one of the table of texts
\* empties a record and cuts the first one to a character at most; no further
\* record is touched, and what the first one is cut to is still a start of it.
THEOREM DamageIsLimited ==
    Spec => [][Texts!TextsNext \/ \E r \in Records : Spills(r)]_(Texts!textVars)
<1>1. TypeOK /\ [Next]_vars
        => [Texts!TextsNext \/ \E r \in Records : Spills(r)]_(Texts!textVars)
  BY StepsAreTextSteps
<1>2. QED
  BY <1>1, TypeCorrect, PTL DEF Spec

=============================================================================
