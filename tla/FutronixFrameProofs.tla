------------------------ MODULE FutronixFrameProofs ------------------------
(***************************************************************************)
(* Theorems about the frames of the ESP8266 firmware, whose loop counter   *)
(* is an int, for any set of codes.  With the uint8_t of the RTOS firmware *)
(* they are false: its command loop does not end.                          *)
(***************************************************************************)
EXTENDS FutronixFrame, FiniteSetTheorems, SequenceTheorems, TLAPS

USE CodesAssumption

FrameLength == 14

\* The frame of a code in closed form: what the loops of sendFutronix put
\* together.
FrameOf(code) ==
    [k \in 1 .. FrameLength |->
        IF k \in {1, FrameLength} THEN 4
        ELSE IF k \in 2 .. CommandStart THEN 1
        ELSE IF k = 13 THEN ParityGap(CommandBits(code))
        ELSE BitGap(CommandBits(code)[12 - k], k - 2)]

\* How much of the frame is on the air.
Sent ==
    CASE part = "address" -> 2
      [] part = "command" -> 11 - n
      [] part = "parity" -> 12
      [] part = "footer" -> 13
      [] OTHER -> 0

\* What was sent is the beginning of the command's frame, the position of a bit
\* follows from the counter, and frames sent before are whole.
FrameInv ==
    /\ command \in Codes
    /\ part \in Parts
    /\ n \in -1 .. 5
    /\ bitPosition \in 5 .. 11
    /\ part = "command" => bitPosition = 10 - n
    /\ frame \in Seq(1 .. 4)
    /\ Len(frame) = Sent
    /\ \A k \in 1 .. Sent : frame[k] = FrameOf(command)[k]
    /\ frames \in Seq(Seq(1 .. 4))
    /\ \A i \in 1 .. Len(frames) : frames[i] = FrameOf(command)
    /\ Len(frames) <= IF part = "done" THEN Repetitions ELSE Repetitions - 1

LEMMA StartOfCommand == CommandStart = 6
BY DEF CommandStart, Header, Address

LEMMA GapTypes ==
    ASSUME NEW code
    PROVE  /\ FrameOf(code) \in Seq(1 .. 4)
           /\ Len(FrameOf(code)) = FrameLength
           /\ DOMAIN FrameOf(code) = 1 .. FrameLength
           /\ \A k \in 1 .. FrameLength : FrameOf(code)[k] \in 1 .. 4
<1>1. \A bit, position : BitGap(bit, position) \in 1 .. 4
  BY DEF BitGap
<1>2. \A bits : ParityGap(bits) \in 1 .. 4
  BY DEF ParityGap
<1>3. FrameOf(code) \in [1 .. FrameLength -> 1 .. 4]
  BY <1>1, <1>2 DEF FrameOf
<1>4. FrameLength \in Nat
  BY DEF FrameLength
<1>. QED BY <1>3, <1>4

LEMMA InitInv == Init => FrameInv
BY DEF Init, FrameInv, Sent, Parts, Repetitions

LEMMA HeaderKeepsInv == FrameInv /\ SendHeader => FrameInv'
<1>. SUFFICES ASSUME FrameInv, SendHeader PROVE FrameInv'
  OBVIOUS
<1>1. frame' = <<4, 1>> /\ Sent' = 2
  BY DEF SendHeader, Header, Sent
<1>2. FrameOf(command)[1] = 4 /\ FrameOf(command)[2] = 1
  BY StartOfCommand DEF FrameOf, FrameLength
<1>. QED BY <1>1, <1>2 DEF FrameInv, SendHeader, Parts

LEMMA AddressKeepsInv == FrameInv /\ SendAddress => FrameInv'
<1>. SUFFICES ASSUME FrameInv, SendAddress PROVE FrameInv'
  OBVIOUS
<1>1. Len(frame) = 2 /\ frame \in Seq(1 .. 4) /\ \A k \in 1 .. 2 : frame[k] = FrameOf(command)[k]
  BY DEF FrameInv, SendAddress, Sent
<1>2. \A k \in 3 .. 6 : FrameOf(command)[k] = 1
  BY StartOfCommand DEF FrameOf, FrameLength
<1>3. /\ frame' = frame \o <<1, 1, 1, 1>> /\ frame' \in Seq(1 .. 4) /\ Len(frame') = 6
  <2>. DEFINE zeroes == <<1, 1, 1, 1>>
  <2>1. frame' = frame \o zeroes
    BY DEF SendAddress, Address
  <2>2. zeroes \in Seq(1 .. 4) /\ Len(zeroes) = 4
    OBVIOUS
  <2>. HIDE DEF zeroes
  <2>3. frame \o zeroes \in Seq(1 .. 4) /\ Len(frame \o zeroes) = Len(frame) + Len(zeroes)
    BY <1>1, <2>2, ConcatProperties
  <2>. QED BY <1>1, <2>1, <2>2, <2>3 DEF zeroes
<1>4. \A k \in 1 .. 6 : frame'[k] = FrameOf(command)[k]
  BY <1>1, <1>2, <1>3
<1>5. Sent' = 6
  BY DEF SendAddress, Sent
<1>. QED BY <1>3, <1>4, <1>5 DEF FrameInv, SendAddress, Parts

\* One more gap on the air is the next one of the frame.
LEMMA NextGap ==
    ASSUME FrameInv, NEW gap, NEW s \in 0 .. 12, Sent = s, Sent' = s + 1,
           gap = FrameOf(command)[s + 1], frame' = Append(frame, gap), command' = command
    PROVE  /\ frame' \in Seq(1 .. 4) /\ Len(frame') = Sent'
           /\ \A k \in 1 .. Sent' : frame'[k] = FrameOf(command')[k]
<1>1. frame \in Seq(1 .. 4) /\ Len(frame) = s /\ \A k \in 1 .. s : frame[k] = FrameOf(command)[k]
  BY DEF FrameInv
<1>2. gap \in 1 .. 4
  <2>1. s + 1 \in 1 .. FrameLength
    BY DEF FrameLength
  <2>. QED BY <2>1, GapTypes
<1>3. /\ frame' \in Seq(1 .. 4) /\ Len(frame') = s + 1 /\ frame'[s + 1] = gap
      /\ \A k \in 1 .. s : frame'[k] = frame[k]
  BY <1>1, <1>2, AppendProperties
<1>4. ASSUME NEW k \in 1 .. s + 1 PROVE frame'[k] = FrameOf(command)[k]
  <2>1. k = s + 1 \/ k \in 1 .. s
    OBVIOUS
  <2>. QED BY <1>1, <1>3, <2>1
<1>. QED BY <1>3, <1>4

LEMMA BitKeepsInv ==
    ASSUME LoopCounter = "int", FrameInv, SendBit
    PROVE  FrameInv'
<1>1. n \in 0 .. 5 /\ n' = n - 1 /\ n' \in -1 .. 4 /\ part = "command" /\ part' = "command"
  BY DEF FrameInv, SendBit, Decremented
<1>2. Sent = 11 - n /\ Sent' = 11 - n' /\ Sent' = Sent + 1 /\ Sent \in 0 .. 12
  BY <1>1 DEF Sent
<1>3. bitPosition = 10 - n /\ bitPosition' = 10 - n' /\ bitPosition' \in 5 .. 11
  BY <1>1 DEF FrameInv, SendBit
<1>. DEFINE gap == BitGap(CommandBits(command)[n], bitPosition)
<1>4. frame' = Append(frame, gap)
  BY <1>1 DEF SendBit, BitsRead, BitCount
<1>5. gap = FrameOf(command)[Sent + 1]
  <2>. DEFINE k == Sent + 1
  <2>1. k \in 7 .. 12 /\ 12 - k = n /\ k - 2 = bitPosition
    BY <1>1, <1>2, <1>3
  <2>2. \A j \in 7 .. 12 : FrameOf(command)[j] = BitGap(CommandBits(command)[12 - j], j - 2)
    BY StartOfCommand DEF FrameOf, FrameLength
  <2>. HIDE DEF k
  <2>3. FrameOf(command)[k] = BitGap(CommandBits(command)[12 - k], k - 2)
    BY <2>1, <2>2, Zenon
  <2>4. FrameOf(command)[k] = gap
    BY <2>1, <2>3
  <2>. QED BY <2>4 DEF k
<1>6. command' = command
  BY DEF SendBit
<1>. HIDE DEF gap
<1>7. /\ frame' \in Seq(1 .. 4) /\ Len(frame') = Sent'
      /\ \A k \in 1 .. Sent' : frame'[k] = FrameOf(command')[k]
  BY <1>2, <1>4, <1>5, <1>6, NextGap
<1>. QED BY <1>1, <1>3, <1>6, <1>7 DEF FrameInv, SendBit

LEMMA EndOfBitsKeepsInv == FrameInv /\ EndOfBits => FrameInv'
<1>. SUFFICES ASSUME FrameInv, EndOfBits PROVE FrameInv'
  OBVIOUS
<1>1. n = -1 /\ Sent = 12 /\ Sent' = 12
  BY DEF FrameInv, EndOfBits, Sent
<1>. QED BY <1>1 DEF FrameInv, EndOfBits, Parts

LEMMA ParityKeepsInv == FrameInv /\ SendParity => FrameInv'
<1>. SUFFICES ASSUME FrameInv, SendParity PROVE FrameInv'
  OBVIOUS
<1>. DEFINE gap == ParityGap(CommandBits(command))
<1>1. Sent = 12 /\ Sent' = Sent + 1 /\ command' = command /\ frame' = Append(frame, gap)
  BY DEF SendParity, Sent
<1>2. gap = FrameOf(command)[Sent + 1]
  BY <1>1, StartOfCommand DEF FrameOf, FrameLength
<1>. HIDE DEF gap
<1>3. /\ frame' \in Seq(1 .. 4) /\ Len(frame') = Sent'
      /\ \A k \in 1 .. Sent' : frame'[k] = FrameOf(command')[k]
  BY <1>1, <1>2, NextGap
<1>. QED BY <1>3 DEF FrameInv, SendParity, Parts

LEMMA FooterKeepsInv == FrameInv /\ SendFooter => FrameInv'
<1>. SUFFICES ASSUME FrameInv, SendFooter PROVE FrameInv'
  OBVIOUS
<1>. DEFINE whole == frame \o Footer
<1>1. frame \in Seq(1 .. 4) /\ Len(frame) = 13 /\ \A k \in 1 .. 13 : frame[k] = FrameOf(command)[k]
  BY DEF FrameInv, SendFooter, Sent
<1>2. whole \in Seq(1 .. 4) /\ Len(whole) = 14 /\ whole[14] = 4 /\ \A k \in 1 .. 13 : whole[k] = frame[k]
  <2>1. Footer \in Seq(1 .. 4) /\ Len(Footer) = 1 /\ Footer[1] = 4
    BY DEF Footer
  <2>2. /\ whole \in Seq(1 .. 4) /\ Len(whole) = Len(frame) + Len(Footer)
        /\ \A i \in 1 .. Len(frame) + Len(Footer) :
               whole[i] = IF i <= Len(frame) THEN frame[i] ELSE Footer[i - Len(frame)]
    BY <1>1, <2>1, ConcatProperties
  <2>. HIDE DEF whole
  <2>. QED BY <1>1, <2>1, <2>2
<1>3. FrameOf(command)[14] = 4
  BY DEF FrameOf, FrameLength
<1>4. \A k \in 1 .. 14 : whole[k] = FrameOf(command)[k]
  <2>. SUFFICES ASSUME NEW k \in 1 .. 14 PROVE whole[k] = FrameOf(command)[k]
    OBVIOUS
  <2>1. k = 14 \/ k \in 1 .. 13
    OBVIOUS
  <2>. HIDE DEF whole
  <2>. QED BY <2>1, <1>1, <1>2, <1>3
<1>5. whole = FrameOf(command)
  <2>1. FrameOf(command) \in Seq(1 .. 4) /\ Len(FrameOf(command)) = 14
    BY GapTypes DEF FrameLength
  <2>. HIDE DEF whole
  <2>. QED BY <1>2, <1>4, <2>1
<1>6. frames' = Append(frames, FrameOf(command)) /\ frame' = <<>> /\ UNCHANGED <<command, n, bitPosition>>
  BY <1>5 DEF SendFooter
<1>7. frames \in Seq(Seq(1 .. 4)) /\ Len(frames) <= 2 /\ \A i \in 1 .. Len(frames) : frames[i] = FrameOf(command)
  BY DEF FrameInv, SendFooter, Repetitions
<1>8. /\ frames' \in Seq(Seq(1 .. 4)) /\ Len(frames') = Len(frames) + 1
      /\ \A i \in 1 .. Len(frames') : frames'[i] = FrameOf(command)
  <2>1. FrameOf(command) \in Seq(1 .. 4)
    BY GapTypes
  <2>2. /\ frames' \in Seq(Seq(1 .. 4)) /\ Len(frames') = Len(frames) + 1
        /\ frames'[Len(frames) + 1] = FrameOf(command)
        /\ \A i \in 1 .. Len(frames) : frames'[i] = frames[i]
    BY <1>6, <1>7, <2>1, AppendProperties
  <2>3. ASSUME NEW i \in 1 .. Len(frames') PROVE frames'[i] = FrameOf(command)
    <3>1. i = Len(frames) + 1 \/ i \in 1 .. Len(frames)
      BY <1>7, <2>2
    <3>. QED BY <1>7, <2>2, <3>1
  <2>. QED BY <2>2, <2>3
<1>9. /\ part' \in {"done", "header"} /\ Sent' = 0
      /\ Len(frames') <= IF part' = "done" THEN Repetitions ELSE Repetitions - 1
  BY <1>7, <1>8 DEF SendFooter, Sent, Repetitions
<1>. QED BY <1>6, <1>8, <1>9 DEF FrameInv, Parts

LEMMA NextKeepsInv ==
    ASSUME LoopCounter = "int", FrameInv, [Next]_vars
    PROVE  FrameInv'
<1>1. CASE UNCHANGED vars
  BY <1>1 DEF vars, FrameInv, Sent
<1>. QED
  BY <1>1, HeaderKeepsInv, AddressKeepsInv, BitKeepsInv, EndOfBitsKeepsInv, ParityKeepsInv,
     FooterKeepsInv DEF Next

THEOREM Invariance == ASSUME LoopCounter = "int" PROVE Spec => []FrameInv
<1>1. FrameInv /\ [Next]_vars => FrameInv'
  BY NextKeepsInv
<1>. QED BY <1>1, InitInv, PTL DEF Spec

-----------------------------------------------------------------------------
\* What a receiver makes of a frame

LEMMA GapsOfFrame ==
    ASSUME NEW code
    PROVE  /\ FrameOf(code)[1] = 4 /\ FrameOf(code)[14] = 4
           /\ \A k \in 2 .. 6 : FrameOf(code)[k] = 1
           /\ \A k \in 7 .. 12 : FrameOf(code)[k] = BitGap(CommandBits(code)[12 - k], k - 2)
           /\ FrameOf(code)[13] = ParityGap(CommandBits(code))
BY StartOfCommand DEF FrameOf, FrameLength

LEMMA BitsOfFrame ==
    ASSUME NEW code, NEW k \in 7 .. 12
    PROVE  FrameOf(code)[k] \in 1 .. 3 /\ (FrameOf(code)[k] > 1 <=> CommandBits(code)[12 - k])
<1>1. FrameOf(code)[k] = BitGap(CommandBits(code)[12 - k], k - 2)
  BY GapsOfFrame, Zenon
<1>. QED BY <1>1 DEF BitGap

\* Six bits tell the codes apart.
LEMMA BitsTellCodes ==
    ASSUME NEW c \in 0 .. 63, NEW d \in 0 .. 63,
           \A k \in 0 .. 5 : (c \div 2^k) % 2 = 1 <=> (d \div 2^k) % 2 = 1
    PROVE  c = d
<1>1. \A k \in 0 .. 5 : (c \div 2^k) % 2 = (d \div 2^k) % 2
  <2>1. \A k \in 0 .. 5 : (c \div 2^k) % 2 \in 0 .. 1 /\ (d \div 2^k) % 2 \in 0 .. 1
    <3>1. 2^0 = 1 /\ 2^1 = 2 /\ 2^2 = 4 /\ 2^3 = 8 /\ 2^4 = 16 /\ 2^5 = 32
      OBVIOUS
    <3>2. \A k \in 0 .. 5 : k = 0 \/ k = 1 \/ k = 2 \/ k = 3 \/ k = 4 \/ k = 5
      OBVIOUS
    <3>. QED BY <3>1, <3>2
  <2>. QED BY <2>1
<1>2. /\ (c \div 1) % 2 = (d \div 1) % 2
      /\ (c \div 2) % 2 = (d \div 2) % 2
      /\ (c \div 4) % 2 = (d \div 4) % 2
      /\ (c \div 8) % 2 = (d \div 8) % 2
      /\ (c \div 16) % 2 = (d \div 16) % 2
      /\ (c \div 32) % 2 = (d \div 32) % 2
  <2>1. 2^0 = 1 /\ 2^1 = 2 /\ 2^2 = 4 /\ 2^3 = 8 /\ 2^4 = 16 /\ 2^5 = 32
    OBVIOUS
  <2>2. 0 \in 0 .. 5 /\ 1 \in 0 .. 5 /\ 2 \in 0 .. 5 /\ 3 \in 0 .. 5 /\ 4 \in 0 .. 5 /\ 5 \in 0 .. 5
    OBVIOUS
  <2>. QED BY <1>1, <2>1, <2>2
<1>. QED BY <1>2

LEMMA FramesDecode ==
    ASSUME NEW code \in 0 .. 63
    PROVE  Decoded(FrameOf(code)) = code
<1>. DEFINE Says(c) == \A k \in 0 .. BitCount - 1 :
                (c \div 2^k) % 2 = 1 <=> FrameOf(code)[CommandStart + 1 + k] > 1
<1>1. \A k \in 0 .. 5 : FrameOf(code)[CommandStart + 1 + k] > 1 <=> (code \div 2^k) % 2 = 1
  <2>. SUFFICES ASSUME NEW k \in 0 .. 5
                PROVE  FrameOf(code)[CommandStart + 1 + k] > 1 <=> (code \div 2^k) % 2 = 1
    OBVIOUS
  <2>1. CommandStart + 1 + k = 7 + k /\ 7 + k \in 7 .. 12 /\ 12 - (7 + k) = 5 - k /\ 5 - k \in 0 .. 5
        /\ 5 - (5 - k) = k
    BY StartOfCommand
  <2>2. FrameOf(code)[7 + k] > 1 <=> CommandBits(code)[5 - k]
    BY <2>1, BitsOfFrame
  <2>3. CommandBits(code)[5 - k] = ((code \div 2^k) % 2 = 1)
    BY <2>1 DEF CommandBits, BitCount
  <2>. QED BY <2>1, <2>2, <2>3
<1>. 0 .. BitCount - 1 = 0 .. 5
  BY DEF BitCount
<1>2. Says(code)
  BY <1>1, Zenon
<1>3. ASSUME NEW c \in 0 .. 63, Says(c) PROVE c = code
  <2>1. \A k \in 0 .. 5 : (c \div 2^k) % 2 = 1 <=> (code \div 2^k) % 2 = 1
    BY <1>1, <1>3, Zenon
  <2>. QED BY <2>1, BitsTellCodes
<1>4. Decoded(FrameOf(code)) = CHOOSE c \in 0 .. 63 : Says(c)
  BY DEF Decoded
<1>. HIDE DEF Says
<1>. QED BY <1>2, <1>3, <1>4, Zenon

LEMMA FramesAreBounded ==
    ASSUME NEW code
    PROVE  Bounded(FrameOf(code))
<1>. SUFFICES ASSUME NEW k \in 1 .. 14 PROVE FrameOf(code)[k] = 4 <=> k \in {1, 14}
  BY GapTypes DEF Bounded, FrameLength
<1>1. FrameOf(code)[13] # 4
  BY GapsOfFrame DEF ParityGap
<1>2. k \in {1, 14} \/ k \in 2 .. 6 \/ k \in 7 .. 12 \/ k = 13
  OBVIOUS
<1>. QED BY <1>1, <1>2, GapsOfFrame, BitsOfFrame

\* The ones of a command are found in its frame, counted from the other end, and
\* the parity gap makes their number odd.
LEMMA FramesHaveOddParity ==
    ASSUME NEW code
    PROVE  OddParity(FrameOf(code))
<1>. DEFINE bits == CommandBits(code)
            f == FrameOf(code)
            Ones == {i \in 0 .. 5 : bits[i]}
            Long == {k \in 7 .. 12 : f[k] > 1}
            Place == [i \in Ones |-> 12 - i]
<1>1. OnesCount(bits) = Cardinality(Ones) /\ IsFiniteSet(Ones) /\ Cardinality(Ones) \in Nat
  <2>1. DOMAIN bits = 0 .. 5
    BY DEF CommandBits, BitCount
  <2>2. IsFiniteSet(0 .. 5)
    <3>1. 0 \in Int /\ 5 \in Int
      OBVIOUS
    <3>. QED BY <3>1, FS_Interval
  <2>3. IsFiniteSet(Ones)
    BY <2>2, FS_Subset
  <2>. QED BY <2>1, <2>3, FS_CardinalityType DEF OnesCount
<1>2. \A k \in 7 .. 12 : f[k] > 1 <=> bits[12 - k]
  BY BitsOfFrame
<1>. HIDE DEF bits, f
<1>3. Place \in Bijection(Ones, Long)
  <2>1. \A i \in Ones : 12 - i \in Long
    <3>. SUFFICES ASSUME NEW i \in 0 .. 5, bits[i] PROVE 12 - i \in Long
      OBVIOUS
    <3>1. 12 - i \in 7 .. 12 /\ 12 - (12 - i) = i
      OBVIOUS
    <3>. QED BY <1>2, <3>1
  <2>2. \A k \in Long : 12 - k \in Ones /\ Place[12 - k] = k
    BY <1>2
  <2>3. Place \in [Ones -> Long]
    BY <2>1
  <2>4. \A i, j \in Ones : Place[i] = Place[j] => i = j
    OBVIOUS
  <2>. QED BY <2>2, <2>3, <2>4 DEF Bijection, Injection, Surjection, IsInjective
<1>4. Cardinality(Long) = OnesCount(bits) /\ IsFiniteSet(Long)
  <2>1. ExistsBijection(Ones, Long)
    BY <1>3 DEF ExistsBijection
  <2>. HIDE DEF Ones, Long
  <2>. QED BY <1>1, <2>1, FS_Bijection
<1>5. f[13] > 1 <=> OnesCount(bits) % 2 = 0
  BY GapsOfFrame DEF f, bits, ParityGap
<1>. DEFINE All == {k \in 7 .. 13 : f[k] > 1}
<1>6. Cardinality(All) % 2 = 1
  <2>1. CASE f[13] > 1
    <3>1. All = Long \cup {13} /\ 13 \notin Long
      BY <2>1
    <3>2. Cardinality(All) = Cardinality(Long) + 1
      BY <1>4, <3>1, FS_AddElement
    <3>. QED BY <1>1, <1>4, <1>5, <2>1, <3>2
  <2>2. CASE ~(f[13] > 1)
    <3>1. All = Long
      BY <2>2
    <3>. QED BY <1>1, <1>4, <1>5, <2>2, <3>1
  <2>. QED BY <2>1, <2>2
<1>. QED BY <1>6, StartOfCommand DEF OddParity, BitCount, f

-----------------------------------------------------------------------------
\* The counters and frames of sendFutronix have their types: with an int its
\* loops end where they should.
THEOREM TypeCorrect == ASSUME LoopCounter = "int" PROVE Spec => []TypeOK
<1>1. FrameInv => TypeOK
  BY DEF FrameInv, TypeOK, BitCount, Repetitions
<1>. QED BY <1>1, Invariance, PTL

\* Every frame on the air decodes to the command it was sent for, has odd parity
\* and long gaps at its ends only.
THEOREM CommandsGetAcross == ASSUME LoopCounter = "int" PROVE Spec => []FramesCarryCommand
<1>1. FrameInv => FramesCarryCommand
  <2>. SUFFICES ASSUME FrameInv, NEW i \in DOMAIN frames
                PROVE  Bounded(frames[i]) /\ OddParity(frames[i]) /\ Decoded(frames[i]) = command
    BY DEF FramesCarryCommand
  <2>1. frames[i] = FrameOf(command) /\ command \in 0 .. 63
    BY DEF FrameInv
  <2>2. Bounded(FrameOf(command)) /\ OddParity(FrameOf(command)) /\ Decoded(FrameOf(command)) = command
    BY <2>1, FramesDecode, FramesAreBounded, FramesHaveOddParity
  <2>. QED BY <2>1, <2>2
<1>. QED BY <1>1, Invariance, PTL

\* The three repetitions of a command are alike.
THEOREM RepetitionsAreAlike == ASSUME LoopCounter = "int" PROVE Spec => []RepetitionsAgree
<1>1. FrameInv => RepetitionsAgree
  BY DEF FrameInv, RepetitionsAgree
<1>. QED BY <1>1, Invariance, PTL

=============================================================================
