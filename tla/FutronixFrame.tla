--------------------------- MODULE FutronixFrame ---------------------------
(***************************************************************************)
(* sendFutronix, the infrared transmission of one command, as it is in     *)
(* IRTransmitter.h and, all but the loop counter, in the RTOS firmware's   *)
(* irsend/futronix.h.  A frame is a sequence of marks of one length; what  *)
(* it says is in the gaps between them, given here as multiples of         *)
(* FUTRONIX_INTERVAL from one mark to the next.                            *)
(***************************************************************************)
EXTENDS Integers, Sequences, FiniteSets

CONSTANTS
    Codes,          \* commands that are sent
    LoopCounter     \* type of the counter of the command loop: "int" in
                    \* IRTransmitter.h, "uint8_t" in irsend/futronix.h

ASSUME CodesAssumption == Codes \subseteq 0 .. 63
ASSUME LoopCounterAssumption == LoopCounter \in {"int", "uint8_t"}

BitCount == 6
Repetitions == 3
Header == <<4, 1>>
Address == <<1, 1, 1, 1>>
Footer == <<4>>

\* The bits of a command, the most significant first as the mask finds them.
CommandBits(code) == [i \in 0 .. BitCount - 1 |-> (code \div 2^(BitCount - 1 - i)) % 2 = 1]

OnesCount(bits) == Cardinality({i \in DOMAIN bits : bits[i]})

BitGap(bit, position) == IF ~bit THEN 1 ELSE IF position % 2 = 0 THEN 3 ELSE 2

ParityGap(bits) == IF OnesCount(bits) % 2 = 0 THEN 2 ELSE 1

\* The counter after n--.
Decremented(n) == IF LoopCounter = "int" THEN n - 1 ELSE (n - 1) % 256

VARIABLES
    command,        \* argument of sendFutronix
    part,           \* part of the frame to be sent next
    n,              \* counter of the command loop
    bitPosition,
    frame,          \* gaps of the frame on the air
    frames          \* frames already sent

vars == <<command, part, n, bitPosition, frame, frames>>

Parts == {"header", "address", "command", "parity", "footer", "done"}

TypeOK ==
    /\ command \in Codes
    /\ part \in Parts
    /\ n \in -1 .. 255
    /\ bitPosition \in 0 .. 5 + BitCount
    /\ frame \in Seq(1 .. 4)
    /\ frames \in Seq(Seq(1 .. 4)) /\ Len(frames) <= Repetitions

Init ==
    /\ command \in Codes
    /\ part = "header"
    /\ n = 5
    /\ bitPosition = 5
    /\ frame = <<>>
    /\ frames = <<>>

SendHeader ==
    /\ part = "header"
    /\ frame' = Header
    /\ part' = "address"
    /\ UNCHANGED <<command, n, bitPosition, frames>>

\* Mutant: the bit position is set up once and not for every repetition.
SendAddressOnly ==
    /\ part = "address"
    /\ frame' = frame \o Address
    /\ part' = "command"
    /\ n' = 5
    /\ UNCHANGED <<command, bitPosition, frames>>

\* Mutant: the bit position starts from the counter of the repetitions.
SendAddressFromRepetition ==
    /\ part = "address"
    /\ frame' = frame \o Address
    /\ part' = "command"
    /\ n' = 5
    /\ bitPosition' = Len(frames)
    /\ UNCHANGED <<command, frames>>

\* The address, and the initialisation of the command loop.
SendAddress ==
    /\ part = "address"
    /\ frame' = frame \o Address
    /\ part' = "command"
    /\ n' = 5
    /\ bitPosition' = 5
    /\ UNCHANGED <<command, frames>>

\* commandBits[n]; an index past the array may find anything.
BitsRead(index) ==
    IF index \in 0 .. BitCount - 1 THEN {CommandBits(command)[index]} ELSE BOOLEAN

\* Mutant: the most significant bit first.
SendBitForward ==
    /\ part = "command"
    /\ n >= 0
    /\ frame' = Append(frame, BitGap(CommandBits(command)[5 - n], bitPosition))
    /\ n' = Decremented(n)
    /\ bitPosition' = bitPosition + 1
    /\ UNCHANGED <<command, part, frames>>

SendBit ==
    /\ part = "command"
    /\ n >= 0
    /\ \E bit \in BitsRead(n) : frame' = Append(frame, BitGap(bit, bitPosition))
    /\ n' = Decremented(n)
    /\ bitPosition' = bitPosition + 1
    /\ UNCHANGED <<command, part, frames>>

EndOfBits ==
    /\ part = "command"
    /\ n < 0
    /\ part' = "parity"
    /\ UNCHANGED <<command, n, bitPosition, frame, frames>>

SendParity ==
    /\ part = "parity"
    /\ frame' = Append(frame, ParityGap(CommandBits(command)))
    /\ part' = "footer"
    /\ UNCHANGED <<command, n, bitPosition, frames>>

SendFooter ==
    /\ part = "footer"
    /\ frames' = Append(frames, frame \o Footer)
    /\ frame' = <<>>
    /\ part' = IF Len(frames) + 1 = Repetitions THEN "done" ELSE "header"
    /\ UNCHANGED <<command, n, bitPosition>>

Next ==
    SendHeader \/ SendAddress \/ SendBit \/ EndOfBits \/ SendParity \/ SendFooter

Spec == Init /\ [][Next]_vars

-----------------------------------------------------------------------------
\* The receiver, as the frame's layout implies it.

CommandStart == Len(Header) + Len(Address)

\* Bit k of the command is one if gap
\* number k of the command part is longer than one interval.
Decoded(f) ==
    CHOOSE code \in 0 .. 63 :
        \A k \in 0 .. BitCount - 1 :
            (code \div 2^k) % 2 = 1 <=> f[CommandStart + 1 + k] > 1

\* The parity counts the ones of the command and itself: a receiver notices one
\* misread gap.
OddParity(f) ==
    Cardinality({k \in CommandStart + 1 .. CommandStart + BitCount + 1 : f[k] > 1}) % 2 = 1

\* A gap of four intervals appears at both ends of a frame and nowhere else: no
\* command can be taken for a frame boundary.
Bounded(f) == \A k \in DOMAIN f : f[k] = 4 <=> k \in {1, Len(f)}

\* A receiver that waits for the long gaps, checks the parity and reads the least
\* significant bit first gets the command out of every frame: the bits are stored
\* one way round and read the other, their lengths depend on their positions.
FramesCarryCommand ==
    \A i \in DOMAIN frames :
        /\ Bounded(frames[i])
        /\ OddParity(frames[i])
        /\ Decoded(frames[i]) = command

\* The repetitions are the same frame, so a receiver may take any of them.
RepetitionsAgree ==
    \A i, j \in DOMAIN frames : frames[i] = frames[j]

\* The comment in irsend/futronix.h: "command 6 bits".
CommandHasSixBits ==
    part = "command" => Len(frame) <= CommandStart + BitCount

=============================================================================
