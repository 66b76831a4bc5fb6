----------------------- MODULE FauxmoDiscoveryProofs -----------------------
(***************************************************************************)
(* How often devices are announced, for any number of devices, rounds and  *)
(* controllers.                                                            *)
(***************************************************************************)
EXTENDS FauxmoDiscovery, WellFoundedInduction, TLAPS

-----------------------------------------------------------------------------
\* Arithmetic of turns.

\* Every nonempty set of natural numbers has a least element.
LEMMA LeastTurn ==
    ASSUME NEW S \in SUBSET Nat, S # {}
    PROVE  \E m \in S : \A k \in S : ~(k < m)
<1>1. PICK m \in S : \A k \in S : <<k, m>> \notin OpToRel(<, Nat)
  BY WFMin, NatLessThanWellFounded, Zenon
<1>2. \A k \in S : k \in Nat /\ ~(k < m)
  BY <1>1, Zenon DEF OpToRel
<1>3. QED
  BY <1>2

\* Multiples of a positive number are that number apart.
LEMMA Multiples ==
    ASSUME NEW N \in Nat \ {0}, NEW a \in Int, NEW b \in Int, a < b
    PROVE  a * N + N <= b * N
  OBVIOUS

\* Quotient and remainder make up the number.
LEMMA DivMod ==
    ASSUME NEW N \in Nat \ {0}, NEW t \in Nat
    PROVE  /\ t \div N \in Nat
           /\ t % N \in 0 .. N - 1
           /\ t = (t \div N) * N + (t % N)
  OBVIOUS

\* Only one quotient and remainder do.
LEMMA DivModUnique ==
    ASSUME NEW N \in Nat \ {0}, NEW q \in Nat, NEW r \in 0 .. N - 1
    PROVE  /\ (q * N + r) \div N = q
           /\ (q * N + r) % N = r
  OBVIOUS

\* A round of turns begins at a multiple of the number of devices.
LEMMA TurnsOfRounds ==
    ASSUME NEW r \in 0 .. Tries, NEW c \in Devices, r = 0 => c = 0
    PROVE  /\ TurnOf(r, c) \in 0 .. LastTurn
           /\ TurnOf(r, c) \div DeviceCount = Tries - r
           /\ TurnOf(r, c) % DeviceCount = c
           /\ r > 0 => TurnOf(r, c) < LastTurn
<1>1. DeviceCount \in Nat \ {0} /\ Tries \in Nat /\ Tries - r \in Nat
  BY DeviceAssumption
<1>2. c \in 0 .. DeviceCount - 1
  BY DEF Devices
<1>3. TurnOf(r, c) \div DeviceCount = Tries - r /\ TurnOf(r, c) % DeviceCount = c
  BY <1>1, <1>2, DivModUnique DEF TurnOf
<1>4. (Tries - r) * DeviceCount \in Nat /\ Tries * DeviceCount \in Nat
  BY <1>1
<1>5. CASE r = 0
  BY <1>1, <1>3, <1>4, <1>5 DEF TurnOf, LastTurn
<1>6. CASE r > 0
  <2>1. (Tries - r) * DeviceCount + DeviceCount <= Tries * DeviceCount
    BY <1>1, <1>6, Multiples
  <2>2. TurnOf(r, c) = (Tries - r) * DeviceCount + c /\ LastTurn = Tries * DeviceCount
    BY DEF TurnOf, LastTurn
  <2>3. TurnOf(r, c) \in 0 .. LastTurn /\ TurnOf(r, c) < LastTurn
    BY <1>1, <1>2, <1>4, <2>1, <2>2
  <2>4. QED
    BY <1>3, <2>3, Zenon
<1>7. QED
  BY <1>5, <1>6

\* TakeUpAt leaves a round and a device that say which turn is next.
LEMMA TurnsAreTakenUp ==
    ASSUME NEW t \in 0 .. LastTurn
    PROVE  /\ Tries - t \div DeviceCount \in 0 .. Tries
           /\ t % DeviceCount \in Devices
           /\ t = (t \div DeviceCount) * DeviceCount + (t % DeviceCount)
           /\ Tries - t \div DeviceCount = 0 => t = LastTurn /\ t % DeviceCount = 0
           /\ t = LastTurn => Tries - t \div DeviceCount = 0
<1> DEFINE q == t \div DeviceCount
           m == t % DeviceCount
<1>1. DeviceCount \in Nat \ {0} /\ Tries \in Nat /\ LastTurn = Tries * DeviceCount /\ LastTurn \in Nat
  BY DeviceAssumption DEF LastTurn
<1>2. q \in Nat /\ m \in 0 .. DeviceCount - 1 /\ t = q * DeviceCount + m
  <2>1. t \in Nat
    BY <1>1
  <2>2. QED
    BY <1>1, <2>1, DivMod, Zenon
<1>3. ~(Tries < q)
  <2>1. SUFFICES ASSUME Tries < q PROVE FALSE
    OBVIOUS
  <2>2. Tries * DeviceCount + DeviceCount <= q * DeviceCount
    BY <1>1, <1>2, <2>1, Multiples
  <2>3. q * DeviceCount \in Nat
    BY <1>1, <1>2
  <2>4. QED
    BY <1>1, <1>2, <2>2, <2>3
<1>4. q = Tries => t = LastTurn /\ m = 0
  BY <1>1, <1>2
<1>5. t = LastTurn => q = Tries
  <2>1. 0 \in 0 .. DeviceCount - 1 /\ Tries * DeviceCount + 0 = Tries * DeviceCount
    BY <1>1
  <2>2. QED
    BY <1>1, <2>1, DivModUnique
<1>6. QED
  BY <1>1, <1>2, <1>3, <1>4, <1>5 DEF Devices

\* The loop of nextUDPResponse ends, at the first turn of a device not fetched or
\* after the last turn.
LEMMA NextTurnExists ==
    ASSUME NEW hits \in [Devices -> BOOLEAN], NEW turn \in 0 .. LastTurn
    PROVE  /\ NextTurn(hits, turn) \in turn .. LastTurn
           /\ NextTurn(hits, turn) = LastTurn \/ ~hits[DeviceAt(NextTurn(hits, turn))]
           /\ \A v \in turn .. NextTurn(hits, turn) - 1 : hits[DeviceAt(v)]
<1> DEFINE S == {u \in turn .. LastTurn : u = LastTurn \/ ~hits[DeviceAt(u)]}
<1>1. LastTurn \in Nat
  BY DeviceAssumption DEF LastTurn
<1>2. S \in SUBSET Nat /\ LastTurn \in S
  BY <1>1
<1>3. PICK m \in S : \A k \in S : ~(k < m)
  BY <1>2, LeastTurn
<1>4. ASSUME NEW v \in turn .. m - 1 PROVE hits[DeviceAt(v)]
  <2>1. v \in turn .. LastTurn /\ v < m
    BY <1>1, <1>3, <1>4
  <2>2. v \notin S
    BY <1>3, <2>1
  <2>3. QED
    BY <2>1, <2>2, Zenon
<1>5. /\ m \in turn .. LastTurn
      /\ m = LastTurn \/ ~hits[DeviceAt(m)]
      /\ \A v \in turn .. m - 1 : hits[DeviceAt(v)]
  BY <1>3, <1>4
<1>6. QED
  BY <1>5, Zenon DEF NextTurn

-----------------------------------------------------------------------------
\* Turns a device has had when the turn of "cur" is next.
Passed(rounds, cur, d) == (Tries - rounds) + IF d < cur THEN 1 ELSE 0

\* The turn missed by a device that comes before the one the rounds began with.
Missed(start, d) == IF d < start THEN 1 ELSE 0

\* Going through turns of other devices costs a device none, and none is ever
\* taken back.
LEMMA SkippingPassesNone ==
    ASSUME NEW r \in 0 .. Tries, NEW c \in Devices, r = 0 => c = 0,
           NEW u \in TurnOf(r, c) .. LastTurn, NEW d \in Devices
    PROVE  /\ Passed(r, c, d) <= Passed(Tries - u \div DeviceCount, u % DeviceCount, d)
           /\ (\A v \in TurnOf(r, c) .. u - 1 : DeviceAt(v) # d)
                => Passed(Tries - u \div DeviceCount, u % DeviceCount, d) = Passed(r, c, d)
<1> DEFINE q == u \div DeviceCount
           m == u % DeviceCount
           p == Tries - r
           N == DeviceCount
<1>1. N \in Nat \ {0} /\ Tries \in Nat /\ p \in Nat /\ LastTurn \in Nat
  BY DeviceAssumption DEF LastTurn
<1>2. c \in 0 .. N - 1 /\ d \in 0 .. N - 1 /\ TurnOf(r, c) = p * N + c
  BY DEF Devices, TurnOf
<1>3. TurnOf(r, c) \in 0 .. LastTurn
  BY TurnsOfRounds
<1>4. q \in Nat /\ m \in 0 .. N - 1 /\ u = q * N + m /\ u \in Nat
  <2>1. u \in Nat
    BY <1>1, <1>3
  <2>2. QED
    BY <1>1, <2>1, DivMod, Zenon
<1>5. p * N \in Nat /\ q * N \in Nat
  BY <1>1, <1>4
<1>6. ~(q < p)
  <2>1. SUFFICES ASSUME q < p PROVE FALSE
    OBVIOUS
  <2>2. q * N + N <= p * N
    BY <1>1, <1>4, <2>1, Multiples
  <2>3. QED
    BY <1>1, <1>2, <1>4, <1>5, <2>2
<1>7. q = p => c <= m
  BY <1>1, <1>2, <1>4, <1>5
<1>8. Passed(r, c, d) = p + (IF d < c THEN 1 ELSE 0)
      /\ Passed(Tries - q, m, d) = q + (IF d < m THEN 1 ELSE 0)
  BY <1>1, <1>4 DEF Passed
<1>9. Passed(r, c, d) <= Passed(Tries - q, m, d)
  BY <1>1, <1>2, <1>4, <1>6, <1>7, <1>8
<1>10. ASSUME \A v \in TurnOf(r, c) .. u - 1 : DeviceAt(v) # d
       PROVE  Passed(Tries - q, m, d) = Passed(r, c, d)
  <2>1. \A k \in Nat : k * N \in Nat /\ (k * N + d) % N = d
    <3>1. \A k \in Nat : k * N \in Nat
      BY <1>1
    <3>2. QED
      BY <1>1, <1>2, <3>1, DivModUnique, Zenon
  <2>2. \A k \in Nat : ~(TurnOf(r, c) <= k * N + d /\ k * N + d < u)
    <3>1. SUFFICES ASSUME NEW k \in Nat, TurnOf(r, c) <= k * N + d, k * N + d < u
                   PROVE  FALSE
      OBVIOUS
    <3>2. k * N + d \in TurnOf(r, c) .. u - 1
      BY <1>1, <1>2, <1>3, <1>4, <2>1, <3>1
    <3>3. (k * N + d) % N = d
      BY <2>1, Zenon
    <3>4. QED
      BY <1>10, <3>2, <3>3, Zenon DEF DeviceAt
  <2>3. ~(p * N + c <= p * N + d /\ p * N + d < q * N + m)
    BY <1>1, <1>2, <1>4, <2>2
  <2>4. CASE q = p
    BY <1>1, <1>2, <1>4, <1>5, <1>7, <1>8, <2>3, <2>4
  <2>5. CASE q = p + 1
    <3>1. q * N = p * N + N
      BY <1>1, <2>5
    <3>2. d < c
      BY <1>1, <1>2, <1>4, <1>5, <2>3, <3>1
    <3>3. ~(p * N + c <= q * N + d /\ q * N + d < q * N + m)
      BY <1>1, <1>2, <1>4, <2>2
    <3>4. ~(d < m)
      BY <1>1, <1>2, <1>4, <1>5, <3>1, <3>3
    <3>5. QED
      BY <1>1, <1>2, <1>4, <1>8, <2>5, <3>2, <3>4
  <2>6. CASE p + 1 < q
    <3>1. (p + 1) * N + N <= q * N
      BY <1>1, <1>4, <2>6, Multiples
    <3>2. (p + 1) * N = p * N + N
      BY <1>1
    <3>3. p + 1 \in Nat
      BY <1>1
    <3>4. ~(p * N + c <= (p + 1) * N + d /\ (p + 1) * N + d < q * N + m)
      BY <1>2, <1>4, <2>2, <3>3
    <3>5. QED
      BY <1>1, <1>2, <1>4, <1>5, <3>1, <3>2, <3>4
  <2>7. QED
    BY <1>1, <1>4, <1>6, <2>4, <2>5, <2>6
<1>11. QED
  BY <1>9, <1>10

\* A turn is passed by the device it belongs to and by no other.
LEMMA TurnPassesOne ==
    ASSUME NEW u \in 0 .. LastTurn, u < LastTurn, NEW d \in Devices
    PROVE  /\ u + 1 \in 0 .. LastTurn
           /\ Passed(Tries - (u + 1) \div DeviceCount, (u + 1) % DeviceCount, d)
                = Passed(Tries - u \div DeviceCount, u % DeviceCount, d)
                    + IF d = DeviceAt(u) THEN 1 ELSE 0
<1> DEFINE q == u \div DeviceCount
           m == u % DeviceCount
           N == DeviceCount
<1>1. N \in Nat \ {0} /\ Tries \in Nat /\ LastTurn \in Nat
  BY DeviceAssumption DEF LastTurn
<1>2. q \in Nat /\ m \in 0 .. N - 1 /\ u = q * N + m /\ d \in 0 .. N - 1
  <2>1. u \in Nat /\ d \in 0 .. N - 1
    BY <1>1 DEF Devices
  <2>2. QED
    BY <1>1, <2>1, DivMod, Zenon
<1>3. u + 1 \in 0 .. LastTurn
  BY <1>1
<1>4. CASE m + 1 < N
  <2>1. q * N \in Nat
    BY <1>1, <1>2
  <2>2. u + 1 = q * N + (m + 1) /\ m + 1 \in 0 .. N - 1
    BY <1>1, <1>2, <1>4, <2>1
  <2>3. (u + 1) \div N = q /\ (u + 1) % N = m + 1
    <3>1. (q * N + (m + 1)) \div N = q /\ (q * N + (m + 1)) % N = m + 1
      BY <1>1, <1>2, <2>2, DivModUnique, Zenon
    <3>2. QED
      BY <2>2, <3>1, Zenon
  <2>4. QED
    BY <1>1, <1>2, <1>3, <2>3 DEF Passed, DeviceAt
<1>5. CASE m + 1 = N
  <2>1. q * N \in Nat /\ (q + 1) * N = q * N + N
    BY <1>1, <1>2
  <2>2. u + 1 = (q + 1) * N + 0 /\ 0 \in 0 .. N - 1 /\ q + 1 \in Nat
    BY <1>1, <1>2, <1>5, <2>1
  <2>3. (u + 1) \div N = q + 1 /\ (u + 1) % N = 0
    <3>1. ((q + 1) * N + 0) \div N = q + 1 /\ ((q + 1) * N + 0) % N = 0
      BY <1>1, <2>2, DivModUnique, Zenon
    <3>2. QED
      BY <2>2, <3>1, Zenon
  <2>4. QED
    BY <1>1, <1>2, <1>3, <1>5, <2>3 DEF Passed, DeviceAt
<1>6. QED
  BY <1>1, <1>2, <1>4, <1>5

-----------------------------------------------------------------------------
\* The rounds are over when no turn is left, nothing was sent before the first
\* search, and a device was sent no more responses than it has had turns: exactly
\* as many, less the turn it missed, if it was not fetched.
Counts(hits, rounds, cur, counts, start) ==
    /\ \A d \in Devices : counts[d] <= Passed(rounds, cur, d)
    /\ \A d \in Devices : ~hits[d] => counts[d] = Passed(rounds, cur, d) - Missed(start, d)

RoundsInv ==
    /\ roundsLeft = 0 => current = 0
    /\ remote = Nobody => roundsLeft = 0 /\ \A d \in Devices : sent[d] = 0
    /\ \A d \in Devices : sent[d] <= Passed(roundsLeft, current, d)
    /\ remote # Nobody => \E start \in Devices : Counts(hit, roundsLeft, current, sent, start)

IInv == TypeOK /\ RoundsInv

\* Types of what Passed counts.
LEMMA PassedType ==
    ASSUME NEW r \in 0 .. Tries, NEW c \in Devices, r = 0 => c = 0, NEW d \in Devices
    PROVE  Passed(r, c, d) \in 0 .. Tries
  BY DeviceAssumption DEF Passed, Devices

\* nextUDPResponse keeps the counts of every search it is called in.
LEMMA ResponseKeepsCounts ==
    ASSUME NEW hits \in [Devices -> BOOLEAN], NEW r \in 0 .. Tries, NEW c \in Devices,
           r = 0 => c = 0, NEW to \in Controllers, NEW counts \in [Devices -> 0 .. Tries],
           NEW start \in Devices, Counts(hits, r, c, counts, start),
           NextUDPResponse(hits, TurnOf(r, c), to, counts)
    PROVE  /\ roundsLeft' \in 0 .. Tries /\ current' \in Devices
           /\ roundsLeft' = 0 => current' = 0
           /\ sent' \in [Devices -> 0 .. Tries]
           /\ Counts(hits, roundsLeft', current', sent', start)
           /\ \A d \in Devices : hits[d] => sent'[d] = counts[d]
<1> DEFINE u == NextTurn(hits, TurnOf(r, c))
           Rounds(t) == Tries - t \div DeviceCount
           Cur(t) == t % DeviceCount
<1>1. TurnOf(r, c) \in 0 .. LastTurn
  BY TurnsOfRounds
<1>2. /\ u \in TurnOf(r, c) .. LastTurn
      /\ u = LastTurn \/ ~hits[DeviceAt(u)]
      /\ \A v \in TurnOf(r, c) .. u - 1 : hits[DeviceAt(v)]
  BY <1>1, NextTurnExists
<1>3. LastTurn \in Nat /\ u \in 0 .. LastTurn
  BY <1>1, <1>2, DeviceAssumption DEF LastTurn
<1>4. Counts(hits, Rounds(u), Cur(u), counts, start)
  <2>1. ASSUME NEW d \in Devices PROVE counts[d] <= Passed(Rounds(u), Cur(u), d)
    <3>1. Passed(r, c, d) <= Passed(Rounds(u), Cur(u), d)
      BY <1>2, SkippingPassesNone
    <3>2. Passed(r, c, d) \in Int /\ Passed(Rounds(u), Cur(u), d) \in Int
      BY <1>3, TurnsAreTakenUp, PassedType
    <3>3. QED
      BY <3>1, <3>2 DEF Counts
  <2>2. ASSUME NEW d \in Devices, ~hits[d]
        PROVE  counts[d] = Passed(Rounds(u), Cur(u), d) - Missed(start, d)
    <3>1. \A v \in TurnOf(r, c) .. u - 1 : DeviceAt(v) # d
      BY <1>2, <2>2, Zenon
    <3>2. Passed(Rounds(u), Cur(u), d) = Passed(r, c, d)
      BY <1>2, <3>1, SkippingPassesNone
    <3>3. QED
      BY <2>2, <3>2, Zenon DEF Counts
  <2>3. QED
    BY <2>1, <2>2, Zenon DEF Counts
<1>5. CASE u < LastTurn
  <2>1. /\ sent' = [counts EXCEPT ![DeviceAt(u)] = @ + 1]
        /\ roundsLeft' = Rounds(u + 1) /\ current' = Cur(u + 1)
    BY <1>5 DEF NextUDPResponse, TakeUpAt
  <2>2. DeviceAt(u) \in Devices /\ ~hits[DeviceAt(u)]
    BY <1>2, <1>3, <1>5, TurnsAreTakenUp DEF DeviceAt
  <2>3. u + 1 \in 0 .. LastTurn
    BY <1>3, <1>5
  <2>4. roundsLeft' \in 0 .. Tries /\ current' \in Devices /\ (roundsLeft' = 0 => current' = 0)
    BY <2>1, <2>3, TurnsAreTakenUp
  <2>5. ASSUME NEW d \in Devices
        PROVE  /\ sent'[d] = counts[d] + (IF d = DeviceAt(u) THEN 1 ELSE 0)
               /\ Passed(roundsLeft', current', d)
                    = Passed(Rounds(u), Cur(u), d) + (IF d = DeviceAt(u) THEN 1 ELSE 0)
               /\ Passed(roundsLeft', current', d) \in 0 .. Tries
               /\ Passed(Rounds(u), Cur(u), d) \in 0 .. Tries
    <3>1. sent'[d] = counts[d] + (IF d = DeviceAt(u) THEN 1 ELSE 0)
      BY <2>1, <2>2
    <3>2. Passed(Rounds(u + 1), Cur(u + 1), d)
            = Passed(Rounds(u), Cur(u), d) + (IF d = DeviceAt(u) THEN 1 ELSE 0)
      BY <1>3, <1>5, TurnPassesOne
    <3>3. Passed(roundsLeft', current', d) \in 0 .. Tries
      BY <2>4, PassedType
    <3>4. Passed(Rounds(u), Cur(u), d) \in 0 .. Tries
      BY <1>3, TurnsAreTakenUp, PassedType
    <3>5. QED
      BY <2>1, <3>1, <3>2, <3>3, <3>4
  <2>6. Counts(hits, roundsLeft', current', sent', start)
    <3>1. ASSUME NEW d \in Devices PROVE sent'[d] <= Passed(roundsLeft', current', d)
      BY <1>4, <2>5 DEF Counts
    <3>2. ASSUME NEW d \in Devices, ~hits[d]
          PROVE  sent'[d] = Passed(roundsLeft', current', d) - Missed(start, d)
      <4>1. counts[d] = Passed(Rounds(u), Cur(u), d) - Missed(start, d)
        BY <1>4, <3>2, Zenon DEF Counts
      <4>2. Missed(start, d) \in Int
        BY DEF Missed
      <4>3. QED
        BY <2>5, <4>1, <4>2
    <3>3. QED
      BY <3>1, <3>2, Zenon DEF Counts
  <2>7. sent' \in [Devices -> 0 .. Tries]
    <3>1. ASSUME NEW d \in Devices PROVE sent'[d] \in 0 .. Tries
      BY <2>5, <2>6, DeviceAssumption DEF Counts
    <3>2. QED
      BY <2>1, <3>1
  <2>8. ASSUME NEW d \in Devices, hits[d] PROVE sent'[d] = counts[d]
    BY <2>1, <2>2, <2>8
  <2>9. QED
    BY <2>4, <2>6, <2>7, <2>8
<1>6. CASE ~(u < LastTurn)
  <2>1. u = LastTurn
    BY <1>3, <1>6
  <2>2. sent' = counts /\ roundsLeft' = Rounds(LastTurn) /\ current' = Cur(LastTurn)
    BY <1>6 DEF NextUDPResponse, TakeUpAt
  <2>3. roundsLeft' \in 0 .. Tries /\ current' \in Devices /\ (roundsLeft' = 0 => current' = 0)
    BY <1>3, <2>2, TurnsAreTakenUp
  <2>4. QED
    BY <1>4, <2>1, <2>2, <2>3, Zenon
<1>7. QED
  BY <1>5, <1>6

-----------------------------------------------------------------------------
\* Init and the steps.

LEMMA InitInv == Init => IInv
<1> SUFFICES ASSUME Init PROVE IInv
  OBVIOUS
<1>1. 0 \in Devices /\ 0 \in 0 .. Tries /\ 0 \in 0 .. MaxLosses
  BY DeviceAssumption, MaxLossesAssumption DEF Devices
<1>2. TypeOK
  BY <1>1 DEF Init, TypeOK
<1>3. \A d \in Devices : sent[d] <= Passed(roundsLeft, current, d)
  BY DeviceAssumption DEF Init, Passed, Devices
<1>4. QED
  BY <1>2, <1>3 DEF Init, IInv, RoundsInv

\* What a response does to the fetches and the losses.
LEMMA ResponseTypes ==
    ASSUME TypeOK, NEW hits \in [Devices -> BOOLEAN], NEW turn \in 0 .. LastTurn,
           NEW to \in Controllers, NEW counts, NextUDPResponse(hits, turn, to, counts)
    PROVE  fetches' \subseteq Controllers \X Devices /\ losses' \in 0 .. MaxLosses
<1> DEFINE u == NextTurn(hits, turn)
<1>1. LastTurn \in Nat /\ u \in turn .. LastTurn
  BY NextTurnExists, DeviceAssumption DEF LastTurn
<1>2. CASE u < LastTurn
  <2>1. DeviceAt(u) \in Devices
    BY <1>1, TurnsAreTakenUp DEF DeviceAt
  <2>2. SendUDPResponse(to, DeviceAt(u))
    BY <1>2 DEF NextUDPResponse
  <2>3. fetches' \subseteq Controllers \X Devices
    BY <2>1, <2>2 DEF SendUDPResponse, TypeOK
  <2>4. losses' \in 0 .. MaxLosses
    BY <2>2, MaxLossesAssumption DEF SendUDPResponse, TypeOK
  <2>5. QED
    BY <2>3, <2>4
<1>3. CASE ~(u < LastTurn)
  BY <1>3 DEF NextUDPResponse, TypeOK
<1>4. QED
  BY <1>2, <1>3

LEMMA HandleKeepsInv ==
    ASSUME IInv, Handle
    PROVE  IInv' /\ \A d \in Devices : hit[d] => sent'[d] = sent[d]
<1>1. TypeOK /\ RoundsInv /\ roundsLeft > 0 /\ UNCHANGED <<hit, remote, known>>
  BY DEF IInv, Handle
<1>2. roundsLeft \in 0 .. Tries /\ current \in Devices /\ hit \in [Devices -> BOOLEAN]
      /\ sent \in [Devices -> 0 .. Tries] /\ (roundsLeft = 0 => current = 0)
  BY <1>1 DEF TypeOK, RoundsInv
<1>3. remote \in Controllers
  BY <1>1 DEF TypeOK, RoundsInv
<1>4. PICK start \in Devices : Counts(hit, roundsLeft, current, sent, start)
  BY <1>1, <1>3, NobodyAssumption DEF RoundsInv
<1>5. NextUDPResponse(hit, TurnOf(roundsLeft, current), remote, sent)
  BY DEF Handle
<1>6. /\ roundsLeft' \in 0 .. Tries /\ current' \in Devices
      /\ roundsLeft' = 0 => current' = 0
      /\ sent' \in [Devices -> 0 .. Tries]
      /\ Counts(hit, roundsLeft', current', sent', start)
      /\ \A d \in Devices : hit[d] => sent'[d] = sent[d]
  BY <1>2, <1>3, <1>4, <1>5, ResponseKeepsCounts
<1>7. TurnOf(roundsLeft, current) \in 0 .. LastTurn
  BY <1>2, TurnsOfRounds
<1>8. fetches' \subseteq Controllers \X Devices /\ losses' \in 0 .. MaxLosses
  BY <1>1, <1>2, <1>3, <1>5, <1>7, ResponseTypes
<1>9. TypeOK'
  BY <1>1, <1>6, <1>8 DEF TypeOK
<1>10. RoundsInv'
  <2>1. Counts(hit', roundsLeft', current', sent', start)
    BY <1>1, <1>6
  <2>2. remote' # Nobody
    BY <1>1, <1>3, NobodyAssumption
  <2>3. QED
    BY <1>6, <2>1, <2>2 DEF RoundsInv, Counts
<1>11. QED
  BY <1>6, <1>9, <1>10 DEF IInv

LEMMA SearchKeepsInv ==
    ASSUME IInv, NEW c \in Controllers, NEW start \in Devices, NEW due \in BOOLEAN,
           HandleSearch(c, start, due)
    PROVE  IInv' /\ \A d \in Devices : ~hit'[d]
<1> DEFINE none == [d \in Devices |-> 0]
<1>1. TypeOK /\ hit' = [d \in Devices |-> FALSE] /\ remote' = c /\ UNCHANGED known
  BY DEF IInv, HandleSearch
<1>2. hit' \in [Devices -> BOOLEAN] /\ (\A d \in Devices : ~hit'[d]) /\ remote' # Nobody
  BY <1>1, NobodyAssumption
<1>3. Tries \in 0 .. Tries /\ Tries # 0 /\ none \in [Devices -> 0 .. Tries]
  BY DeviceAssumption
<1>4. TurnOf(Tries, start) = start /\ start \in 0 .. LastTurn
      /\ start \div DeviceCount = 0 /\ start % DeviceCount = start
  <2>1. TurnOf(Tries, start) = start
    <3>1. Tries - Tries = 0 /\ DeviceCount \in Nat /\ start \in Nat
      BY DeviceAssumption DEF Devices
    <3>2. QED
      BY <3>1 DEF TurnOf
  <2>2. TurnOf(Tries, start) \in 0 .. LastTurn /\ TurnOf(Tries, start) \div DeviceCount = Tries - Tries
        /\ TurnOf(Tries, start) % DeviceCount = start
    BY <1>3, TurnsOfRounds
  <2>3. QED
    BY <2>1, <2>2, DeviceAssumption
<1>5. Counts(hit', Tries, start, none, start)
  BY DeviceAssumption DEF Counts, Passed, Missed, Devices
<1>6. /\ roundsLeft' \in 0 .. Tries /\ current' \in Devices
      /\ roundsLeft' = 0 => current' = 0
      /\ sent' \in [Devices -> 0 .. Tries]
      /\ Counts(hit', roundsLeft', current', sent', start)
      /\ fetches' \subseteq Controllers \X Devices /\ losses' \in 0 .. MaxLosses
  <2>1. CASE due
    <3>1. NextUDPResponse(hit', TurnOf(Tries, start), c, none)
      BY <1>4, <2>1 DEF HandleSearch
    <3>2. fetches' \subseteq Controllers \X Devices /\ losses' \in 0 .. MaxLosses
      BY <1>1, <1>2, <1>4, <3>1, ResponseTypes
    <3>3. /\ roundsLeft' \in 0 .. Tries /\ current' \in Devices
          /\ roundsLeft' = 0 => current' = 0
          /\ sent' \in [Devices -> 0 .. Tries]
          /\ Counts(hit', roundsLeft', current', sent', start)
      BY <1>2, <1>3, <1>5, <3>1, ResponseKeepsCounts
    <3>4. QED
      BY <3>2, <3>3
  <2>2. CASE ~due
    <3>1. roundsLeft' = Tries - 0 /\ current' = start /\ sent' = none /\ UNCHANGED <<fetches, losses>>
      BY <1>4, <2>2 DEF HandleSearch, TakeUpAt
    <3>2. Tries - 0 = Tries
      BY DeviceAssumption
    <3>3. QED
      BY <1>1, <1>3, <1>5, <3>1, <3>2 DEF TypeOK
  <2>3. QED
    BY <2>1, <2>2
<1>7. TypeOK'
  BY <1>1, <1>2, <1>6 DEF TypeOK
<1>8. RoundsInv'
  BY <1>2, <1>6 DEF RoundsInv, Counts
<1>9. QED
  BY <1>2, <1>7, <1>8 DEF IInv

LEMMA SetupKeepsInv ==
    ASSUME IInv, NEW c \in Controllers, NEW d \in Devices, HandleSetup(c, d)
    PROVE  IInv' /\ sent' = sent
<1>1. TypeOK /\ RoundsInv /\ hit' = [hit EXCEPT ![d] = TRUE]
      /\ UNCHANGED <<roundsLeft, current, remote, sent, losses>>
  BY DEF IInv, HandleSetup
<1>2. TypeOK'
  BY <1>1 DEF TypeOK, HandleSetup
<1>3. \A e \in Devices : ~hit'[e] => ~hit[e]
  BY <1>1 DEF TypeOK
<1>4. ASSUME NEW start \in Devices, Counts(hit, roundsLeft, current, sent, start)
      PROVE  Counts(hit', roundsLeft', current', sent', start)
  BY <1>1, <1>3, <1>4, Zenon DEF Counts
<1>5. RoundsInv'
  BY <1>1, <1>4 DEF RoundsInv
<1>6. QED
  BY <1>1, <1>2, <1>5 DEF IInv

LEMMA StepKeepsInv == IInv /\ [Next]_vars => IInv'
<1> SUFFICES ASSUME IInv, [Next]_vars PROVE IInv'
  OBVIOUS
<1>1. CASE Handle
  BY <1>1, HandleKeepsInv
<1>2. CASE SomeSearch
  BY <1>2, SearchKeepsInv DEF SomeSearch
<1>3. CASE Fetching
  BY <1>3, SetupKeepsInv DEF Fetching
<1>4. CASE UNCHANGED vars
  BY <1>4 DEF vars, IInv, TypeOK, RoundsInv, Counts
<1>5. QED
  BY <1>1, <1>2, <1>3, <1>4 DEF Next

-----------------------------------------------------------------------------
\* The invariant holds in every behaviour.
THEOREM Invariance == Spec => []IInv
<1>1. IInv /\ [Next]_vars => IInv'
  BY StepKeepsInv
<1>2. QED
  BY InitInv, <1>1, PTL DEF Spec

\* The rounds, the turn and the number of responses stay in their ranges, for any
\* number of devices and rounds (nextUDPResponse).
THEOREM TypeCorrect == Spec => []TypeOK
<1>1. IInv => TypeOK
  BY DEF IInv
<1>2. QED
  BY Invariance, <1>1, PTL

\* No device is ever more than one response ahead of another, for any number of
\* devices and rounds, and whichever are fetched when (nextUDPResponse).
THEOREM DevicesTakeTurns == Spec => []AnnouncedInTurn
<1>1. IInv => AnnouncedInTurn
  <2> SUFFICES ASSUME IInv, NEW d \in Silent, NEW e \in Silent
               PROVE  sent[d] - sent[e] <= 1
    BY DEF AnnouncedInTurn
  <2>1. d \in Devices /\ e \in Devices /\ ~hit[d] /\ ~hit[e]
    BY DEF Silent
  <2>2. CASE remote = Nobody
    BY <2>1, <2>2 DEF IInv, RoundsInv
  <2>3. CASE remote # Nobody
    <3>1. PICK start \in Devices : Counts(hit, roundsLeft, current, sent, start)
      BY <2>3 DEF IInv, RoundsInv
    <3>2. sent[d] = Passed(roundsLeft, current, d) - Missed(start, d)
          /\ sent[e] = Passed(roundsLeft, current, e) - Missed(start, e)
      BY <2>1, <3>1, Zenon DEF Counts
    <3>3. roundsLeft \in Int /\ current \in Int /\ start \in Int /\ d \in Int /\ e \in Int
      BY <2>1 DEF IInv, TypeOK, Devices
    <3>4. QED
      BY <3>2, <3>3, DeviceAssumption DEF Passed, Missed
  <2>4. QED
    BY <2>2, <2>3
<1>2. QED
  BY Invariance, <1>1, PTL

\* A search is given up only after every device nobody fetched had its responses
\* in all rounds but, perhaps, the first (nextUDPResponse).
THEOREM RoundsAreUsedUp == Spec => []GivesUpAfterTries
<1>1. IInv => GivesUpAfterTries
  <2> SUFFICES ASSUME IInv, remote # Nobody, roundsLeft = 0, NEW d \in Silent
               PROVE  sent[d] >= Tries - 1
    BY DEF GivesUpAfterTries
  <2>1. d \in Devices /\ ~hit[d]
    BY DEF Silent
  <2>2. PICK start \in Devices : Counts(hit, roundsLeft, current, sent, start)
    BY DEF IInv, RoundsInv
  <2>3. sent[d] = Passed(roundsLeft, current, d) - Missed(start, d)
    BY <2>1, <2>2, Zenon DEF Counts
  <2>4. current = 0 /\ d \in Nat
    BY <2>1 DEF IInv, RoundsInv, Devices
  <2>5. QED
    BY <2>3, <2>4, DeviceAssumption DEF Passed, Missed
<1>2. QED
  BY Invariance, <1>1, PTL

\* The response that a fetched device would have had goes to the next one that was
\* not fetched, or to none (nextUDPResponse).
THEOREM FetchedAreLeftOut == Spec => FetchedDevicesAreQuiet
<1> DEFINE Quiet == \A d \in Devices : hit[d] /\ hit'[d] => sent'[d] = sent[d]
<1>1. IInv /\ [Next]_vars => [Quiet]_vars
  <2> SUFFICES ASSUME IInv, [Next]_vars PROVE Quiet \/ UNCHANGED vars
    BY Zenon
  <2>1. CASE Handle
    BY <2>1, HandleKeepsInv, Zenon
  <2>2. CASE SomeSearch
    <3>1. \A d \in Devices : ~hit'[d]
      BY <2>2, SearchKeepsInv DEF SomeSearch
    <3>2. QED
      BY <3>1, Zenon
  <2>3. CASE Fetching
    BY <2>3, SetupKeepsInv DEF Fetching
  <2>4. QED
    BY <2>1, <2>2, <2>3 DEF Next
<1>2. QED
  BY Invariance, <1>1, PTL DEF Spec, FetchedDevicesAreQuiet

-----------------------------------------------------------------------------
\* What the controllers know.

\* The controller that searched last knows the device, has heard of it, or all
\* responses sent for it are among the lost ones.
HeardOf(d, to, learnt, coming, counts, lost) ==
    d \in learnt[to] \/ <<to, d>> \in coming \/ counts[d] <= lost

HeardInv ==
    /\ \A d \in Devices : hit[d] => \E c \in Controllers : d \in known[c]
    /\ remote # Nobody =>
          \A d \in Devices : ~hit[d] => HeardOf(d, remote, known, fetches, sent, losses)

\* A response adds to what is on its way or to what was lost.
LEMMA ResponseIsHeardOrLost ==
    ASSUME TypeOK, NEW hits \in [Devices -> BOOLEAN], NEW turn \in 0 .. LastTurn,
           NEW to \in Controllers, NEW counts \in [Devices -> 0 .. Tries],
           NextUDPResponse(hits, turn, to, counts),
           NEW d \in Devices, HeardOf(d, to, known, fetches, counts, losses)
    PROVE  HeardOf(d, to, known, fetches', sent', losses')
<1>. DEFINE u == NextTurn(hits, turn)
            e == DeviceAt(u)
<1>1. LastTurn \in Nat /\ u \in 0 .. LastTurn
  BY NextTurnExists, DeviceAssumption DEF LastTurn
<1>2. losses \in Nat /\ counts[d] \in Nat
  BY MaxLossesAssumption DEF TypeOK
<1>3. CASE u < LastTurn
  <2>1. e \in Devices
    BY <1>1, TurnsAreTakenUp DEF DeviceAt
  <2>2. SendUDPResponse(to, e) /\ sent' = [counts EXCEPT ![e] = @ + 1]
    BY <1>3 DEF NextUDPResponse
  <2>3. sent'[d] = IF d = e THEN counts[d] + 1 ELSE counts[d]
    BY <2>1, <2>2
  <2>4. CASE losses' = losses + 1 /\ fetches' = fetches
    BY <1>2, <2>3, <2>4 DEF HeardOf
  <2>5. CASE losses' = losses /\ fetches' = IF e \in known[to] THEN fetches ELSE fetches \cup {<<to, e>>}
    <3>1. CASE d = e
      BY <2>5, <3>1 DEF HeardOf
    <3>2. CASE d # e
      BY <2>3, <2>5, <3>2 DEF HeardOf
    <3>. QED BY <3>1, <3>2
  <2>. QED BY <2>2, <2>4, <2>5 DEF SendUDPResponse
<1>4. CASE ~(u < LastTurn)
  BY <1>4 DEF NextUDPResponse, HeardOf
<1>. QED BY <1>3, <1>4

LEMMA HandleKeepsHeard == IInv /\ HeardInv /\ Handle => HeardInv'
<1>. SUFFICES ASSUME IInv, HeardInv, Handle PROVE HeardInv'
  OBVIOUS
<1>1. TypeOK /\ RoundsInv /\ UNCHANGED <<hit, remote, known>>
  BY DEF IInv, Handle
<1>2. hit \in [Devices -> BOOLEAN] /\ sent \in [Devices -> 0 .. Tries]
  BY <1>1 DEF TypeOK
<1>3. TurnOf(roundsLeft, current) \in 0 .. LastTurn
  BY <1>1, TurnsOfRounds DEF TypeOK, RoundsInv
<1>4. remote \in Controllers /\ remote # Nobody
  BY <1>1, NobodyAssumption DEF Handle, TypeOK, RoundsInv
<1>5. NextUDPResponse(hit, TurnOf(roundsLeft, current), remote, sent)
  BY DEF Handle
<1>6. ASSUME NEW d \in Devices, ~hit[d]
      PROVE  HeardOf(d, remote, known, fetches', sent', losses')
  <2>1. HeardOf(d, remote, known, fetches, sent, losses)
    BY <1>4, <1>6 DEF HeardInv
  <2>. QED BY <1>1, <1>2, <1>3, <1>4, <1>5, <2>1, ResponseIsHeardOrLost
<1>. QED BY <1>1, <1>6 DEF HeardInv

LEMMA SearchKeepsHeard ==
    ASSUME IInv, NEW c \in Controllers, NEW start \in Devices, NEW due \in BOOLEAN,
           HandleSearch(c, start, due)
    PROVE  HeardInv'
<1>. DEFINE none == [d \in Devices |-> 0]
<1>1. TypeOK /\ hit' = [d \in Devices |-> FALSE] /\ remote' = c /\ UNCHANGED known
  BY DEF IInv, HandleSearch
<1>2. hit' \in [Devices -> BOOLEAN] /\ (\A d \in Devices : ~hit'[d])
  BY <1>1
<1>3. none \in [Devices -> 0 .. Tries] /\ start \in 0 .. LastTurn
  <2>1. 1 <= Tries /\ DeviceCount \in Nat /\ Tries \in Nat
    BY DeviceAssumption
  <2>2. DeviceCount <= LastTurn
    <3>1. CASE Tries = 1
      BY <2>1, <3>1 DEF LastTurn
    <3>2. CASE 1 < Tries
      <4>1. 1 * DeviceCount + DeviceCount <= Tries * DeviceCount
        BY <2>1, <3>2, DeviceAssumption, Multiples
      <4>2. Tries * DeviceCount \in Nat
        BY <2>1
      <4>. QED BY <2>1, <4>1, <4>2 DEF LastTurn
    <3>. QED BY <2>1, <3>1, <3>2
  <2>3. LastTurn \in Nat
    BY <2>1 DEF LastTurn
  <2>. QED BY <2>1, <2>2, <2>3 DEF Devices
<1>4. \A d \in Devices : HeardOf(d, c, known, fetches, none, losses)
  BY <1>1, MaxLossesAssumption DEF TypeOK, HeardOf
<1>5. ASSUME NEW d \in Devices PROVE HeardOf(d, c, known, fetches', sent', losses')
  <2>1. CASE due
    <3>1. NextUDPResponse(hit', start, c, none)
      BY <2>1 DEF HandleSearch
    <3>. QED BY <1>1, <1>2, <1>3, <1>4, <3>1, ResponseIsHeardOrLost
  <2>2. CASE ~due
    BY <1>4, <2>2 DEF HandleSearch
  <2>. QED BY <2>1, <2>2
<1>. QED BY <1>1, <1>2, <1>5 DEF HeardInv

\* A device whose setup.xml was fetched is known to who fetched it.
LEMMA SetupKeepsHeard ==
    ASSUME IInv, HeardInv, NEW c \in Controllers, NEW d \in Devices, HandleSetup(c, d)
    PROVE  HeardInv'
<1>1. hit \in [Devices -> BOOLEAN] /\ known \in [Controllers -> SUBSET Devices]
  BY DEF IInv, TypeOK
<1>2. /\ hit' = [hit EXCEPT ![d] = TRUE]
      /\ known' = [known EXCEPT ![c] = @ \cup {d}]
      /\ fetches' = fetches \ {<<c, d>>}
      /\ UNCHANGED <<remote, sent, losses>>
  BY DEF HandleSetup
<1>3. \A b \in Controllers : known[b] \subseteq known'[b]
  BY <1>1, <1>2
<1>4. d \in known'[c]
  BY <1>1, <1>2
<1>5. ASSUME NEW e \in Devices, hit'[e] PROVE \E b \in Controllers : e \in known'[b]
  <2>1. CASE e = d
    BY <1>4, <2>1
  <2>2. CASE e # d
    <3>1. hit[e]
      BY <1>1, <1>2, <1>5, <2>2
    <3>. QED BY <1>3, <3>1 DEF HeardInv
  <2>. QED BY <2>1, <2>2
<1>6. ASSUME remote # Nobody, NEW e \in Devices, ~hit'[e]
      PROVE  HeardOf(e, remote, known', fetches', sent, losses)
  <2>1. remote \in Controllers
    BY <1>6 DEF IInv, TypeOK
  <2>2. ~hit[e] /\ e # d
    BY <1>1, <1>2, <1>6
  <2>3. HeardOf(e, remote, known, fetches, sent, losses)
    BY <1>6, <2>2 DEF HeardInv
  <2>. QED BY <1>2, <1>3, <2>1, <2>2, <2>3 DEF HeardOf
<1>. QED BY <1>2, <1>5, <1>6 DEF HeardInv

\* What controllers know is kept in every behaviour.
THEOREM Hearing == Spec => []HeardInv
<1>1. Init => HeardInv
  BY DEF Init, HeardInv
<1>2. IInv /\ HeardInv /\ [Next]_vars => HeardInv'
  <2>. SUFFICES ASSUME IInv, HeardInv, [Next]_vars PROVE HeardInv'
    OBVIOUS
  <2>1. CASE Handle
    BY <2>1, HandleKeepsHeard
  <2>2. CASE SomeSearch
    BY <2>2, SearchKeepsHeard DEF SomeSearch
  <2>3. CASE Fetching
    BY <2>3, SetupKeepsHeard DEF Fetching
  <2>4. CASE UNCHANGED vars
    BY <2>4 DEF vars, HeardInv, HeardOf
  <2>. QED BY <2>1, <2>2, <2>3, <2>4 DEF Next
<1>. QED BY <1>1, <1>2, Invariance, PTL DEF Spec

\* With fewer losses than rounds that are full for certain, a device that has
\* fallen silent has had each of its emulated devices fetched (handle, nextUDPResponse).
THEOREM SilenceMeansKnown == Spec => []EveryDeviceIsHeardOf
<1>1. IInv /\ HeardInv /\ GivesUpAfterTries => EveryDeviceIsHeardOf
  <2>. SUFFICES ASSUME IInv, HeardInv, GivesUpAfterTries, NEW d \in Devices,
                       remote # Nobody, roundsLeft = 0, fetches = {}, losses < Tries - 1
                PROVE  \E c \in Controllers : d \in known[c]
    BY DEF EveryDeviceIsHeardOf
  <2>1. CASE hit[d]
    BY <2>1 DEF HeardInv
  <2>2. CASE ~hit[d]
    <3>1. sent[d] >= Tries - 1
      BY <2>2 DEF GivesUpAfterTries, Silent
    <3>2. sent[d] \in Nat /\ losses \in Nat /\ Tries \in Nat /\ remote \in Controllers
      BY DeviceAssumption, MaxLossesAssumption DEF IInv, TypeOK
    <3>3. ~(sent[d] <= losses)
      BY <3>1, <3>2
    <3>4. d \in known[remote]
      BY <2>2, <3>3 DEF HeardInv, HeardOf
    <3>. QED BY <3>2, <3>4
  <2>. QED BY <2>1, <2>2
<1>. QED BY <1>1, Invariance, Hearing, RoundsAreUsedUp, PTL

-----------------------------------------------------------------------------
\* The step on which the end of the rounds rests: handle() moves on to a later
\* turn, also past devices that were fetched, and only a search goes back.  It
\* has LastTurn turns at most to move on to.
THEOREM RoundsRunOut ==
    Spec => [][Handle => /\ TurnOf(roundsLeft', current') > TurnOf(roundsLeft, current)
                         /\ TurnOf(roundsLeft', current') <= LastTurn]_vars
<1>. DEFINE turn == TurnOf(roundsLeft, current)
            Later == Handle => TurnOf(roundsLeft', current') > turn
                               /\ TurnOf(roundsLeft', current') <= LastTurn
<1>1. ASSUME IInv, Handle PROVE Later
  <2>. DEFINE u == NextTurn(hit, turn)
  <2>1. hit \in [Devices -> BOOLEAN] /\ turn \in 0 .. LastTurn /\ turn < LastTurn
    BY <1>1, TurnsOfRounds DEF IInv, TypeOK, RoundsInv, Handle
  <2>2. LastTurn \in Nat /\ u \in turn .. LastTurn
    BY <2>1, NextTurnExists, DeviceAssumption DEF LastTurn
  <2>3. PICK t \in turn + 1 .. LastTurn : TakeUpAt(t)
    <3>1. NextUDPResponse(hit, turn, remote, sent)
      BY <1>1 DEF Handle
    <3>2. CASE u < LastTurn
      <4>1. u + 1 \in turn + 1 .. LastTurn
        BY <2>1, <2>2, <3>2
      <4>. QED BY <3>1, <3>2, <4>1 DEF NextUDPResponse
    <3>3. CASE ~(u < LastTurn)
      <4>1. LastTurn \in turn + 1 .. LastTurn
        BY <2>1, <2>2
      <4>. QED BY <3>1, <3>3, <4>1 DEF NextUDPResponse
    <3>. QED BY <3>2, <3>3
  <2>4. t \in 0 .. LastTurn
    BY <2>1, <2>2, <2>3
  <2>5. TurnOf(roundsLeft', current') = t
    <3>1. t \div DeviceCount \in Nat /\ Tries \in Nat
      <4>1. t \in Nat /\ DeviceCount \in Nat \ {0} /\ Tries \in Nat
        BY <2>2, <2>4, DeviceAssumption
      <4>2. t \div DeviceCount \in Nat
        BY <4>1, DivMod, Zenon
      <4>. QED BY <4>1, <4>2
    <3>2. Tries - roundsLeft' = t \div DeviceCount
      BY <2>3, <3>1 DEF TakeUpAt
    <3>. QED BY <2>3, <2>4, <3>2, TurnsAreTakenUp, Zenon DEF TakeUpAt, TurnOf
  <2>. QED BY <2>1, <2>2, <2>3, <2>5
<1>2. IInv /\ [Next]_vars => [Later]_vars
  BY <1>1
<1>. QED BY <1>2, Invariance, PTL DEF Spec

=============================================================================
