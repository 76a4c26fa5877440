---------------------------- MODULE SignalProofs ----------------------------
(***************************************************************************)
(* Proofs about what becomes of the signal's samples:                      *)
(*   PacketLayout  a code is delivered by the converter, cut into bytes,   *)
(*                 written to a packet, stored and put together again:     *)
(*                 for every number of channels, samples and packets, any  *)
(*                 even radix and every code;                              *)
(*   MAF           the moving average is exact, and implements the sliding *)
(*                 window, for every length, threshold and input;          *)
(*   Waveform      the search for zero crossings, the copies of windows    *)
(*                 and the harmonics of a second, for every length and     *)
(*                 every waveform;                                         *)
(*   CPT           what CPT_Update leaves is of one sample and has the unit  *)
(*                 of its name, for every number of samples.               *)
(***************************************************************************)
EXTENDS PacketLayout, MAF, Waveform, CPT, SequenceTheorems,
        WellFoundedInduction, TLAPS

-----------------------------------------------------------------------------
(* Arithmetic                                                              *)

(* Quotient and remainder.                                                 *)
LEMMA DivMod ==
    ASSUME NEW a \in Int, NEW b \in Nat \ {0}
    PROVE  /\ a \div b \in Int /\ a % b \in 0 .. b - 1
           /\ a = b * (a \div b) + (a % b)
  BY Z3

(* The same for registers of four bytes, where the divisor is a number.    *)
LEMMA DivFour ==
    ASSUME NEW a \in Int
    PROVE  /\ a \div 4 \in Int /\ a % 4 \in 0 .. 3
           /\ a = 4 * (a \div 4) + (a % 4)
  OBVIOUS

(* A number is written as quotient and remainder in one way.               *)
LEMMA DivUnique ==
    ASSUME NEW b \in Nat \ {0}, NEW q \in Int, NEW r \in 0 .. b - 1
    PROVE  (q * b + r) \div b = q /\ (q * b + r) % b = r
  BY Z3

(* Multiples of b are at least b apart.                                    *)
LEMMA MulLess ==
    ASSUME NEW b \in Nat, NEW x \in Int, NEW y \in Int, x < y
    PROVE  x * b + b <= y * b
  BY Z3

-----------------------------------------------------------------------------
(* Bytes of a code                                                         *)

(* A word of three digits is the number its digits write.                  *)
LEMMA Digits ==
    ASSUME NEW R \in Nat \ {0}, NEW word \in 0 .. R * R * R - 1
    PROVE  /\ word \div (R * R) \in 0 .. R - 1
           /\ (word \div R) % R \in 0 .. R - 1
           /\ word % R \in 0 .. R - 1
           /\ ((word \div (R * R)) * R + ((word \div R) % R)) * R + (word % R) = word
<1> DEFINE lo == word % R
           q == word \div R
           mid == q % R
           hi == q \div R
           rest == mid * R + lo
           S == R * R
<1>1. /\ q \in Int /\ lo \in 0 .. R - 1 /\ word = R * q + lo
  BY DivMod
<1>2. /\ hi \in Int /\ mid \in 0 .. R - 1 /\ q = R * hi + mid
  BY <1>1, DivMod
<1>3. S \in Nat \ {0} /\ R * S = R * R * R /\ S = R * R
  BY Z3
<1> HIDE DEF lo, q, mid, hi, S
<1>4. mid * R \in Int /\ mid * R + R <= R * R
  BY <1>2, MulLess
<1>5. rest \in 0 .. S - 1
  <2>1. mid * R >= 0
    BY <1>2, Z3
  <2> QED BY <2>1, <1>4, <1>3, <1>1
<1>6. word = hi * S + rest
  <2>1. R * (R * hi + mid) = hi * (R * R) + mid * R
    BY <1>2, Z3
  <2> QED BY <2>1, <1>1, <1>2, <1>3
<1>7. word \div S = hi
  <2> HIDE DEF rest
  <2> QED BY <1>6, <1>5, <1>3, <1>2, DivUnique
<1>8. hi \in 0 .. R - 1
  <2>1. hi * S \in Int /\ hi * S <= word /\ word < R * S /\ R * S \in Int
        /\ 0 <= word /\ word < hi * S + S
    <3> HIDE DEF rest
    <3> QED BY <1>6, <1>5, <1>3, <1>2, Z3
  <2>2. hi < R
    <3>1. CASE R < hi \/ R = hi
      <4>1. R * S <= hi * S
        BY <3>1, <1>2, <1>3, MulLess, <2>1
      <4> QED BY <4>1, <2>1
    <3> QED BY <3>1, <1>2
  <2>3. 0 <= hi
    <3>1. CASE hi < 0
      <4>1. hi * S + S <= 0 * S /\ 0 * S = 0
        BY <3>1, <1>2, <1>3, MulLess
      <4> QED BY <4>1, <2>1, <1>3
    <3> QED BY <3>1, <1>2
  <2> QED BY <2>2, <2>3, <1>2
<1>9. (hi * R + mid) * R + lo = word
  <2>1. (hi * R + mid) * R = hi * (R * R) + mid * R
    BY <1>2, Z3
  <2>2. hi * (R * R) = hi * S
    BY <1>3
  <2>3. hi * S \in Int
    BY <1>2, <1>3
  <2> QED BY <2>1, <2>2, <2>3, <1>1, <1>2, <1>4, <1>6 DEF rest
<1> QED BY <1>7, <1>8, <1>9, <1>1, <1>2, <1>3 DEF lo, q, mid, hi

(* A code of the converter as a word without a sign.                       *)
Word(code) == IF code < 0 THEN code + 2 * Half ELSE code

(* The radix is even: the codes are as many as the words.                  *)
LEMMA HalfIs ==
    /\ Radix \in Nat \ {0}
    /\ Half \in Nat \ {0}
    /\ 2 * Half = Radix * Radix * Radix
<1> DEFINE h == Radix \div 2
<1>1. Radix \in Nat \ {0} /\ h \in Int /\ Radix = 2 * h
  <2>1. Radix \in Nat \ {0} /\ Radix % 2 = 0
    BY LayoutAssumption
  <2> QED BY <2>1, DivMod
<1> HIDE DEF h
<1>2. h * Radix * Radix \in Int /\ Radix * Radix * Radix = (h * Radix * Radix) * 2 + 0
  <2>1. (2 * h) * Radix * Radix = 2 * (h * Radix * Radix)
    BY <1>1, Z3
  <2> QED BY <2>1, <1>1
<1>3. Half = h * Radix * Radix
  <2> DEFINE q == h * Radix * Radix
  <2> HIDE DEF q
  <2>1. (q * 2 + 0) \div 2 = q
    BY <1>2, DivUnique DEF q
  <2> QED BY <2>1, <1>2 DEF q, Half
<1>4. h * Radix * Radix > 0
  <2>1. h > 0
    BY <1>1
  <2>2. h * Radix > 0 /\ h * Radix \in Int
    BY <2>1, <1>1, Z3
  <2> QED BY <2>1, <2>2, <1>1, Z3
<1> QED BY <1>1, <1>2, <1>3, <1>4

(* The three bytes of a code on the bus write its word.                    *)
LEMMA BusBytes ==
    ASSUME NEW code \in Code
    PROVE  /\ \A i \in 0 .. 2 : BusByte(code, i) \in Byte
           /\ (BusByte(code, 0) * Radix + BusByte(code, 1)) * Radix + BusByte(code, 2)
                 = Word(code)
<1> DEFINE w == Word(code)
<1>1. w \in 0 .. Radix * Radix * Radix - 1
  <2>1. Word(code) \in 0 .. 2 * Half - 1
    BY HalfIs DEF Word, Code
  <2> QED BY <2>1, HalfIs
<1>2. /\ BusByte(code, 0) = w \div (Radix * Radix)
      /\ BusByte(code, 1) = (w \div Radix) % Radix
      /\ BusByte(code, 2) = w % Radix
  BY DEF BusByte, Word
<1> HIDE DEF w
<1>3. /\ w \div (Radix * Radix) \in 0 .. Radix - 1
      /\ (w \div Radix) % Radix \in 0 .. Radix - 1
      /\ w % Radix \in 0 .. Radix - 1
      /\ ((w \div (Radix * Radix)) * Radix + ((w \div Radix) % Radix)) * Radix + (w % Radix) = w
  BY <1>1, HalfIs, Digits
<1>4. ASSUME NEW i \in 0 .. 2 PROVE BusByte(code, i) \in Byte
  <2>1. i = 0 \/ i = 1 \/ i = 2
    OBVIOUS
  <2> QED BY <2>1, <1>2, <1>3 DEF Byte
<1> QED BY <1>2, <1>3, <1>4 DEF w

(* The host gets the code back from the bytes of the bus, the sign of a    *)
(* negative one included: it shifts the word up one byte and divides by    *)
(* the radix (ConvertRawValues).                                           *)
LEMMA RoundTrip ==
    ASSUME NEW code \in Code
    PROVE  Value(BusByte(code, 0), BusByte(code, 1), BusByte(code, 2)) = code
<1> DEFINE w == Word(code)
           N == 2 * Half * Radix
           up == ((((BusByte(code, 0) * Radix + BusByte(code, 1)) * Radix
                    + BusByte(code, 2)) * Radix) % N)
<1>1. code \in Int /\ -Half <= code /\ code < Half /\ Half \in Nat \ {0} /\ Radix \in Nat \ {0}
  BY HalfIs DEF Code
<1>2. w \in 0 .. 2 * Half - 1 /\ (code < 0 => w = code + 2 * Half) /\ (code >= 0 => w = code)
  BY <1>1 DEF Word
<1>3. up = (w * Radix) % N
  BY BusBytes
<1> HIDE DEF w
<1>4. N \in Nat \ {0} /\ Half * Radix \in Int /\ N = 2 * (Half * Radix) /\ Half * Radix > 0
  <2>1. Half * Radix \in Int /\ Half * Radix > 0
    BY <1>1, Z3
  <2>2. 2 * Half * Radix = 2 * (Half * Radix)
    BY <1>1
  <2> QED BY <2>1, <2>2
<1>5. w * Radix \in 0 .. N - 1
  <2>1. w * Radix + Radix <= (2 * Half) * Radix
    BY <1>1, <1>2, MulLess
  <2>2. w * Radix >= 0 /\ w * Radix \in Int
    BY <1>1, <1>2, Z3
  <2> QED BY <2>1, <2>2, <1>1
<1>6. up = w * Radix
  <2> HIDE DEF N
  <2> DEFINE x == w * Radix
  <2>1. x \in 0 .. N - 1
    BY <1>5
  <2> HIDE DEF x
  <2>2. (0 * N + x) % N = x /\ 0 * N + x = x
    <3>1. N \in Nat \ {0}
      BY <1>4
    <3>2. 0 \in Int
      OBVIOUS
    <3>3. (0 * N + x) % N = x
      BY <3>1, <3>2, <2>1, DivUnique
    <3> QED BY <3>1, <3>3, <2>1
  <2> QED BY <2>2, <1>3 DEF x
<1>7. Value(BusByte(code, 0), BusByte(code, 1), BusByte(code, 2))
        = (IF up >= Half * Radix THEN up - N ELSE up) \div Radix
  BY DEF Value
<1>8. (IF up >= Half * Radix THEN up - N ELSE up) = code * Radix
  <2>1. CASE code < 0
    <3>1. w * Radix = code * Radix + N
      <4>1. (code + 2 * Half) * Radix = code * Radix + 2 * Half * Radix
        BY <1>1
      <4> QED BY <4>1, <1>2, <2>1
    <3>2. w * Radix >= Half * Radix
      <4>1. w >= Half
        BY <1>1, <1>2, <2>1
      <4> QED BY <4>1, <1>1, <1>2, Z3
    <3>3. code * Radix \in Int
      BY <1>1
    <3> HIDE DEF N, up
    <3> QED BY <3>1, <3>2, <3>3, <1>6, <1>4, <1>5
  <2>2. CASE code >= 0
    <3>1. w * Radix + Radix <= Half * Radix
      BY <1>1, <1>2, <2>2, MulLess
    <3>2. w * Radix = code * Radix /\ w * Radix \in Int
      BY <1>1, <1>2, <2>2
    <3> HIDE DEF N, up
    <3> QED BY <3>1, <3>2, <1>6, <1>4, <1>1
  <2> QED BY <2>1, <2>2, <1>1
<1>9. (code * Radix + 0) \div Radix = code /\ code * Radix + 0 = code * Radix
  BY <1>1, DivUnique
<1> QED BY <1>7, <1>8, <1>9

(* The packet has the code of channel k in that conversion where the host  *)
(* looks for it.                                                           *)
Carries(packet, conversion, k, code) ==
    \A i \in 0 .. 2 : packet[p_idx(conversion) + 3 * k + i] = BusByte(code, i)

(* The constants: a packet is its status word and its conversions, each a  *)
(* whole number of registers.                                              *)
LEMMA Sizes ==
    /\ Channels \in Nat \ {0} /\ Samples \in Nat \ {0} /\ PkgTotal \in Nat \ {0}
    /\ SampleBytes \in Nat \ {0} /\ SampleBytes = 3 * Channels
    /\ SampleBytes = 4 * (SampleBytes \div 4) /\ SampleBytes \div 4 \in Int
    /\ Samples * SampleBytes \in Nat \ {0}
    /\ PkgSize \in Nat /\ PkgSize = 4 + Samples * SampleBytes
<1>1. Channels \in Nat \ {0} /\ Samples \in Nat \ {0} /\ PkgTotal \in Nat \ {0}
      /\ SampleBytes % 4 = 0
  BY LayoutAssumption
<1>2. SampleBytes \in Nat \ {0} /\ SampleBytes = 3 * Channels
  BY <1>1 DEF SampleBytes
<1>3. SampleBytes = 4 * (SampleBytes \div 4) + (SampleBytes % 4) /\ SampleBytes \div 4 \in Int
  BY <1>2, DivFour
<1>4. Samples * SampleBytes \in Nat \ {0}
  BY <1>1, <1>2, Z3
<1>5. PkgSize = 4 + Samples * SampleBytes
  BY DEF PkgSize
<1> QED BY <1>1, <1>2, <1>3, <1>4, <1>5

(* PRU1 writes a byte of a conversion, register by register, to the place  *)
(* in the packet the host reads it from; no place is in the status word.   *)
LEMMA Addresses ==
    ASSUME NEW conversion \in 0 .. Samples - 1, NEW k \in 0 .. Channels - 1, NEW i \in 0 .. 2
    PROVE  /\ p_idx(conversion) + 3 * k + i \in 4 .. PkgSize - 1
           /\ DataByte(conversion, 3 * k + i) = p_idx(conversion) + 3 * k + i
<1> DEFINE pos == 3 * k + i
           S == SampleBytes
<1>1. pos \in 0 .. S - 1
  BY Sizes
<1>2. conversion * S \in Nat /\ conversion * S + S <= Samples * S
  <2>1. conversion \in Int /\ conversion < Samples /\ conversion >= 0
    BY Sizes
  <2>2. conversion * S + S <= Samples * S
    BY <2>1, Sizes, MulLess
  <2>3. conversion * S \in Int /\ conversion * S >= 0
    BY <2>1, Sizes, Z3
  <2> QED BY <2>2, <2>3
<1>3. p_idx(conversion) = 4 + conversion * S
  BY DEF p_idx
<1>4. p_idx(conversion) + 3 * k + i = p_idx(conversion) + pos
  BY <1>2, <1>3, Sizes
<1>5. p_idx(conversion) + pos \in 4 .. PkgSize - 1
  <2> HIDE DEF pos, S
  <2> QED BY <1>1, <1>2, <1>3, Sizes DEF S
<1>6. DataByte(conversion, pos) = p_idx(conversion) + pos
  <2> DEFINE T == S \div 4
             d == pos \div 4
             m == pos % 4
  <2>1. pos = 4 * d + m /\ d \in Int /\ m \in Int
    <3> HIDE DEF pos, S
    <3>1. pos \in Int
      BY <1>1, Sizes DEF S
    <3> QED BY <3>1, DivFour
  <2>2. T \in Int /\ S = 4 * T
    BY Sizes
  <2>3. DataByte(conversion, pos) = 4 * ((2 + conversion * T + d) - 1) + m
    BY DEF DataByte, RegByte
  <2> HIDE DEF pos, S, T, d, m
  <2>4. conversion * S = 4 * (conversion * T) /\ conversion * T \in Int
    BY <2>2, Sizes, Z3
  <2> DEFINE cT == conversion * T
  <2>5. 4 * ((2 + cT + d) - 1) = 4 + 4 * cT + 4 * d
    <3>1. cT \in Int
      BY <2>4
    <3> HIDE DEF cT
    <3> QED BY <3>1, <2>1
  <2> QED BY <2>1, <2>3, <2>4, <2>5, <1>3, <1>2
<1> QED BY <1>4, <1>5, <1>6

(* No two bytes of a packet have the same place.                           *)
LEMMA DistinctAddresses ==
    ASSUME NEW x \in 0 .. Samples - 1, NEW k \in 0 .. Channels - 1, NEW i \in 0 .. 2,
           NEW y \in 0 .. Samples - 1, NEW l \in 0 .. Channels - 1, NEW m \in 0 .. 2,
           p_idx(x) + 3 * k + i = p_idx(y) + 3 * l + m
    PROVE  x = y /\ k = l /\ i = m
<1> DEFINE S == SampleBytes
<1>1. 3 * k + i \in 0 .. S - 1 /\ 3 * l + m \in 0 .. S - 1 /\ S \in Nat \ {0}
  BY Sizes
<1>2. x * S \in Int /\ y * S \in Int
  BY Sizes
<1>3. x * S + (3 * k + i) = y * S + (3 * l + m)
  BY <1>2 DEF p_idx
<1>4. x = y
  <2> HIDE DEF S
  <2>1. x \in Int /\ y \in Int
    OBVIOUS
  <2>2. ~(x < y)
    <3>1. x < y => x * S + S <= y * S
      BY <2>1, <1>1, MulLess
    <3> QED BY <3>1, <1>1, <1>2, <1>3
  <2>3. ~(y < x)
    <3>1. y < x => y * S + S <= x * S
      BY <2>1, <1>1, MulLess
    <3> QED BY <3>1, <1>1, <1>2, <1>3
  <2> QED BY <2>1, <2>2, <2>3
<1>5. 3 * k + i = 3 * l + m
  BY <1>1, <1>2, <1>3, <1>4
<1> QED BY <1>4, <1>5

(* Code the converter delivered for channel k in its conversion n,         *)
(* counted from 0.                                                         *)
Delivered(n, k) == measured[n + 1][k + 1]

(* PRU1 is at work, the host has not begun.                                *)
Receiving == stage \in {"status", "data", "mark"}

(* The registers hold the code of channel k of that conversion already.    *)
Received(conversion, k) ==
    \/ stage = "mark"
    \/ conversion < j
    \/ conversion = j /\ stage = "data" /\ k < c

(* How many conversions and codes have been delivered, and to whom.        *)
Counted ==
    /\ Receiving => Len(ram) < PkgTotal /\ s_idx = 0
    /\ ~Receiving => Len(ram) = PkgTotal
    /\ stage = "status" => Len(measured) = Len(ram) * Samples + j
    /\ stage = "data" => Len(measured) = Len(ram) * Samples + j + 1
    /\ stage = "mark" => Len(measured) = Len(ram) * Samples + Samples /\ j = 0
    /\ ~Receiving => Len(measured) = Len(ram) * Samples
    /\ \A n \in 1 .. Len(measured) :
          Len(measured[n]) = IF stage = "data" /\ n = Len(measured) THEN c ELSE Channels

(* What has been received of the present packet is in the registers.       *)
InRegs ==
    Receiving => \A conversion \in 0 .. Samples - 1, k \in 0 .. Channels - 1 :
        Received(conversion, k) =>
            Carries(regs, conversion, k, Delivered(Len(ram) * Samples + conversion, k))

(* What was received of the packets before is in the memory.               *)
InRam ==
    \A p \in 1 .. Len(ram), conversion \in 0 .. Samples - 1, k \in 0 .. Channels - 1 :
        Carries(ram[p], conversion, k, Delivered((p - 1) * Samples + conversion, k))

(* What the host has converted is in the channel buffers, in order.        *)
InBuffers ==
    \A k \in 0 .. Channels - 1 :
       /\ Len(ch_data[k]) = s_idx
       /\ \A s \in 1 .. s_idx : ch_data[k][s] = Delivered(s - 1, k)

(* A code is in the registers, then in the memory, then in a buffer.       *)
LayoutInv == LayoutTypeOK /\ Counted /\ InRegs /\ InRam /\ InBuffers

(* A conversion of one of n packets is one of the conversions of them      *)
(* all.                                                                    *)
LEMMA Index ==
    ASSUME NEW n \in Nat, NEW p \in 1 .. n, NEW conversion \in 0 .. Samples - 1
    PROVE  /\ (p - 1) * Samples + conversion \in 0 .. n * Samples - 1
           /\ n * Samples \in Nat /\ (n + 1) * Samples = n * Samples + Samples
<1>1. Samples \in Nat \ {0} /\ p - 1 \in Int /\ n \in Int /\ p - 1 < n
  BY Sizes
<1>2. (p - 1) * Samples + Samples <= n * Samples
  BY <1>1, MulLess
<1>3. (p - 1) * Samples \in Int /\ (p - 1) * Samples >= 0
  BY <1>1, Z3
<1>4. n * Samples \in Int /\ (n + 1) * Samples = n * Samples + Samples
  BY <1>1, Z3
<1> QED BY <1>1, <1>2, <1>3, <1>4

(* What the types say of the sequences.                                    *)
LEMMA Types ==
    ASSUME LayoutTypeOK
    PROVE  /\ Len(ram) \in Nat /\ Len(measured) \in Nat /\ Len(ram) * Samples \in Nat
           /\ (Len(ram) + 1) * Samples = Len(ram) * Samples + Samples
           /\ \A n \in 1 .. Len(measured) : measured[n] \in Seq(Code) /\ Len(measured[n]) \in Nat
           /\ \A n \in 1 .. Len(ram) : ram[n] \in PacketBytes
<1>1. Len(ram) \in Nat /\ Len(measured) \in Nat
  BY DEF LayoutTypeOK
<1>2. Len(ram) * Samples \in Nat /\ (Len(ram) + 1) * Samples = Len(ram) * Samples + Samples
  BY <1>1, Sizes, Z3
<1>3. ASSUME NEW n \in 1 .. Len(measured)
      PROVE  measured[n] \in Seq(Code) /\ Len(measured[n]) \in Nat
  <2>1. measured[n] \in Seq(Code)
    BY ElementOfSeq DEF LayoutTypeOK
  <2> QED BY <2>1, LenProperties
<1>4. ASSUME NEW n \in 1 .. Len(ram) PROVE ram[n] \in PacketBytes
  BY ElementOfSeq DEF LayoutTypeOK
<1> QED BY <1>1, <1>2, <1>3, <1>4

(* The invariant holds initially.                                          *)
LEMMA InitInv == LayoutInit => LayoutInv
<1> SUFFICES ASSUME LayoutInit PROVE LayoutInv
  OBVIOUS
<1> USE Sizes DEF LayoutInit
<1>1. <<>> \in Seq(PacketBytes) /\ <<>> \in Seq(Seq(Code)) /\ <<>> \in Seq(Code)
  OBVIOUS
<1>2. regs \in PacketBytes
  BY DEF PacketBytes
<1>3. s_idx \in 0 .. PkgTotal * Samples
  <2>1. PkgTotal * Samples >= 0 /\ PkgTotal * Samples \in Int
    BY Z3
  <2> QED BY <2>1
<1>4. LayoutTypeOK
  BY <1>1, <1>2, <1>3 DEF LayoutTypeOK
<1>5. Counted
  <2>1. 0 * Samples + 0 = 0 /\ Len(ram) = 0 /\ Len(measured) = 0 /\ 0 < PkgTotal
    OBVIOUS
  <2>2. Receiving
    BY DEF Receiving
  <2> QED BY <2>1, <2>2 DEF Counted
<1>6. InRegs
  BY DEF InRegs, Received
<1>7. InRam
  BY DEF InRam
<1>8. InBuffers
  BY DEF InBuffers
<1> QED BY <1>4, <1>5, <1>6, <1>7, <1>8 DEF LayoutInv

(* Packets in the memory keep what they carry while conversions are        *)
(* added.                                                                  *)
LEMMA RamKept ==
    ASSUME LayoutInv, ram' = ram,
           \A n \in 1 .. Len(ram) * Samples : measured'[n] = measured[n]
    PROVE  InRam'
<1> SUFFICES ASSUME NEW p \in 1 .. Len(ram), NEW x \in 0 .. Samples - 1,
                    NEW k \in 0 .. Channels - 1
             PROVE  Carries(ram[p], x, k, measured'[(p - 1) * Samples + x + 1][k + 1])
  BY DEF InRam, Carries, Delivered
<1>1. Len(ram) \in Nat
  BY DEF LayoutInv, LayoutTypeOK
<1>2. (p - 1) * Samples + x \in 0 .. Len(ram) * Samples - 1 /\ Len(ram) * Samples \in Nat
  BY <1>1, Index
<1>3. (p - 1) * Samples + x + 1 \in 1 .. Len(ram) * Samples
  BY <1>2
<1>4. measured'[(p - 1) * Samples + x + 1] = measured[(p - 1) * Samples + x + 1]
  BY <1>3
<1> QED BY <1>4 DEF LayoutInv, InRam, Delivered

(* The buffers are empty until the host begins.                            *)
LEMMA BuffersKept ==
    ASSUME LayoutInv, Receiving, ch_data' = ch_data, s_idx' = s_idx
    PROVE  InBuffers'
<1>1. s_idx = 0
  BY DEF LayoutInv, Counted
<1> QED BY <1>1 DEF LayoutInv, InBuffers

(* A conversion begins with its status word, which only marks the first    *)
(* register: the codes received before stay where they are.                *)
LEMMA StatusStep ==
    ASSUME LayoutInv, GetStatus PROVE LayoutInv'
<1>1. LayoutTypeOK /\ Counted /\ InRegs /\ InRam /\ InBuffers
  BY DEF LayoutInv
<1>2. /\ stage = "status" /\ stage' = "data" /\ c' = 0 /\ j' = j /\ ram' = ram
      /\ s_idx' = s_idx /\ ch_data' = ch_data /\ measured' = Append(measured, <<>>)
  BY DEF GetStatus
<1>3. /\ j \in 0 .. Samples - 1 /\ Receiving /\ s_idx = 0 /\ Len(ram) < PkgTotal
      /\ Len(measured) = Len(ram) * Samples + j
      /\ \A n \in 1 .. Len(measured) : Len(measured[n]) = Channels
  BY <1>1, <1>2 DEF LayoutTypeOK, Counted, Receiving
<1>4. /\ measured' \in Seq(Seq(Code)) /\ Len(measured') = Len(measured) + 1
      /\ \A n \in 1 .. Len(measured) : measured'[n] = measured[n]
      /\ measured'[Len(measured) + 1] = <<>>
  <2>1. <<>> \in Seq(Code) /\ measured \in Seq(Seq(Code))
    BY <1>1 DEF LayoutTypeOK
  <2> QED BY <1>2, <2>1, AppendProperties
<1>5. /\ regs' \in PacketBytes
      /\ \A b \in 4 .. PkgSize - 1 : regs'[b] = regs[b]
  <2>1. regs \in PacketBytes /\ DOMAIN regs = 0 .. PkgSize - 1
    BY <1>1 DEF LayoutTypeOK, PacketBytes
  <2>2. 0 \in Byte
    BY HalfIs DEF Byte
  <2>3. regs' \in PacketBytes
    BY <2>1, <2>2 DEF PacketBytes, GetStatus
  <2>4. ASSUME NEW b \in 4 .. PkgSize - 1 PROVE regs'[b] = regs[b]
    <3>1. b \in DOMAIN regs
      BY <2>1
    <3>2. b # RegByte(1, 0) /\ \A i \in 1 .. 3 : b # RegByte(1, i)
      BY DEF RegByte
    <3> QED BY <3>1, <3>2 DEF GetStatus
  <2> QED BY <2>3, <2>4
<1> DEFINE base == Len(ram) * Samples
<1>6. base \in Nat /\ Len(measured) = base + j /\ Len(measured) \in Nat
  BY <1>1, <1>3, Types
<1> HIDE DEF base
<1>7. LayoutTypeOK'
  BY <1>1, <1>2, <1>4, <1>5, Sizes DEF LayoutTypeOK
<1>8. Counted'
  <2>1. Len(measured') = Len(ram') * Samples + j' + 1
    BY <1>2, <1>4, <1>6, <1>3 DEF base
  <2>2. ASSUME NEW n \in 1 .. Len(measured')
        PROVE  Len(measured'[n]) = IF n = Len(measured') THEN 0 ELSE Channels
    <3>1. CASE n = Len(measured')
      BY <3>1, <1>4
    <3>2. CASE n # Len(measured')
      BY <3>2, <1>3, <1>4, <1>6
    <3> QED BY <3>1, <3>2
  <2> QED BY <2>1, <2>2, <1>2, <1>3 DEF Counted, Receiving
<1>9. InRegs'
  <2> SUFFICES ASSUME NEW x \in 0 .. Samples - 1, NEW k \in 0 .. Channels - 1, Received(x, k)',
                      NEW i \in 0 .. 2
               PROVE  regs'[p_idx(x) + 3 * k + i]
                        = BusByte(measured'[base + x + 1][k + 1], i)
    BY <1>2 DEF InRegs, Carries, Delivered, base
  <2>1. x < j /\ Received(x, k)
    BY <1>2 DEF Received
  <2>2. base + x + 1 \in 1 .. Len(measured)
    BY <2>1, <1>3, <1>6
  <2>3. regs[p_idx(x) + 3 * k + i] = BusByte(measured[base + x + 1][k + 1], i)
    BY <1>1, <1>3, <2>1 DEF InRegs, Carries, Delivered, base
  <2>4. regs'[p_idx(x) + 3 * k + i] = regs[p_idx(x) + 3 * k + i]
    BY <1>5, Addresses
  <2> QED BY <2>2, <2>3, <2>4, <1>4
<1>10. InRam'
  <2>1. \A n \in 1 .. base : measured'[n] = measured[n]
    BY <1>3, <1>4, <1>6
  <2> QED BY <2>1, <1>2, RamKept DEF base
<1>11. InBuffers'
  BY <1>2, <1>3, BuffersKept
<1> QED BY <1>7, <1>8, <1>9, <1>10, <1>11 DEF LayoutInv

(* Three bytes of a channel: its code is received, and no byte of another  *)
(* code is overwritten.                                                    *)
LEMMA ChannelStep ==
    ASSUME LayoutInv, NEW code \in Codes, GetChannel(code) PROVE LayoutInv'
<1>1. LayoutTypeOK /\ Counted /\ InRegs /\ InRam /\ InBuffers
  BY DEF LayoutInv
<1>2. /\ stage = "data" /\ c < Channels /\ stage' = stage /\ c' = c + 1 /\ j' = j
      /\ ram' = ram /\ s_idx' = s_idx /\ ch_data' = ch_data
      /\ measured' = [measured EXCEPT ![Len(measured)] = Append(@, code)]
  BY DEF GetChannel
<1> DEFINE base == Len(ram) * Samples
           L == Len(measured)
<1>3. /\ j \in 0 .. Samples - 1 /\ c \in 0 .. Channels - 1 /\ Receiving /\ s_idx = 0
      /\ Len(ram) < PkgTotal /\ L = base + j + 1 /\ base \in Nat /\ L \in Nat
      /\ \A n \in 1 .. L : Len(measured[n]) = IF n = L THEN c ELSE Channels
  BY <1>1, <1>2, Types, Sizes DEF LayoutTypeOK, Counted, Receiving
<1>4. code \in Code
  BY LayoutAssumption DEF Code
<1>5. /\ L \in 1 .. L /\ measured[L] \in Seq(Code) /\ Len(measured[L]) = c
      /\ Append(measured[L], code) \in Seq(Code)
      /\ Len(Append(measured[L], code)) = c + 1
      /\ \A i \in 1 .. c : Append(measured[L], code)[i] = measured[L][i]
      /\ Append(measured[L], code)[c + 1] = code
  <2> HIDE DEF base
  <2>1. L \in 1 .. L
    BY <1>3
  <2>2. measured[L] \in Seq(Code) /\ Len(measured[L]) = c
    BY <2>1, <1>1, <1>3, Types
  <2> HIDE DEF L
  <2>3. Append(measured[L], code) \in Seq(Code)
    BY <2>2, <1>4, AppendProperties
  <2>4. Len(Append(measured[L], code)) = c + 1
    BY <2>2, <1>4, AppendProperties
  <2>5. \A i \in 1 .. c : Append(measured[L], code)[i] = measured[L][i]
    BY <2>2, <1>4, AppendProperties
  <2>6. Append(measured[L], code)[c + 1] = code
    BY <2>2, <1>4, AppendProperties
  <2> QED BY <2>1, <2>2, <2>3, <2>4, <2>5, <2>6
<1>6. /\ measured' \in Seq(Seq(Code)) /\ Len(measured') = L
      /\ \A n \in 1 .. L : measured'[n] = IF n = L THEN Append(measured[L], code)
                                                   ELSE measured[n]
  <2>1. measured \in Seq(Seq(Code)) /\ L = Len(measured)
    BY <1>1 DEF LayoutTypeOK
  <2> HIDE DEF L, base
  <2>2. measured' = [measured EXCEPT ![L] = Append(measured[L], code)]
    BY <1>2 DEF L
  <2> QED BY <2>1, <2>2, <1>5, ExceptSeq
<1>7. /\ regs' \in PacketBytes
      /\ \A x \in 0 .. Samples - 1, k \in 0 .. Channels - 1, i \in 0 .. 2 :
            regs'[p_idx(x) + 3 * k + i] = IF x = j /\ k = c THEN BusByte(code, i)
                                          ELSE regs[p_idx(x) + 3 * k + i]
  <2>1. regs \in PacketBytes /\ DOMAIN regs = 0 .. PkgSize - 1
    BY <1>1 DEF LayoutTypeOK, PacketBytes
  <2>2. \A i \in 0 .. 2 : BusByte(code, i) \in Byte
    BY <1>4, BusBytes
  <2>3. regs' \in PacketBytes
    <3>1. ASSUME NEW b \in DOMAIN regs, \E i \in 0 .. 2 : b = DataByte(j, 3 * c + i)
          PROVE  (CHOOSE i \in 0 .. 2 : b = DataByte(j, 3 * c + i)) \in 0 .. 2
      BY <3>1
    <3> QED BY <2>1, <2>2, <3>1 DEF PacketBytes, GetChannel
  <2>4. ASSUME NEW x \in 0 .. Samples - 1, NEW k \in 0 .. Channels - 1, NEW i \in 0 .. 2
        PROVE  regs'[p_idx(x) + 3 * k + i] = IF x = j /\ k = c THEN BusByte(code, i)
                                             ELSE regs[p_idx(x) + 3 * k + i]
    <3> DEFINE b == p_idx(x) + 3 * k + i
    <3>1. b \in DOMAIN regs
      <4>1. b \in 4 .. PkgSize - 1
        BY Addresses
      <4> HIDE DEF b
      <4> QED BY <4>1, <2>1, Sizes
    <3>2. ASSUME NEW m \in 0 .. 2, b = DataByte(j, 3 * c + m)
          PROVE  x = j /\ k = c /\ i = m
      <4>1. p_idx(x) + 3 * k + i = p_idx(j) + 3 * c + m
        BY <3>2, <1>3, Addresses
      <4> QED BY <4>1, <1>3, DistinctAddresses
    <3>3. x = j /\ k = c => b = DataByte(j, 3 * c + i)
      BY Addresses
    <3> HIDE DEF b
    <3>4. regs'[b] = IF \E m \in 0 .. 2 : b = DataByte(j, 3 * c + m)
                       THEN BusByte(code, CHOOSE m \in 0 .. 2 : b = DataByte(j, 3 * c + m))
                       ELSE regs[b]
      BY <3>1 DEF GetChannel
    <3>5. CASE x = j /\ k = c
      <4> DEFINE m == CHOOSE m \in 0 .. 2 : b = DataByte(j, 3 * c + m)
      <4>1. \E n \in 0 .. 2 : b = DataByte(j, 3 * c + n)
        BY <3>3, <3>5
      <4>2. m \in 0 .. 2 /\ b = DataByte(j, 3 * c + m)
        BY <4>1
      <4>3. m = i
        BY <4>2, <3>2
      <4> QED BY <4>1, <4>3, <3>4, <3>5 DEF b
    <3>6. CASE ~(x = j /\ k = c)
      <4>1. ~ \E m \in 0 .. 2 : b = DataByte(j, 3 * c + m)
        BY <3>2, <3>6
      <4> QED BY <4>1, <3>4, <3>6 DEF b
    <3> QED BY <3>5, <3>6
  <2> QED BY <2>3, <2>4
<1> HIDE DEF base, L
<1>8. LayoutTypeOK'
  BY <1>1, <1>2, <1>3, <1>6, <1>7, Sizes DEF LayoutTypeOK
<1>9. Counted'
  <2>1. Len(measured') = Len(ram') * Samples + j' + 1
    BY <1>2, <1>3, <1>6 DEF base
  <2>2. ASSUME NEW n \in 1 .. Len(measured')
        PROVE  Len(measured'[n]) = IF n = Len(measured') THEN c' ELSE Channels
    <3>1. CASE n = L
      BY <3>1, <1>2, <1>5, <1>6
    <3>2. CASE n # L
      BY <3>2, <1>3, <1>6
    <3> QED BY <3>1, <3>2
  <2> QED BY <2>1, <2>2, <1>2, <1>3 DEF Counted, Receiving
<1>10. InRegs'
  <2> SUFFICES ASSUME NEW x \in 0 .. Samples - 1, NEW k \in 0 .. Channels - 1, Received(x, k)',
                      NEW i \in 0 .. 2
               PROVE  regs'[p_idx(x) + 3 * k + i]
                        = BusByte(measured'[base + x + 1][k + 1], i)
    BY <1>2 DEF InRegs, Carries, Delivered, base
  <2>1. x < j \/ (x = j /\ k < c) \/ (x = j /\ k = c)
    BY <1>2, <1>3 DEF Received
  <2>2. base + x + 1 \in 1 .. L /\ (x = j <=> base + x + 1 = L)
    BY <2>1, <1>3
  <2>3. CASE x = j /\ k = c
    <3>1. measured'[base + x + 1][k + 1] = code
      BY <2>3, <2>2, <1>5, <1>6
    <3> QED BY <2>3, <3>1, <1>7
  <2>4. CASE ~(x = j /\ k = c)
    <3>1. Received(x, k)
      BY <2>1, <2>4, <1>2 DEF Received
    <3>2. regs[p_idx(x) + 3 * k + i] = BusByte(measured[base + x + 1][k + 1], i)
      BY <3>1, <1>1, <1>3 DEF InRegs, Carries, Delivered, base
    <3>3. measured'[base + x + 1][k + 1] = measured[base + x + 1][k + 1]
      <4>1. CASE x = j
        <5>1. k + 1 \in 1 .. c
          BY <4>1, <2>1, <2>4, <1>3
        <5> QED BY <5>1, <4>1, <2>2, <1>5, <1>6
      <4>2. CASE x # j
        BY <4>2, <2>2, <1>6
      <4> QED BY <4>1, <4>2
    <3> QED BY <2>4, <3>2, <3>3, <1>7
  <2> QED BY <2>3, <2>4
<1>11. InRam'
  <2>1. \A n \in 1 .. base : measured'[n] = measured[n]
    BY <1>3, <1>6
  <2> QED BY <2>1, <1>2, RamKept DEF base
<1>12. InBuffers'
  BY <1>2, <1>3, BuffersKept
<1> QED BY <1>8, <1>9, <1>10, <1>11, <1>12 DEF LayoutInv

(* After the last channel of a conversion the next one is due, or the      *)
(* mark.                                                                   *)
LEMMA ConversionStep ==
    ASSUME LayoutInv, NextConversion PROVE LayoutInv'
<1>1. LayoutTypeOK /\ Counted /\ InRegs /\ InRam /\ InBuffers
  BY DEF LayoutInv
<1>2. /\ stage = "data" /\ c = Channels /\ regs' = regs /\ c' = c /\ ram' = ram
      /\ s_idx' = s_idx /\ ch_data' = ch_data /\ measured' = measured
      /\ \/ j + 1 < Samples /\ stage' = "status" /\ j' = j + 1
         \/ ~(j + 1 < Samples) /\ stage' = "mark" /\ j' = 0
  BY DEF NextConversion
<1> DEFINE base == Len(ram) * Samples
<1>3. /\ j \in 0 .. Samples - 1 /\ Receiving /\ s_idx = 0 /\ Len(ram) < PkgTotal
      /\ Len(measured) = base + j + 1 /\ base \in Nat
      /\ \A n \in 1 .. Len(measured) : Len(measured[n]) = Channels
  BY <1>1, <1>2, Types DEF LayoutTypeOK, Counted, Receiving
<1>4. Samples \in Nat \ {0}
  BY Sizes
<1> HIDE DEF base
<1>5. LayoutTypeOK'
  BY <1>1, <1>2, <1>3, <1>4 DEF LayoutTypeOK
<1>6. Counted'
  <2>1. \/ stage' = "status" /\ Len(measured') = base + j'
        \/ stage' = "mark" /\ Len(measured') = base + Samples /\ j' = 0
    BY <1>2, <1>3, <1>4
  <2> QED BY <2>1, <1>2, <1>3 DEF Counted, Receiving, base
<1>7. InRegs'
  <2> SUFFICES ASSUME NEW x \in 0 .. Samples - 1, NEW k \in 0 .. Channels - 1, Received(x, k)'
               PROVE  Received(x, k)
    BY <1>1, <1>2, <1>3 DEF InRegs, Carries, Delivered
  <2> QED BY <1>2, <1>3, <1>4 DEF Received
<1>8. InRam'
  BY <1>1, <1>2 DEF InRam, Carries, Delivered
<1>9. InBuffers'
  BY <1>2, <1>3, BuffersKept
<1> QED BY <1>5, <1>6, <1>7, <1>8, <1>9 DEF LayoutInv

(* The mark overwrites the status word and no code; the packet is stored.  *)
LEMMA MarkStep ==
    ASSUME LayoutInv, MarkAndStore PROVE LayoutInv'
<1> DEFINE packet == [b \in DOMAIN regs |-> IF b < 4 THEN Marker ELSE regs[b]]
           base == Len(ram) * Samples
<1>1. LayoutTypeOK /\ Counted /\ InRegs /\ InRam /\ InBuffers
  BY DEF LayoutInv
<1>2. /\ stage = "mark" /\ regs' = packet /\ ram' = Append(ram, packet)
      /\ stage' = (IF Len(ram') < PkgTotal THEN "status" ELSE "convert")
      /\ j' = j /\ c' = c /\ s_idx' = s_idx /\ ch_data' = ch_data /\ measured' = measured
  BY DEF MarkAndStore
<1>3. /\ j = 0 /\ Receiving /\ s_idx = 0 /\ Len(ram) < PkgTotal /\ Len(ram) \in Nat
      /\ Len(measured) = base + Samples /\ base \in Nat
      /\ (Len(ram) + 1) * Samples = base + Samples
      /\ \A n \in 1 .. Len(measured) : Len(measured[n]) = Channels
  BY <1>1, <1>2, Types DEF LayoutTypeOK, Counted, Receiving
<1>4. /\ packet \in PacketBytes
      /\ \A b \in 4 .. PkgSize - 1 : packet[b] = regs[b]
  <2>1. regs \in PacketBytes /\ DOMAIN regs = 0 .. PkgSize - 1 /\ PkgSize \in Nat
    BY <1>1, Sizes DEF LayoutTypeOK, PacketBytes
  <2> QED BY <2>1 DEF PacketBytes
<1> HIDE DEF packet, base
<1>5. /\ ram' \in Seq(PacketBytes) /\ Len(ram') = Len(ram) + 1
      /\ \A p \in 1 .. Len(ram) : ram'[p] = ram[p]
      /\ ram'[Len(ram) + 1] = packet
  <2>1. ram \in Seq(PacketBytes)
    BY <1>1 DEF LayoutTypeOK
  <2> QED BY <2>1, <1>2, <1>4, AppendProperties
<1>6. LayoutTypeOK'
  BY <1>1, <1>2, <1>3, <1>4, <1>5, Sizes DEF LayoutTypeOK
<1>7. Counted'
  <2>1. Len(ram') * Samples = base + Samples
    BY <1>3, <1>5
  <2>2. CASE Len(ram') < PkgTotal
    BY <2>1, <2>2, <1>2, <1>3 DEF Counted, Receiving
  <2>3. CASE ~(Len(ram') < PkgTotal)
    <3>1. Len(ram') = PkgTotal /\ stage' = "convert"
      BY <2>3, <1>2, <1>3, <1>5, Sizes
    <3> QED BY <3>1, <2>1, <1>2, <1>3 DEF Counted, Receiving
  <2> QED BY <2>2, <2>3
<1>8. ASSUME NEW x \in 0 .. Samples - 1, NEW k \in 0 .. Channels - 1
      PROVE  Carries(packet, x, k, measured[base + x + 1][k + 1])
  <2>1. \A i \in 0 .. 2 : regs[p_idx(x) + 3 * k + i] = BusByte(measured[base + x + 1][k + 1], i)
    BY <1>1, <1>2, <1>3 DEF InRegs, Received, Carries, Delivered, base
  <2>2. \A i \in 0 .. 2 : packet[p_idx(x) + 3 * k + i] = regs[p_idx(x) + 3 * k + i]
    BY <1>4, Addresses
  <2> QED BY <2>1, <2>2 DEF Carries
<1>9. InRegs'
  BY <1>2, <1>3 DEF InRegs, Received, Receiving
<1>10. InRam'
  <2> SUFFICES ASSUME NEW p \in 1 .. Len(ram'), NEW x \in 0 .. Samples - 1,
                      NEW k \in 0 .. Channels - 1
               PROVE  Carries(ram'[p], x, k, measured[(p - 1) * Samples + x + 1][k + 1])
    BY <1>2 DEF InRam, Carries, Delivered
  <2>1. CASE p \in 1 .. Len(ram)
    BY <2>1, <1>1, <1>5 DEF InRam, Delivered
  <2>2. CASE p = Len(ram) + 1
    <3>1. (p - 1) * Samples + x + 1 = base + x + 1
      <4>1. p - 1 = Len(ram)
        BY <2>2, <1>3
      <4> QED BY <4>1 DEF base
    <3> QED BY <3>1, <2>2, <1>5, <1>8
  <2>3. p \in 1 .. Len(ram) \/ p = Len(ram) + 1
    BY <1>3, <1>5
  <2> QED BY <2>1, <2>2, <2>3
<1>11. InBuffers'
  BY <1>2, <1>3, BuffersKept
<1> QED BY <1>6, <1>7, <1>9, <1>10, <1>11 DEF LayoutInv

(* The value the host computes is the code the packet carries.             *)
LEMMA SampleCarried ==
    ASSUME LayoutInv, NEW packet, NEW x \in 0 .. Samples - 1, NEW k \in 0 .. Channels - 1,
           NEW code \in Code, Carries(packet, x, k, code)
    PROVE  LET at == p_idx(x) + 3 * k
           IN  Value(packet[at], packet[at + 1], packet[at + 2]) = code
<1> DEFINE at == p_idx(x) + 3 * k
<1>1. at + 0 = at
  <2>1. p_idx(x) \in Int
    BY Sizes DEF p_idx
  <2> QED BY <2>1
<1>2. /\ packet[at] = BusByte(code, 0) /\ packet[at + 1] = BusByte(code, 1)
      /\ packet[at + 2] = BusByte(code, 2)
  <2>1. 0 \in 0 .. 2 /\ 1 \in 0 .. 2 /\ 2 \in 0 .. 2
    OBVIOUS
  <2>2. /\ packet[at + 0] = BusByte(code, 0) /\ packet[at + 1] = BusByte(code, 1)
        /\ packet[at + 2] = BusByte(code, 2)
    BY <2>1 DEF Carries
  <2> QED BY <2>2, <1>1
<1> QED BY <1>2, RoundTrip

(* One sample of every channel is converted, of the packet and conversion  *)
(* that are next.                                                          *)
LEMMA ConvertStep ==
    ASSUME LayoutInv, Convert PROVE LayoutInv'
<1> DEFINE p == s_idx \div Samples + 1
           x == s_idx % Samples
           from == ram[p]
           at(k) == p_idx(x) + 3 * k
           value(k) == Value(from[at(k)], from[at(k) + 1], from[at(k) + 2])
<1>1. LayoutTypeOK /\ Counted /\ InRegs /\ InRam /\ InBuffers
  BY DEF LayoutInv
<1>2. /\ stage = "convert" /\ s_idx < PkgTotal * Samples
      /\ ch_data' = [k \in DOMAIN ch_data |-> Append(ch_data[k], value(k))]
      /\ s_idx' = s_idx + 1 /\ stage' \in {"convert", "done"}
      /\ regs' = regs /\ j' = j /\ c' = c /\ ram' = ram /\ measured' = measured
  BY DEF Convert
<1>3. /\ ~Receiving /\ Len(ram) = PkgTotal /\ Len(measured) = PkgTotal * Samples
      /\ \A n \in 1 .. Len(measured) : Len(measured[n]) = Channels
  BY <1>1, <1>2 DEF Counted, Receiving
<1>4. s_idx \in Nat /\ PkgTotal * Samples \in Nat /\ ch_data \in [0 .. Channels - 1 -> Seq(Code)]
  <2>1. PkgTotal * Samples \in Nat
    BY <1>1, <1>3, Types
  <2> QED BY <2>1, <1>1 DEF LayoutTypeOK
<1>5. /\ p \in 1 .. Len(ram) /\ x \in 0 .. Samples - 1
      /\ (p - 1) * Samples + x + 1 = s_idx + 1 /\ s_idx + 1 \in 1 .. Len(measured)
  <2> DEFINE d == s_idx \div Samples
  <2>1. d \in Int /\ x \in 0 .. Samples - 1 /\ s_idx = Samples * d + x
    BY <1>4, Sizes, DivMod
  <2> DEFINE m == d * Samples
             total == PkgTotal * Samples
  <2>a. m \in Int /\ m <= s_idx /\ s_idx < m + Samples /\ total \in Nat /\ s_idx < total
    <3>1. d * Samples = Samples * d /\ d * Samples \in Int /\ Samples \in Nat
      BY <2>1, Sizes
    <3> HIDE DEF d, x
    <3> QED BY <3>1, <2>1, <1>2, <1>4
  <2>2. d < PkgTotal
    <3>1. ASSUME ~(d < PkgTotal) PROVE total <= m
      <4>1. PkgTotal = d \/ PkgTotal < d
        BY <3>1, <2>1, Sizes
      <4>2. ASSUME PkgTotal < d PROVE total + Samples <= m
        <5>1. Samples \in Nat /\ PkgTotal \in Int /\ d \in Int
          BY <2>1, Sizes
        <5> HIDE DEF d
        <5> QED BY <4>2, <5>1, MulLess
      <4>3. PkgTotal = d => total = m
        OBVIOUS
      <4>4. Samples \in Nat
        BY Sizes
      <4> HIDE DEF d, m, total
      <4> QED BY <4>1, <4>2, <4>3, <4>4, <2>a
    <3> HIDE DEF d, m, total
    <3> QED BY <3>1, <2>a, <1>4
  <2>3. 0 <= d
    <3>1. ASSUME d < 0 PROVE m + Samples <= 0
      <4>1. d * Samples + Samples <= 0 * Samples /\ 0 * Samples = 0
        BY <3>1, <2>1, Sizes, MulLess
      <4> QED BY <4>1
    <3>2. Samples \in Nat
      BY Sizes
    <3>3. d \in Int
      BY <2>1
    <3> HIDE DEF d, m, total
    <3> QED BY <3>1, <3>2, <3>3, <2>a, <1>4
  <2>4. p = d + 1 /\ p - 1 = d
    BY <2>1
  <2>5. (p - 1) * Samples + x + 1 = s_idx + 1
    <3>1. d * Samples = Samples * d /\ d * Samples \in Int
      BY <2>1, Sizes
    <3> HIDE DEF d, x, p
    <3> QED BY <3>1, <2>1, <2>4
  <2> HIDE DEF d, x, p
  <2> QED BY <2>1, <2>2, <2>3, <2>4, <2>5, <1>2, <1>3, <1>4, Sizes
<1> HIDE DEF p, x
<1>6. ASSUME NEW k \in 0 .. Channels - 1
      PROVE  value(k) = measured[s_idx + 1][k + 1] /\ measured[s_idx + 1][k + 1] \in Code
  <2>1. k + 1 \in 1 .. Channels
    BY Sizes
  <2>2. measured[s_idx + 1] \in Seq(Code) /\ Len(measured[s_idx + 1]) = Channels
    BY <1>1, <1>3, <1>5, Types
  <2>3. measured[s_idx + 1][k + 1] \in Code
    BY <2>1, <2>2, ElementOfSeq
  <2>4. Carries(from, x, k, measured[s_idx + 1][k + 1])
    BY <1>1, <1>5 DEF InRam, Delivered
  <2> HIDE DEF from
  <2> QED BY <2>3, <2>4, <1>5, SampleCarried
<1>7. ASSUME NEW k \in 0 .. Channels - 1
      PROVE  /\ ch_data'[k] \in Seq(Code) /\ Len(ch_data'[k]) = s_idx + 1
             /\ \A s \in 1 .. s_idx : ch_data'[k][s] = ch_data[k][s]
             /\ ch_data'[k][s_idx + 1] = measured[s_idx + 1][k + 1]
  <2> HIDE DEF value
  <2>1. ch_data[k] \in Seq(Code) /\ Len(ch_data[k]) = s_idx
    BY <1>1, <1>4 DEF InBuffers
  <2>2. ch_data'[k] = Append(ch_data[k], value(k)) /\ value(k) \in Code
    BY <1>2, <1>4, <1>6
  <2> QED BY <2>1, <2>2, <1>6, AppendProperties
<1>8. LayoutTypeOK'
  <2>1. ch_data' \in [0 .. Channels - 1 -> Seq(Code)]
    <3> HIDE DEF value
    <3>1. DOMAIN ch_data = 0 .. Channels - 1
      BY <1>4
    <3>2. \A k \in 0 .. Channels - 1 : Append(ch_data[k], value(k)) \in Seq(Code)
      BY <1>7, <1>2, <3>1
    <3> QED BY <3>1, <3>2, <1>2
  <2> QED BY <2>1, <1>1, <1>2, <1>4 DEF LayoutTypeOK
<1>9. Counted'
  <2>1. stage' \notin {"status", "data", "mark"} /\ stage \notin {"status", "data", "mark"}
    BY <1>2
  <2> QED BY <2>1, <1>1, <1>2 DEF Counted, Receiving
<1>10. InRegs'
  <2>1. ~Receiving'
    BY <1>2 DEF Receiving
  <2> QED BY <2>1 DEF InRegs
<1>11. InRam'
  BY <1>1, <1>2 DEF InRam, Carries, Delivered
<1>12. InBuffers'
  <2> SUFFICES ASSUME NEW k \in 0 .. Channels - 1
               PROVE  /\ Len(ch_data'[k]) = s_idx + 1
                      /\ \A s \in 1 .. s_idx + 1 : ch_data'[k][s] = measured[s - 1 + 1][k + 1]
    BY <1>2 DEF InBuffers, Delivered
  <2>1. ASSUME NEW s \in 1 .. s_idx + 1
        PROVE  ch_data'[k][s] = measured[s - 1 + 1][k + 1]
    <3>1. CASE s \in 1 .. s_idx
      <4>1. ch_data[k][s] = measured[s - 1 + 1][k + 1]
        BY <3>1, <1>1 DEF InBuffers, Delivered
      <4> QED BY <4>1, <3>1, <1>7
    <3>2. CASE s = s_idx + 1
      <4>1. s - 1 + 1 = s_idx + 1
        BY <3>2, <1>4
      <4> QED BY <4>1, <3>2, <1>7
    <3> QED BY <3>1, <3>2, <1>4
  <2> QED BY <2>1, <1>7
<1> QED BY <1>8, <1>9, <1>10, <1>11, <1>12 DEF LayoutInv

(* Every step keeps the invariant.                                         *)
LEMMA LayoutInvStep ==
    ASSUME LayoutInv, [LayoutNext]_layoutVars PROVE LayoutInv'
<1>1. CASE UNCHANGED layoutVars
  BY <1>1 DEF layoutVars, LayoutInv, LayoutTypeOK, Counted, InRegs, InRam, InBuffers,
              Receiving, Received, Delivered, Carries
<1>2. CASE LayoutNext
  BY <1>1, <1>2, StatusStep, ChannelStep, ConversionStep, MarkStep, ConvertStep
     DEF LayoutNext, Finished
<1> QED BY <1>1, <1>2

(* Type correctness: the registers, the packets in DDR and the channel     *)
(* buffers only hold bytes and codes (mainloop of ads131e08s_pru1.asm,     *)
(* ConvertRawValues).                                                      *)
THEOREM LayoutTypes == LayoutSpec => []LayoutTypeOK
<1>1. LayoutInv => LayoutTypeOK
  BY DEF LayoutInv
<1> QED BY <1>1, InitInv, LayoutInvStep, PTL DEF LayoutSpec

(* Every sample of every channel that the host has converted is the code   *)
(* the converter delivered for that channel in that conversion, whatever   *)
(* the codes are: 24-bit ones with a sign, cut into bytes by the bus,      *)
(* received in the registers of PRU1 (ADS_GET_DATA24), marked, stored in   *)
(* DDR and put together again by the host (ConvertRawValues).              *)
THEOREM SamplesArrive == LayoutSpec => []SamplesFaithful
<1>1. LayoutInv => SamplesFaithful
  <2> SUFFICES ASSUME LayoutInv, NEW k \in 0 .. Channels - 1, NEW s \in 1 .. s_idx
               PROVE  ch_data[k][s] = measured[s][k + 1]
    BY DEF SamplesFaithful
  <2>1. s - 1 + 1 = s
    BY DEF LayoutInv, LayoutTypeOK
  <2> QED BY <2>1 DEF LayoutInv, InBuffers, Delivered
<1> QED BY <1>1, InitInv, LayoutInvStep, PTL DEF LayoutSpec

-----------------------------------------------------------------------------
(* Windows, zero crossings and harmonics                                   *)

(* A waveform as far as the search looks at it: the sign of each sample.   *)
Signs == [WindowAt -> {-1, 0, 1}]

(* The search in s has ended: negative samples up to up, then positive     *)
(* ones, up to one that is neither or to the end of the window.            *)
Scanned(s) ==
    \E up \in 0 .. zero[s] :
       /\ \A k \in 0 .. up - 1 : wf[s][k] < 0
       /\ wf[s][up] >= 0 \/ up = WindowLength - 1
       /\ \A k \in up .. zero[s] - 1 : wf[s][k] > 0
       /\ wf[s][zero[s]] <= 0 \/ zero[s] = WindowLength - 1

(* The samples the first loop has passed are negative.                     *)
Below(s) == \A k \in 0 .. zero[s] - 1 : wf[s][k] < 0

(* The first loop stopped at up, and the samples the second loop has       *)
(* passed since are positive.                                              *)
Above(s) ==
    \E up \in 0 .. zero[s] :
       /\ \A k \in 0 .. up - 1 : wf[s][k] < 0
       /\ wf[s][up] >= 0 \/ up = WindowLength - 1
       /\ \A k \in up .. zero[s] - 1 : wf[s][k] > 0

(* Where the two searches are; the second begins when the first has        *)
(* ended.                                                                  *)
SearchInv ==
    /\ zero \in [1 .. 2 -> WindowAt]
    /\ job[1] \in {"below", "above", "copy"} => wf \in [1 .. 2 -> Signs]
    /\ \A s \in 1 .. 2 : job = <<"below", s>> \/ job = <<"above", s>> =>
          IF s = 1 THEN zero[2] = 0 ELSE Scanned(1)
    /\ \A s \in 1 .. 2 : job = <<"below", s>> => Below(s)
    /\ \A s \in 1 .. 2 : job = <<"above", s>> => Above(s)
    /\ job = <<"copy">> => Scanned(1) /\ Scanned(2)

(* The channels of the measurement.                                        *)
Channel == 0 .. Inputs_I - 1

(* Every sample of the second has been scaled n times.                     *)
Scaled(n) == samples = [channel \in Channel |-> [i \in 0 .. Fsample - 1 |-> n]]

(* The odd harmonics of cycle i, of its own samples, scaled once.          *)
HarmonicsOf(i) ==
    [k \in 0 .. DftPoints - 1 |->
       [bin |-> 2 * k + 1, over |-> Points * i .. Points * (i + 1) - 1, scaled |-> {1}]]

(* A channel has the harmonics of the first n cycles, in order.            *)
CyclesDone(channel, n) == dft[channel] = [i \in 1 .. n |-> HarmonicsOf(i - 1)]

(* How far metrology is: channels before the present one have all their    *)
(* cycles, the present one has those up to i, the later ones have none.    *)
HarmonicsInv ==
    /\ job[1] \in {"ready", "sampled", "harmonics"} =>
          coeff = [b \in 0 .. Points - 1 |-> b]
    /\ job = <<"idle">> => dft = <<>>
    /\ job = <<"sampled">> => Scaled(0)
    /\ job = <<"ready">> /\ dft # <<>> =>
          DOMAIN dft = Channel /\ \A channel \in Channel : CyclesDone(channel, Fdtm)
    /\ \A at \in Channel, i \in 0 .. Fdtm - 1 : job = <<"harmonics", at, i>> =>
          /\ Scaled(1) /\ DOMAIN dft = Channel
          /\ \A channel \in Channel :
                CyclesDone(channel, IF channel < at THEN Fdtm ELSE IF channel = at THEN i ELSE 0)

(* Searches, copies and harmonics.                                         *)
WaveInv == SearchInv /\ SamePhase /\ DifferenceWithin /\ CopyAround /\ HarmonicsInv

(* The constants.                                                          *)
LEMMA WaveSizes ==
    /\ HalfWindow \in Nat \ {0} /\ OutSamples \in Nat /\ Spare \subseteq Nat
    /\ Points \in Nat \ {0} /\ Fdtm \in Nat \ {0} /\ Fsample = Points * Fdtm
    /\ DftPoints \in Nat \ {0} /\ 2 * DftPoints <= Points /\ Inputs_I \in Nat \ {0}
    /\ Fsample \in Nat \ {0} /\ WindowLength = 2 * HalfWindow /\ WindowLength \in Nat \ {0}
    /\ WindowAt = 0 .. WindowLength - 1
<1>1. Points \in Nat \ {0} /\ Fdtm \in Nat \ {0} /\ Fsample = Points * Fdtm
  BY WaveformAssumption
<1>2. Fsample \in Nat \ {0}
  BY <1>1, Z3
<1> QED BY <1>2, WaveformAssumption DEF WindowLength, WindowAt

(* Numbers that differ by a multiple of T leave the same rest.             *)
LEMMA SameRest ==
    ASSUME NEW T \in Nat \ {0}, NEW a \in Int, NEW q \in Int
    PROVE  (q * T + a) % T = a % T
<1> DEFINE n == a \div T
           r == a % T
<1>1. n \in Int /\ r \in 0 .. T - 1 /\ a = T * n + r
  BY DivMod
<1> HIDE DEF n, r
<1>2. q * T + a = (q + n) * T + r
  BY <1>1, Z3
<1>3. q + n \in Int
  BY <1>1
<1>4. ((q + n) * T + r) % T = r
  BY <1>1, <1>3, DivUnique
<1>5. (q * T + a) % T = r
  BY <1>2, <1>4
<1> QED BY <1>5 DEF r

(* A turn more leaves the same rest.                                       *)
LEMMA TurnRest ==
    ASSUME NEW T \in Nat \ {0}, NEW a \in Int, NEW b \in Int, b = a + T
    PROVE  b % T = a % T
<1>1. b = 1 * T + a /\ 1 \in Int
  OBVIOUS
<1>2. (1 * T + a) % T = a % T
  BY <1>1, SameRest, Zenon
<1> QED BY <1>1, <1>2

(* A number below T is its own rest.                                       *)
LEMMA OwnRest ==
    ASSUME NEW T \in Nat \ {0}, NEW r \in 0 .. T - 1
    PROVE  r % T = r
<1>1. 0 * T + r = r /\ 0 \in Int
  OBVIOUS
<1>2. (0 * T + r) % T = r
  BY <1>1, DivUnique, Zenon
<1> QED BY <1>1, <1>2

(* The rest of a sum is that of the rest and the other summand.            *)
LEMMA RestOfSum ==
    ASSUME NEW T \in Nat \ {0}, NEW a \in Int, NEW b \in Int, NEW y \in Int, y = a + b
    PROVE  ((a % T) + b) % T = y % T
<1> DEFINE n == a \div T
           r == a % T
<1>1. n \in Int /\ r \in 0 .. T - 1 /\ a = T * n + r
  BY DivMod
<1> HIDE DEF n, r
<1>2. y = n * T + (r + b) /\ r + b \in Int
  BY <1>1, Z3
<1>3. (n * T + (r + b)) % T = (r + b) % T
  BY <1>1, <1>2, SameRest
<1> QED BY <1>2, <1>3 DEF r

(* Numbers with the same rest differ by a multiple.                        *)
LEMMA RestOfDifference ==
    ASSUME NEW T \in Nat \ {0}, NEW a \in Int, NEW b \in Int, a % T = b % T,
           NEW y \in Int
    PROVE  (b - a + y) % T = y % T
<1> DEFINE m == a \div T
           n == b \div T
           r == a % T
<1>1. m \in Int /\ n \in Int /\ r \in Int /\ a = T * m + r /\ b = T * n + r
  BY DivMod
<1> HIDE DEF m, n, r
<1>2. b - a + y = (n - m) * T + y /\ n - m \in Int
  BY <1>1, Z3
<1> QED BY <1>2, SameRest

(* The invariant holds initially.                                          *)
LEMMA WaveInvInit == WaveInit => WaveInv
<1> SUFFICES ASSUME WaveInit PROVE WaveInv
  OBVIOUS
<1>1. SearchInv
  <2>1. zero \in [1 .. 2 -> WindowAt]
    BY WaveSizes DEF WaveInit
  <2> QED BY <2>1 DEF WaveInit, SearchInv
<1>2. SamePhase /\ DifferenceWithin
  BY DEF WaveInit, SamePhase, DifferenceWithin
<1>3. CopyAround
  BY DEF WaveInit, CopyAround
<1>4. HarmonicsInv
  BY DEF WaveInit, HarmonicsInv
<1> QED BY <1>1, <1>2, <1>3, <1>4 DEF WaveInv

(* A step that ends no search says nothing about one.                      *)
LEMMA NoSearch ==
    ASSUME SearchInv, zero' = zero, job'[1] \notin {"below", "above", "copy"}
    PROVE  SearchInv'
  BY DEF SearchInv

(* A step of the search or of a copy says nothing about harmonics.         *)
LEMMA NoHarmonics ==
    ASSUME job'[1] \notin {"idle", "ready", "sampled", "harmonics"}
    PROVE  HarmonicsInv'
  BY DEF HarmonicsInv

(* Nor does a step that makes no waveform say what one is.                 *)
LEMMA NoResult ==
    ASSUME job'[1] \notin {"diff", "copied"}
    PROVE  SamePhase' /\ DifferenceWithin' /\ CopyAround'
  BY DEF SamePhase, DifferenceWithin, CopyAround

(* A search begins at 0, in the loop that the first sample asks for.       *)
LEMMA LoopStarts ==
    ASSUME NEW s \in 1 .. 2, wf' \in [1 .. 2 -> Signs], zero' \in [1 .. 2 -> WindowAt],
           zero'[s] = 0, job' = Loop(s, wf'[s]), s = 1 => zero'[2] = 0,
           s = 2 => Scanned(1)'
    PROVE  SearchInv' /\ job'[1] \in {"below", "above"}
<1>1. wf'[s] \in Signs /\ 0 \in WindowAt /\ WindowLength \in Nat
  BY WaveSizes
<1>2. wf'[s][0] \in Int
  BY <1>1 DEF Signs
<1>3. job' = <<"below", s>> \/ (job' = <<"above", s>> /\ wf'[s][0] >= 0)
  BY <1>2 DEF Loop
<1>4. Below(s)'
  BY DEF Below
<1>5. job' = <<"above", s>> => Above(s)'
  <2> SUFFICES ASSUME wf'[s][0] >= 0 PROVE Above(s)'
    BY <1>3
  <2>1. 0 \in 0 .. zero'[s]
    OBVIOUS
  <2> QED BY <2>1 DEF Above
<1> QED BY <1>3, <1>4, <1>5 DEF SearchInv

(* WaveformDiff begins the search in the first waveform.                   *)
LEMMA DiffStarts ==
    ASSUME WaveInv, NEW prior \in Voltages, NEW current \in Voltages, WaveformDiff(prior, current)
    PROVE  WaveInv'
<1>1. wf' = <<prior, current>> /\ zero' = <<0, 0>> /\ job' = Loop(1, prior)
  BY DEF WaveformDiff
<1>2. wf' \in [1 .. 2 -> Signs] /\ wf'[1] = prior
  BY <1>1, WindowAssumption DEF Signs
<1>3. zero' \in [1 .. 2 -> WindowAt] /\ zero'[1] = 0 /\ zero'[2] = 0
  BY <1>1, WaveSizes
<1>4. SearchInv' /\ job'[1] \in {"below", "above"}
  BY <1>1, <1>2, <1>3, LoopStarts
<1> QED BY <1>4, NoHarmonics, NoResult DEF WaveInv

(* One turn of the first loop.                                             *)
LEMMA BelowStep ==
    ASSUME WaveInv, NEW s \in 1 .. 2, FindZeroBelow(s)
    PROVE  WaveInv'
<1>1. SearchInv /\ job = <<"below", s>> /\ wf' = wf
  BY DEF FindZeroBelow, WaveInv
<1>2. /\ wf \in [1 .. 2 -> Signs] /\ zero \in [1 .. 2 -> WindowAt] /\ Below(s)
      /\ IF s = 1 THEN zero[2] = 0 ELSE Scanned(1)
  BY <1>1 DEF SearchInv
<1>3. zero[s] \in WindowAt /\ wf[s] \in Signs /\ wf[s][zero[s]] \in Int
  BY <1>2 DEF Signs
<1>4. job'[1] \in {"below", "above"}
  BY <1>1 DEF FindZeroBelow
<1>5. SearchInv'
  <2>1. CASE wf[s][zero[s]] < 0 /\ zero[s] + 1 < WindowLength
    <3>1. zero' = [zero EXCEPT ![s] = zero[s] + 1] /\ job' = job
      BY <2>1 DEF FindZeroBelow
    <3>2. zero' \in [1 .. 2 -> WindowAt] /\ zero'[s] = zero[s] + 1
          /\ \A t \in 1 .. 2 : t # s => zero'[t] = zero[t]
      BY <2>1, <3>1, <1>2, <1>3, WaveSizes
    <3>3. Below(s)'
      BY <2>1, <3>2, <1>1, <1>2, <1>3, WaveSizes DEF Below
    <3>4. IF s = 1 THEN zero'[2] = 0 ELSE Scanned(1)'
      BY <3>2, <1>1, <1>2 DEF Scanned
    <3>5. job' = <<"below", s>>
      BY <3>1, <1>1
    <3>6. \A t \in 1 .. 2 : job' = <<"below", t>> => t = s
      BY <3>5
    <3> QED BY <3>2, <3>3, <3>4, <3>5, <3>6, <1>1, <1>2 DEF SearchInv
  <2>2. CASE ~(wf[s][zero[s]] < 0 /\ zero[s] + 1 < WindowLength)
    <3>1. job' = <<"above", s>> /\ zero' = zero
      BY <2>2 DEF FindZeroBelow
    <3>2. wf[s][zero[s]] >= 0 \/ zero[s] = WindowLength - 1
      BY <2>2, <1>3, WaveSizes
    <3>3. zero[s] \in 0 .. zero[s]
      BY <1>3, WaveSizes
    <3>4. Above(s)
      BY <3>2, <3>3, <1>2, <1>3, WaveSizes DEF Above, Below
    <3>5. Above(s)'
      BY <3>1, <3>4, <1>1 DEF Above
    <3>6. IF s = 1 THEN zero'[2] = 0 ELSE Scanned(1)'
      BY <3>1, <1>1, <1>2 DEF Scanned
    <3> QED BY <3>1, <3>5, <3>6, <1>1, <1>2 DEF SearchInv
  <2> QED BY <2>1, <2>2
<1> QED BY <1>4, <1>5, NoHarmonics, NoResult DEF WaveInv

(* One turn of the second loop, after which the other search or the copy   *)
(* begins.                                                                 *)
LEMMA AboveStep ==
    ASSUME WaveInv, NEW s \in 1 .. 2, FindZeroAbove(s)
    PROVE  WaveInv'
<1>1. SearchInv /\ job = <<"above", s>> /\ wf' = wf
  BY DEF FindZeroAbove, WaveInv
<1>2. /\ wf \in [1 .. 2 -> Signs] /\ zero \in [1 .. 2 -> WindowAt] /\ Above(s)
      /\ IF s = 1 THEN zero[2] = 0 ELSE Scanned(1)
  BY <1>1 DEF SearchInv
<1>3. zero[s] \in WindowAt /\ wf[s] \in Signs /\ wf[s][zero[s]] \in Int
  BY <1>2 DEF Signs
<1>4. PICK up \in 0 .. zero[s] :
         /\ \A k \in 0 .. up - 1 : wf[s][k] < 0
         /\ wf[s][up] >= 0 \/ up = WindowLength - 1
         /\ \A k \in up .. zero[s] - 1 : wf[s][k] > 0
  BY <1>2 DEF Above
<1>5. CASE wf[s][zero[s]] > 0 /\ zero[s] + 1 < WindowLength
  <2>1. zero' = [zero EXCEPT ![s] = zero[s] + 1] /\ job' = job
    BY <1>5 DEF FindZeroAbove
  <2>2. zero' \in [1 .. 2 -> WindowAt] /\ zero'[s] = zero[s] + 1
        /\ \A t \in 1 .. 2 : t # s => zero'[t] = zero[t]
    BY <1>5, <2>1, <1>2, <1>3, WaveSizes
  <2>3. Above(s)'
    <3>1. up \in 0 .. zero'[s]
      BY <2>2, <1>3, WaveSizes
    <3>2. \A k \in up .. zero'[s] - 1 : wf[s][k] > 0
      BY <2>2, <1>3, <1>4, <1>5, WaveSizes
    <3> QED BY <3>1, <3>2, <1>1, <1>4 DEF Above
  <2>4. IF s = 1 THEN zero'[2] = 0 ELSE Scanned(1)'
    BY <2>2, <1>1, <1>2 DEF Scanned
  <2>5. job' = <<"above", s>>
    BY <2>1, <1>1
  <2>6. SearchInv'
    BY <2>2, <2>3, <2>4, <2>5, <1>1, <1>2 DEF SearchInv
  <2> QED BY <2>5, <2>6, NoHarmonics, NoResult DEF WaveInv
<1>6. CASE ~(wf[s][zero[s]] > 0 /\ zero[s] + 1 < WindowLength)
  <2>1. zero' = zero /\ job' = IF s = 1 THEN Loop(2, wf[2]) ELSE <<"copy">>
    BY <1>6 DEF FindZeroAbove
  <2>2. Scanned(s)
    <3> DEFINE sign == wf[s][zero[s]]
               at == zero[s]
    <3>1. sign \in Int /\ at \in 0 .. WindowLength - 1 /\ WindowLength \in Nat
          /\ ~(sign > 0 /\ at + 1 < WindowLength)
      BY <1>6, <1>3, WaveSizes
    <3> HIDE DEF sign, at
    <3>2. sign <= 0 \/ at = WindowLength - 1
      BY <3>1
    <3>3. wf[s][zero[s]] <= 0 \/ zero[s] = WindowLength - 1
      BY <3>2 DEF sign, at
    <3> QED BY <3>3, <1>4 DEF Scanned
  <2>3. Scanned(s)'
    BY <2>1, <2>2, <1>1 DEF Scanned
  <2>4. CASE s = 1
    <3>1. SearchInv' /\ job'[1] \in {"below", "above"}
      BY <2>1, <2>3, <2>4, <1>1, <1>2, LoopStarts
    <3> QED BY <3>1, NoHarmonics, NoResult DEF WaveInv
  <2>5. CASE s = 2
    <3>1. Scanned(1)'
      BY <2>1, <2>5, <1>1, <1>2 DEF Scanned
    <3>2. job' = <<"copy">>
      BY <2>1, <2>5
    <3>3. SearchInv'
      BY <2>1, <2>3, <2>5, <3>1, <3>2, <1>1, <1>2 DEF SearchInv
    <3> QED BY <3>2, <3>3, NoHarmonics, NoResult DEF WaveInv
  <2> QED BY <2>4, <2>5
<1> QED BY <1>5, <1>6

(* The search in a wave that comes down ends where it does, unless it      *)
(* stopped at a rise.                                                      *)
LEMMA EndsFalling ==
    ASSUME NEW s \in 1 .. 2, wf[s] \in Signs, zero[s] \in WindowAt, Scanned(s),
           NEW T \in 1 .. WindowLength - 1, \A k \in WindowAt : wf[s][k] = wf[s][k % T],
           NEW f \in 0 .. T - 1, Falls(wf[s], T, f)
    PROVE  Falls(wf[s], T, (zero[s] + T - 1) % T) \/ StoppedRising(s, T)
<1> DEFINE w == wf[s]
           z == zero[s]
<1>1. PICK up \in 0 .. z :
         /\ \A k \in 0 .. up - 1 : w[k] < 0
         /\ w[up] >= 0 \/ up = WindowLength - 1
         /\ \A k \in up .. z - 1 : w[k] > 0
         /\ w[z] <= 0 \/ z = WindowLength - 1
  BY DEF Scanned
<1>2. /\ w \in Signs /\ z \in WindowAt /\ WindowLength \in Nat \ {0} /\ T \in Nat \ {0}
      /\ WindowAt = 0 .. WindowLength - 1 /\ \A k \in WindowAt : w[k] = w[k % T]
  BY WaveSizes
<1>3. \A k \in WindowAt : w[k] \in {-1, 0, 1}
  BY <1>2 DEF Signs
<1>4. w[f] > 0 /\ w[f + 1] <= 0 /\ f \in WindowAt /\ f + 1 \in WindowAt
  <2>1. f \in WindowAt /\ f + 1 \in WindowAt
    BY WaveSizes
  <2>2. w[f] > 0 /\ w[(f + 1) % T] <= 0
    BY DEF Falls
  <2>3. w[f + 1] = w[(f + 1) % T]
    BY <2>1, <1>2
  <2> QED BY <2>1, <2>2, <2>3
<1>5. w[z] = w[z % T]
  BY <1>2
<1>6. (((z + T - 1) % T) + 1) % T = z % T
  <2> HIDE DEF z
  <2>1. z + T - 1 \in Int /\ 1 \in Int /\ z + T \in Int /\ z \in Int
        /\ z + T = (z + T - 1) + 1
    BY <1>2
  <2>2. (((z + T - 1) % T) + 1) % T = (z + T) % T
    BY <1>2, <2>1, RestOfSum, Zenon
  <2>3. (z + T) % T = z % T
    BY <1>2, <2>1, TurnRest, Zenon
  <2> QED BY <2>2, <2>3
<1>7. (z + T - 1) % T \in 0 .. T - 1
  <2>1. z + T - 1 \in Int
    BY <1>2
  <2> QED BY <2>1, <1>2, DivMod
<1> DEFINE before == (z + T - 1) % T
<1>8. w[before] \in {-1, 0, 1}
  BY <1>2, <1>3, <1>7
<1>a. w[z] \in {-1, 0, 1}
  BY <1>2, <1>3
<1>b. up \in Nat /\ z \in Nat /\ up <= z /\ w[up] \in {-1, 0, 1}
  <2> HIDE DEF w, z
  <2>1. up \in Nat /\ z \in Nat /\ up <= z /\ up \in WindowAt
    BY <1>2
  <2> QED BY <2>1, <1>3
<1> HIDE DEF w, z, before
<1>9. w[z] <= 0
  <2>1. ASSUME w[z] > 0 PROVE FALSE
    <3>1. z = WindowLength - 1
      BY <2>1, <1>1, <1>a
    <3>2. f >= up
      <4>1. w[f] \in {-1, 0, 1} /\ f \in Nat
        BY <1>3, <1>4, <1>2
      <4>2. f \in 0 .. up - 1 => w[f] < 0
        BY <1>1
      <4> QED BY <4>1, <4>2, <1>4, <1>b
    <3>3. w[f + 1] > 0
      <4>1. f + 1 \in up .. z - 1 \/ f + 1 = z
        BY <3>1, <3>2, <1>1, <1>2, <1>4
      <4> QED BY <4>1, <2>1, <1>1
    <3> QED BY <3>3, <1>3, <1>4
  <2> QED BY <2>1, <1>a
<1>10. CASE z > up
  <2>1. z - 1 \in up .. z - 1 /\ z - 1 \in WindowAt
    BY <1>1, <1>2, <1>10
  <2>2. w[z - 1] > 0 /\ w[z - 1] = w[(z - 1) % T]
    BY <2>1, <1>1, <1>2
  <2>3. (z - 1) % T = before
    <3>1. z - 1 \in Int /\ z + T - 1 \in Int /\ z + T - 1 = (z - 1) + T
      BY <1>2
    <3>2. (z + T - 1) % T = (z - 1) % T
      BY <3>1, <1>2, TurnRest, Zenon
    <3> QED BY <3>2 DEF before
  <2>4. w[before] > 0 /\ w[(before + 1) % T] <= 0
    BY <2>2, <2>3, <1>5, <1>6, <1>9 DEF before
  <2> QED BY <2>4 DEF Falls, before, w, z
<1>11. CASE z = up
  <2>1. w[z] >= 0
    <3>1. ASSUME w[z] < 0 PROVE FALSE
      <4>1. z = WindowLength - 1
        BY <3>1, <1>1, <1>11, <1>a
      <4>2. f \in 0 .. up - 1 \/ f = up
        BY <4>1, <1>1, <1>4, <1>11, <1>2
      <4>3. w[f] < 0
        BY <4>2, <3>1, <1>1, <1>11
      <4> QED BY <4>3, <1>3, <1>4
    <3> QED BY <3>1, <1>a
  <2>2. w[z] = 0
    BY <2>1, <1>9, <1>a
  <2>3. CASE w[before] > 0
    <3>1. w[(before + 1) % T] <= 0
      BY <1>5, <1>6, <1>9 DEF before
    <3> QED BY <3>1, <2>3 DEF Falls, before, w, z
  <2>4. CASE w[before] <= 0
    BY <2>2, <2>4 DEF StoppedRising, before, w, z
  <2> QED BY <2>3, <2>4, <1>8
<1> QED BY <1>10, <1>11, <1>1, <1>2

(* Two searches in one wave end a multiple of it apart.                    *)
LEMMA ZerosOfWave ==
    ASSUME wf \in [1 .. 2 -> Signs], zero \in [1 .. 2 -> WindowAt],
           Scanned(1), Scanned(2), NEW T \in 1 .. WindowLength - 1, NEW d \in 0 .. T - 1,
           OneWave(T, d), \A s \in 1 .. 2 : ~StoppedRising(s, T)
    PROVE  (zero[1] - 1) % T = (zero[2] - 1 + d) % T
<1>1. /\ T \in Nat \ {0} /\ d \in Int /\ zero[1] \in Int /\ zero[2] \in Int
      /\ zero[1] \in WindowAt /\ zero[2] \in WindowAt /\ wf[1] \in Signs /\ wf[2] \in Signs
      /\ 1 \in 1 .. 2 /\ 2 \in 1 .. 2
  BY WaveSizes
<1>2. /\ \A s \in 1 .. 2, k \in WindowAt : wf[s][k] = wf[s][k % T]
      /\ \A k \in 0 .. T - 1 : wf[2][k] = wf[1][(k + d) % T]
  BY DEF OneWave
<1>3. PICK f \in 0 .. T - 1 : \A i \in 0 .. T - 1 : Falls(wf[1], T, i) <=> i = f
  BY DEF OneWave
<1>4. \A k \in 0 .. T - 1 : (k + 1) % T \in 0 .. T - 1 /\ (k + d) % T \in 0 .. T - 1
  <2>1. \A a \in Int : a % T \in 0 .. T - 1
    BY <1>1, DivMod, Zenon
  <2>2. \A k \in 0 .. T - 1 : k + 1 \in Int /\ k + d \in Int
    BY <1>1
  <2> QED BY <2>1, <2>2
<1>5. ASSUME NEW k \in 0 .. T - 1
      PROVE  Falls(wf[2], T, k) <=> Falls(wf[1], T, (k + d) % T)
  <2> DEFINE n == (k + 1) % T
             at == (k + d) % T
  <2>1. (n + d) % T = (at + 1) % T
    <3> DEFINE a == k + 1
               b == k + d
               y == k + d + 1
    <3>1. /\ a \in Int /\ b \in Int /\ y \in Int /\ 1 \in Int /\ d \in Int
          /\ T \in Nat \ {0}
      BY <1>1
    <3>2. y = a + d
      BY <1>1
    <3>3. y = b + 1
      BY <1>1
    <3> HIDE DEF a, b, y
    <3>4. ((a % T) + d) % T = y % T
      BY <3>1, <3>2, RestOfSum, Zenon
    <3>5. ((b % T) + 1) % T = y % T
      BY <3>1, <3>3, RestOfSum, Zenon
    <3> QED BY <3>4, <3>5 DEF a, b
  <2>2. wf[2][k] = wf[1][at] /\ wf[2][n] = wf[1][(n + d) % T]
    BY <1>2, <1>4
  <2> HIDE DEF at
  <2>3. wf[2][k] = wf[1][at] /\ wf[2][(k + 1) % T] = wf[1][(at + 1) % T]
    BY <2>1, <2>2
  <2>4. Falls(wf[2], T, k) <=> Falls(wf[1], T, at)
    BY <2>3 DEF Falls
  <2> QED BY <2>4 DEF at
<1> DEFINE p1 == (zero[1] + T - 1) % T
           p2 == (zero[2] + T - 1) % T
<1>6. p1 \in 0 .. T - 1 /\ p2 \in 0 .. T - 1
  <2>1. zero[1] + T - 1 \in Int /\ zero[2] + T - 1 \in Int
    BY <1>1
  <2> QED BY <1>1, <2>1, DivMod, Zenon
<1>7. p1 = f
  <2>1. Falls(wf[1], T, f)
    BY <1>3
  <2>2. Falls(wf[1], T, p1)
    BY <2>1, <1>1, <1>2, EndsFalling
  <2> HIDE DEF p1
  <2> QED BY <2>2, <1>3, <1>6
<1>8. (p2 + d) % T = f
  <2> DEFINE g == (f - d) % T
  <2>1. g \in 0 .. T - 1 /\ (g + d) % T = f
    <3>1. f - d \in Int /\ f \in Int /\ f = (f - d) + d
      BY <1>1
    <3>2. (((f - d) % T) + d) % T = f % T
      BY <3>1, <1>1, RestOfSum, Zenon
    <3>3. f % T = f
      BY <1>1, OwnRest, Zenon
    <3>4. (f - d) % T \in 0 .. T - 1
      BY <3>1, <1>1, DivMod, Zenon
    <3> QED BY <3>2, <3>3, <3>4
  <2> HIDE DEF g
  <2>2. Falls(wf[2], T, g)
    BY <2>1, <1>3, <1>5
  <2>3. Falls(wf[2], T, p2)
    BY <2>1, <2>2, <1>1, <1>2, EndsFalling
  <2> HIDE DEF p2
  <2>4. Falls(wf[1], T, (p2 + d) % T)
    BY <2>3, <1>5, <1>6
  <2> QED BY <2>4, <1>3, <1>4, <1>6
<1>9. p1 = (zero[1] - 1) % T
  <2>1. /\ zero[1] - 1 \in Int /\ zero[1] + T - 1 \in Int
        /\ zero[1] + T - 1 = (zero[1] - 1) + T
    BY <1>1
  <2> QED BY <2>1, <1>1, TurnRest, Zenon
<1>10. (p2 + d) % T = (zero[2] - 1 + d) % T
  <2> DEFINE a == zero[2] + T - 1
             b == zero[2] - 1 + d
             y == zero[2] + T - 1 + d
  <2>1. /\ a \in Int /\ b \in Int /\ y \in Int /\ d \in Int /\ T \in Nat \ {0}
    BY <1>1
  <2>2. y = b + T
    BY <1>1
  <2>3. y = a + d
    BY <1>1
  <2> HIDE DEF a, b, y
  <2>4. y % T = b % T
    BY <2>1, <2>2, TurnRest, Zenon
  <2>5. ((a % T) + d) % T = y % T
    BY <2>1, <2>3, RestOfSum, Zenon
  <2> QED BY <2>4, <2>5 DEF a, b
<1> HIDE DEF p1, p2
<1> QED BY <1>7, <1>8, <1>9, <1>10

(* The samples subtracted have the same phase.                             *)
LEMMA DifferenceMade ==
    ASSUME WaveInv, NEW spare \in [1 .. 2 -> Spare], NEW offset12 \in 1 .. 2,
           NEW start_end \in 0 .. 1, DiffSamples(spare, offset12, start_end)
    PROVE  WaveInv'
<1>1. SearchInv /\ job = <<"copy">> /\ job' = <<"diff">> /\ wf' = wf /\ zero' = zero
  BY DEF DiffSamples, WaveInv
<1>2. /\ Scanned(1) /\ Scanned(2) /\ zero \in [1 .. 2 -> WindowAt]
      /\ wf \in [1 .. 2 -> Signs]
  BY <1>1 DEF SearchInv
<1>3. SearchInv' /\ HarmonicsInv'
  BY <1>1, NoSearch, NoHarmonics
<1>4. CopyAround'
  BY <1>1 DEF CopyAround
<1> DEFINE first == [s \in 1 .. 2 |-> zero[s] + (IF start_end = 1 THEN spare[s] ELSE 0)]
           volts == IF offset12 = 2 THEN 2 ELSE 1
           O(k) == [I |-> [s \in 1 .. 2 |-> first[s] + k], V |-> first[volts] + k,
                    of |-> volts, spare |-> spare, end |-> start_end]
<1>5. out' = [k \in 0 .. OutSamples - 1 |-> O(k)]
  BY DEF DiffSamples
<1>6. ASSUME NEW s \in 1 .. 2
      PROVE  /\ first[s] = zero[s] + (IF start_end = 1 THEN spare[s] ELSE 0)
             /\ zero[s] \in WindowAt /\ zero[s] \in Int /\ spare[s] \in Nat /\ first[s] \in Int
             /\ first[s] < spare[s] + WindowLength
  <2>1. zero[s] \in WindowAt /\ spare[s] \in Nat
    BY <1>2, WaveformAssumption
  <2> QED BY <2>1, WaveSizes
<1>7. ASSUME NEW k \in 0 .. OutSamples - 1
      PROVE  /\ O(k).V = O(k).I[O(k).of]
             /\ O(k).I[1] = first[1] + k /\ O(k).I[2] = first[2] + k
             /\ O(k).end = start_end /\ O(k).spare = spare
  <2>1. volts \in 1 .. 2
    OBVIOUS
  <2> HIDE DEF first, volts
  <2> QED BY <2>1
<1> HIDE DEF O, first
<1>8. DOMAIN out' = 0 .. OutSamples - 1 /\ \A k \in 0 .. OutSamples - 1 : out'[k] = O(k)
  BY <1>5
<1>9. DifferenceWithin'
  <2>1. ASSUME NEW k \in 0 .. OutSamples - 1, NEW s \in 1 .. 2
        PROVE  O(k).I[s] < O(k).spare[s] + OutSamples + WindowLength
    <3>1. O(k).I[s] = first[s] + k
      <4>1. s = 1 \/ s = 2
        OBVIOUS
      <4> QED BY <4>1, <1>7
    <3>2. O(k).spare = spare
      BY <1>7
    <3>3. first[s] \in Int /\ first[s] < spare[s] + WindowLength /\ spare[s] \in Nat
      BY <1>6
    <3>4. OutSamples \in Nat /\ WindowLength \in Nat /\ k \in Int /\ k < OutSamples
      BY WaveSizes
    <3> DEFINE x == first[s]
               y == spare[s]
    <3>5. x \in Int /\ x < y + WindowLength /\ y \in Nat
      BY <3>3
    <3>6. O(k).I[s] = x + k /\ O(k).spare[s] = y
      BY <3>1, <3>2
    <3> HIDE DEF x, y
    <3>7. x + k < y + OutSamples + WindowLength
      BY <3>4, <3>5
    <3> QED BY <3>6, <3>7
  <2> QED BY <2>1, <1>7, <1>8, <1>1 DEF DifferenceWithin
<1>10. ASSUME NEW T \in 1 .. WindowLength - 1, NEW d \in 0 .. T - 1,
              NEW k \in 0 .. OutSamples - 1, OneWave(T, d),
              \A s \in 1 .. 2 : ~StoppedRising(s, T)
       PROVE  (O(k).I[2] + d - O(k).I[1]) % T = 0
                 <=> O(k).end = 0 \/ (O(k).spare[2] - O(k).spare[1]) % T = 0
  <2> DEFINE y == spare[2] - spare[1]
             e == IF start_end = 1 THEN y ELSE 0
             a == zero[1] - 1
             b == zero[2] - 1 + d
  <2>1. T \in Nat \ {0} /\ d \in Int /\ a \in Int /\ b \in Int /\ y \in Int /\ e \in Int
    <3>1. zero[1] \in Int /\ zero[2] \in Int /\ spare[1] \in Nat /\ spare[2] \in Nat
      BY <1>6
    <3> QED BY <3>1, WaveSizes
  <2>2. a % T = b % T
    BY <1>2, <1>10, ZerosOfWave
  <2>3. O(k).I[2] + d - O(k).I[1] = b - a + e
    BY <1>6, <1>7, <2>1
  <2>4. (b - a + e) % T = e % T
    <3> HIDE DEF a, b, y, e
    <3> QED BY <2>1, <2>2, RestOfDifference
  <2>5. 0 % T = 0
    <3>1. 0 \in 0 .. T - 1
      BY <2>1
    <3> QED BY <3>1, <2>1, OwnRest, Zenon
  <2>6. (O(k).I[2] + d - O(k).I[1]) % T = e % T
    BY <2>3, <2>4
  <2>7. CASE start_end = 1
    <3>1. e = y /\ O(k).end = 1 /\ O(k).spare[2] - O(k).spare[1] = y
      BY <2>7, <1>7
    <3> HIDE DEF y, e
    <3> QED BY <3>1, <2>6
  <2>8. CASE start_end # 1
    <3>1. e = 0 /\ O(k).end = 0
      BY <2>8, <1>7
    <3> HIDE DEF y, e
    <3> QED BY <3>1, <2>5, <2>6
  <2> QED BY <2>7, <2>8
<1>11. SamePhase'
  <2> SUFFICES ASSUME NEW T \in 1 .. WindowLength - 1, NEW d \in 0 .. T - 1,
                      NEW k \in 0 .. OutSamples - 1, OneWave(T, d)',
                      \A s \in 1 .. 2 : ~StoppedRising(s, T)'
               PROVE  (O(k).I[2] + d - O(k).I[1]) % T = 0
                         <=> O(k).end = 0 \/ (O(k).spare[2] - O(k).spare[1]) % T = 0
    BY <1>8 DEF SamePhase
  <2>1. OneWave(T, d)
    BY <1>1 DEF OneWave, Falls
  <2>2. \A s \in 1 .. 2 : ~StoppedRising(s, T)
    BY <1>1 DEF StoppedRising
  <2> QED BY <2>1, <2>2, <1>10
<1> QED BY <1>3, <1>4, <1>9, <1>11 DEF WaveInv

(* The copy is of the window around the offset.                            *)
LEMMA CopyMade ==
    ASSUME WaveInv, NEW offset \in Offsets, CopyWaveform(offset)
    PROVE  WaveInv'
<1>1. /\ job' = <<"copied", offset>> /\ zero' = zero
      /\ out' = [i \in WindowAt |-> IF i < HalfWindow THEN offset - HalfWindow + i
                                                   ELSE offset + (i - HalfWindow)]
  BY DEF CopyWaveform
<1>2. SearchInv' /\ HarmonicsInv'
  BY <1>1, NoSearch, NoHarmonics DEF WaveInv
<1>3. SamePhase' /\ DifferenceWithin'
  BY <1>1 DEF SamePhase, DifferenceWithin
<1>4. CopyAround'
  <2>1. offset \in Int
    BY WindowAssumption
  <2>2. ASSUME NEW i \in WindowAt PROVE out'[i] = offset - HalfWindow + i
    BY <1>1, <2>1, WaveSizes
  <2>3. (\A i \in WindowAt : out'[i] \in 0 .. Fsample - 1)
           <=> offset \in HalfWindow .. Fsample - HalfWindow
    <3>1. 0 \in WindowAt /\ WindowLength - 1 \in WindowAt
      BY WaveSizes
    <3>2. ASSUME \A i \in WindowAt : out'[i] \in 0 .. Fsample - 1
          PROVE  offset \in HalfWindow .. Fsample - HalfWindow
      <4>1. out'[0] \in 0 .. Fsample - 1 /\ out'[WindowLength - 1] \in 0 .. Fsample - 1
        BY <3>1, <3>2
      <4>2. out'[0] = offset - HalfWindow
            /\ out'[WindowLength - 1] = offset - HalfWindow + (WindowLength - 1)
        BY <3>1, <2>1, <2>2, WaveSizes
      <4> QED BY <4>1, <4>2, <2>1, WaveSizes
    <3>3. ASSUME offset \in HalfWindow .. Fsample - HalfWindow, NEW i \in WindowAt
          PROVE  out'[i] \in 0 .. Fsample - 1
      BY <3>3, <2>1, <2>2, WaveSizes
    <3> QED BY <3>2, <3>3
  <2>4. DOMAIN out' = WindowAt /\ \A o \in Offsets : job' = <<"copied", o>> => o = offset
    BY <1>1
  <2> QED BY <2>2, <2>3, <2>4 DEF CopyAround
<1> QED BY <1>2, <1>3, <1>4 DEF WaveInv

(* The coefficients are those of the bins 0, 1, ...: rounding to the       *)
(* nearest bin changes nothing (Goertzel_EvaluateCoefficients).            *)
LEMMA Bins == Goertzel_EvaluateCoefficients = [b \in 0 .. Points - 1 |-> b]
<1> SUFFICES ASSUME NEW b \in 0 .. Points - 1 PROVE Bin(b) = b
  BY DEF Goertzel_EvaluateCoefficients
<1>1. 2 * Points * Fdtm * b + Fsample = b * (2 * Fsample) + Fsample
  <2>1. 2 * Points * Fdtm * b = b * (2 * (Points * Fdtm))
    BY WaveSizes, Z3
  <2> QED BY <2>1, WaveSizes
<1>2. 2 * Fsample \in Nat \ {0} /\ Fsample \in 0 .. 2 * Fsample - 1 /\ b \in Int
  BY WaveSizes
<1>3. (b * (2 * Fsample) + Fsample) \div (2 * Fsample) = b
  <2> DEFINE F2 == 2 * Fsample
  <2>1. F2 \in Nat \ {0} /\ Fsample \in 0 .. F2 - 1 /\ b \in Int
    BY <1>2
  <2> HIDE DEF F2
  <2>2. \A d \in Nat \ {0} : \A q \in Int : \A r \in 0 .. d - 1 : (q * d + r) \div d = q
    BY DivUnique, Zenon
  <2>3. (b * F2 + Fsample) \div F2 = b
    BY <2>1, <2>2, Zenon
  <2> QED BY <2>3 DEF F2
<1> QED BY <1>1, <1>3 DEF Bin

(* The harmonics of the first n cycles.                                    *)
Cycles(n) == [i \in 1 .. n |-> HarmonicsOf(i - 1)]

(* One more cycle.                                                         *)
LEMMA CycleAppended ==
    ASSUME NEW n \in Nat
    PROVE  Append(Cycles(n), HarmonicsOf(n)) = Cycles(n + 1)
<1> DEFINE S == {HarmonicsOf(i - 1) : i \in 1 .. n + 1}
<1>1. /\ Cycles(n) \in Seq(S) /\ Len(Cycles(n)) = n
      /\ \A i \in 1 .. n : Cycles(n)[i] = HarmonicsOf(i - 1)
  <2>1. \A i \in 1 .. n : i \in 1 .. n + 1 /\ HarmonicsOf(i - 1) \in S
    OBVIOUS
  <2> HIDE DEF S
  <2>2. Cycles(n) \in [1 .. n -> S]
    BY <2>1 DEF Cycles
  <2>3. Cycles(n) \in Seq(S) /\ Len(Cycles(n)) = n
    BY <2>2
  <2> QED BY <2>3 DEF Cycles
<1>2. /\ Cycles(n + 1) \in Seq(S) /\ Len(Cycles(n + 1)) = n + 1
      /\ \A i \in 1 .. n + 1 : Cycles(n + 1)[i] = HarmonicsOf(i - 1)
  <2>1. \A i \in 1 .. n + 1 : HarmonicsOf(i - 1) \in S
    OBVIOUS
  <2> HIDE DEF S
  <2>2. Cycles(n + 1) \in [1 .. n + 1 -> S] /\ n + 1 \in Nat
    BY <2>1 DEF Cycles
  <2>3. Cycles(n + 1) \in Seq(S) /\ Len(Cycles(n + 1)) = n + 1
    BY <2>2
  <2> QED BY <2>3 DEF Cycles
<1>3. HarmonicsOf(n) \in S
  <2>1. n + 1 \in 1 .. n + 1 /\ n = n + 1 - 1
    OBVIOUS
  <2> QED BY <2>1
<1> HIDE DEF S
<1> DEFINE a == Append(Cycles(n), HarmonicsOf(n))
<1>4. /\ a \in Seq(S) /\ Len(a) = n + 1
      /\ \A i \in 1 .. n : a[i] = HarmonicsOf(i - 1)
      /\ a[n + 1] = HarmonicsOf(n)
  BY <1>1, <1>3, AppendProperties
<1>5. \A i \in 1 .. n + 1 : a[i] = Cycles(n + 1)[i]
  <2> SUFFICES ASSUME NEW i \in 1 .. n + 1 PROVE a[i] = HarmonicsOf(i - 1)
    BY <1>2
  <2>1. CASE i \in 1 .. n
    BY <2>1, <1>4
  <2>2. CASE i = n + 1
    <3>1. i - 1 = n
      BY <2>2
    <3> QED BY <3>1, <2>2, <1>4
  <2>3. i \in 1 .. n \/ i = n + 1
    OBVIOUS
  <2> QED BY <2>1, <2>2, <2>3
<1> HIDE DEF a
<1>6. a = Cycles(n + 1)
  BY <1>2, <1>4, <1>5, SeqEqual
<1> QED BY <1>6 DEF a

(* The filter run over one cycle of scaled samples gives the harmonics of  *)
(* it.                                                                     *)
LEMMA OddOfCycle ==
    ASSUME NEW input \in [0 .. Fsample - 1 -> {1}], NEW i \in 0 .. Fdtm - 1,
           coeff = [b \in 0 .. Points - 1 |-> b]
    PROVE  Goertzel_CalculateOdd(input, i * Points) = HarmonicsOf(i)
<1> DEFINE base == i * Points
<1>1. base \in Nat /\ base + Points <= Fsample /\ Points * i = base
      /\ Points * (i + 1) = base + Points
  <2>1. i * Points + Points <= Fdtm * Points /\ Fdtm * Points = Points * Fdtm
    BY WaveSizes, MulLess
  <2>2. i * Points >= 0 /\ i * Points \in Int
    BY WaveSizes, Z3
  <2>3. Points * i = i * Points /\ Points * (i + 1) = i * Points + Points
    BY WaveSizes, Z3
  <2> QED BY <2>1, <2>2, <2>3, WaveSizes
<1> HIDE DEF base
<1>2. {base + m : m \in 0 .. Points - 1} = Points * i .. Points * (i + 1) - 1
  <2>a. Points * i .. Points * (i + 1) - 1 = base .. base + Points - 1
    <3> DEFINE lo == Points * i
               hi == Points * (i + 1)
    <3>1. lo = base /\ hi = base + Points /\ base \in Nat /\ Points \in Nat
      BY <1>1, WaveSizes
    <3> HIDE DEF lo, hi
    <3>2. lo .. hi - 1 = base .. base + Points - 1
      BY <3>1
    <3> QED BY <3>2 DEF lo, hi
  <2>1. ASSUME NEW x \in base .. base + Points - 1
        PROVE  x \in {base + m : m \in 0 .. Points - 1}
    <3>1. x - base \in 0 .. Points - 1 /\ x = base + (x - base)
      BY <1>1, WaveSizes
    <3> QED BY <3>1
  <2>2. ASSUME NEW m \in 0 .. Points - 1
        PROVE  base + m \in base .. base + Points - 1
    BY <1>1, WaveSizes
  <2>3. {base + m : m \in 0 .. Points - 1} = base .. base + Points - 1
    BY <2>1, <2>2
  <2> QED BY <2>a, <2>3
<1>3. {input[base + m] : m \in 0 .. Points - 1} = {1}
  <2>1. \A m \in 0 .. Points - 1 : input[base + m] = 1
    BY <1>1, WaveSizes
  <2>2. 0 \in 0 .. Points - 1
    BY WaveSizes
  <2> QED BY <2>1, <2>2
<1>4. \A k \in 0 .. DftPoints - 1 : coeff[2 * k + 1] = 2 * k + 1
  BY WaveSizes
<1> QED BY <1>2, <1>3, <1>4 DEF Goertzel_CalculateOdd, HarmonicsOf, base

(* The coefficients are computed, or metrology gives up.                   *)
LEMMA MetrologyStarts ==
    ASSUME WaveInv, MetrologyCore_Init PROVE WaveInv'
<1>1. /\ zero' = zero /\ dft' = dft /\ job = <<"idle">>
      /\ job' = <<"error">> \/ (job' = <<"ready">> /\ coeff' = [b \in 0 .. Points - 1 |-> b])
  BY Bins DEF MetrologyCore_Init
<1>2. SearchInv' /\ SamePhase' /\ DifferenceWithin' /\ CopyAround'
  BY <1>1, NoSearch, NoResult DEF WaveInv
<1>3. HarmonicsInv'
  <2>1. dft = <<>>
    BY <1>1 DEF WaveInv, HarmonicsInv
  <2> QED BY <2>1, <1>1 DEF HarmonicsInv
<1> QED BY <1>2, <1>3 DEF WaveInv

(* A second of samples, none of them scaled.                               *)
LEMMA SecondStarts ==
    ASSUME WaveInv, NextSecond PROVE WaveInv'
<1>1. /\ zero' = zero /\ coeff' = coeff /\ job = <<"ready">> /\ job' = <<"sampled">>
      /\ samples' = [channel \in Channel |-> [i \in 0 .. Fsample - 1 |-> 0]]
  BY DEF NextSecond, Channel
<1>2. SearchInv' /\ SamePhase' /\ DifferenceWithin' /\ CopyAround'
  BY <1>1, NoSearch, NoResult DEF WaveInv
<1>3. HarmonicsInv'
  BY <1>1 DEF WaveInv, HarmonicsInv, Scaled
<1> QED BY <1>2, <1>3 DEF WaveInv

(* Every sample is scaled once.                                            *)
LEMMA ScaleStep ==
    ASSUME WaveInv, MetrologyCore_Scale PROVE WaveInv'
<1>1. /\ zero' = zero /\ coeff' = coeff /\ job = <<"sampled">> /\ job' = <<"harmonics", 0, 0>>
      /\ samples' = [channel \in DOMAIN samples |->
                       [i \in DOMAIN samples[channel] |-> samples[channel][i] + 1]]
      /\ dft' = [channel \in DOMAIN samples |-> <<>>]
  BY DEF MetrologyCore_Scale
<1>2. SearchInv' /\ SamePhase' /\ DifferenceWithin' /\ CopyAround'
  BY <1>1, NoSearch, NoResult DEF WaveInv
<1>3. Scaled(0) /\ coeff = [b \in 0 .. Points - 1 |-> b]
  BY <1>1 DEF WaveInv, HarmonicsInv
<1>4. /\ DOMAIN samples = Channel
      /\ \A channel \in Channel : samples[channel] = [i \in 0 .. Fsample - 1 |-> 0]
  BY <1>3 DEF Scaled
<1>5. Scaled(1)'
  <2>1. ASSUME NEW channel \in Channel
        PROVE  samples'[channel] = [i \in 0 .. Fsample - 1 |-> 1]
    <3>1. samples'[channel] = [i \in DOMAIN samples[channel] |-> samples[channel][i] + 1]
      BY <1>1, <1>4
    <3>2. samples[channel] = [i \in 0 .. Fsample - 1 |-> 0]
      BY <1>4
    <3>3. DOMAIN samples[channel] = 0 .. Fsample - 1
          /\ \A i \in 0 .. Fsample - 1 : samples[channel][i] + 1 = 1
      BY <3>2
    <3> QED BY <3>1, <3>3
  <2> QED BY <2>1, <1>1, <1>4 DEF Scaled
<1>6. ASSUME NEW channel \in Channel PROVE dft'[channel] = Cycles(0)
  BY <1>1, <1>4 DEF Cycles
<1>7. 0 \in Channel /\ \A channel \in Channel : ~(channel < 0)
  BY WaveSizes DEF Channel
<1>8. \A at \in Channel, i \in 0 .. Fdtm - 1 : job' = <<"harmonics", at, i>> => at = 0 /\ i = 0
  BY <1>1
<1>9. \A channel \in Channel :
         CyclesDone(channel, IF channel < 0 THEN Fdtm ELSE IF channel = 0 THEN 0 ELSE 0)'
  BY <1>6, <1>7 DEF CyclesDone, Cycles
<1>10. HarmonicsInv'
  BY <1>1, <1>3, <1>4, <1>5, <1>8, <1>9 DEF HarmonicsInv
<1> QED BY <1>2, <1>10 DEF WaveInv

(* One cycle of one channel.                                               *)
LEMMA HarmonicsStep ==
    ASSUME WaveInv, NEW channel \in Channel, NEW i \in 0 .. Fdtm - 1,
           MetrologyCore_CalculateHarmonics(channel, i)
    PROVE  WaveInv'
<1>1. /\ zero' = zero /\ coeff' = coeff /\ samples' = samples /\ job = <<"harmonics", channel, i>>
      /\ dft' = [dft EXCEPT ![channel] =
                   Append(@, Goertzel_CalculateOdd(samples[channel], i * Points))]
      /\ job' = (IF i + 1 < Fdtm THEN <<"harmonics", channel, i + 1>>
                ELSE IF channel + 1 < Inputs_I THEN <<"harmonics", channel + 1, 0>>
                ELSE <<"ready">>)
  BY DEF MetrologyCore_CalculateHarmonics
<1>2. SearchInv' /\ SamePhase' /\ DifferenceWithin' /\ CopyAround'
  BY <1>1, NoSearch, NoResult DEF WaveInv
<1>3. /\ coeff = [b \in 0 .. Points - 1 |-> b] /\ Scaled(1) /\ DOMAIN dft = Channel
      /\ \A x \in Channel :
            dft[x] = Cycles(IF x < channel THEN Fdtm ELSE IF x = channel THEN i ELSE 0)
  BY <1>1 DEF WaveInv, HarmonicsInv, CyclesDone, Cycles
<1>4. i \in Nat /\ channel \in Nat /\ ~(channel < channel)
  BY WaveSizes DEF Channel
<1>5. dft'[channel] = Cycles(i + 1)
  <2>1. dft[channel] = Cycles(i)
    BY <1>3, <1>4
  <2>2. samples[channel] \in [0 .. Fsample - 1 -> {1}]
    BY <1>3 DEF Scaled
  <2>3. Goertzel_CalculateOdd(samples[channel], i * Points) = HarmonicsOf(i)
    BY <2>2, <1>3, OddOfCycle
  <2>4. dft'[channel] = Append(Cycles(i), HarmonicsOf(i))
    BY <2>1, <2>3, <1>1, <1>3
  <2> QED BY <2>4, <1>4, CycleAppended
<1>6. DOMAIN dft' = Channel /\ \A x \in Channel : x # channel => dft'[x] = dft[x]
  BY <1>1, <1>3
<1>7. coeff' = [b \in 0 .. Points - 1 |-> b] /\ Scaled(1)'
  BY <1>1, <1>3 DEF Scaled
<1>8. CASE i + 1 < Fdtm
  <2>1. job' = <<"harmonics", channel, i + 1>>
    BY <1>1, <1>8
  <2>2. \A x \in Channel :
           dft'[x] = Cycles(IF x < channel THEN Fdtm ELSE IF x = channel THEN i + 1 ELSE 0)
    BY <1>3, <1>4, <1>5, <1>6
  <2>3. \A at \in Channel, n \in 0 .. Fdtm - 1 :
           job' = <<"harmonics", at, n>> => at = channel /\ n = i + 1
    BY <2>1
  <2>4. HarmonicsInv'
    BY <2>1, <2>2, <2>3, <1>6, <1>7 DEF HarmonicsInv, CyclesDone, Cycles
  <2> QED BY <2>4, <1>2 DEF WaveInv
<1>9. CASE ~(i + 1 < Fdtm)
  <2>1. i + 1 = Fdtm
    BY <1>9, <1>4, WaveSizes
  <2>2. \A x \in Channel : dft'[x] = Cycles(IF x < channel + 1 THEN Fdtm ELSE 0)
    <3> SUFFICES ASSUME NEW x \in Channel
                 PROVE  dft'[x] = Cycles(IF x < channel + 1 THEN Fdtm ELSE 0)
      OBVIOUS
    <3>1. x \in Nat
      BY WaveSizes DEF Channel
    <3>2. CASE x = channel
      <4>1. x < channel + 1
        BY <3>2, <1>4
      <4> QED BY <4>1, <3>2, <1>5, <2>1
    <3>3. CASE x # channel
      <4>1. x < channel + 1 <=> x < channel
        BY <3>1, <3>3, <1>4
      <4> QED BY <4>1, <3>3, <1>3, <1>6
    <3> QED BY <3>2, <3>3
  <2>3. CASE channel + 1 < Inputs_I
    <3>1. job' = <<"harmonics", channel + 1, 0>>
      BY <1>1, <1>9, <2>3
    <3>2. \A at \in Channel, n \in 0 .. Fdtm - 1 :
             job' = <<"harmonics", at, n>> => at = channel + 1 /\ n = 0
      BY <3>1
    <3>3. \A x \in Channel :
             dft'[x] = Cycles(IF x < channel + 1 THEN Fdtm ELSE IF x = channel + 1 THEN 0 ELSE 0)
      BY <2>2
    <3>4. HarmonicsInv'
      BY <3>1, <3>2, <3>3, <1>6, <1>7 DEF HarmonicsInv, CyclesDone, Cycles
    <3> QED BY <3>4, <1>2 DEF WaveInv
  <2>4. CASE ~(channel + 1 < Inputs_I)
    <3>1. job' = <<"ready">>
      BY <1>1, <1>9, <2>4
    <3>2. \A x \in Channel : x < channel + 1
      BY <2>4, <1>4, WaveSizes DEF Channel
    <3>3. \A x \in Channel : dft'[x] = Cycles(Fdtm)
      BY <2>2, <3>2
    <3>4. HarmonicsInv'
      BY <3>1, <3>3, <1>6, <1>7 DEF HarmonicsInv, CyclesDone, Cycles
    <3> QED BY <3>4, <1>2 DEF WaveInv
  <2> QED BY <2>3, <2>4
<1> QED BY <1>8, <1>9

(* Every step keeps the invariant.                                         *)
LEMMA WaveInvStep ==
    ASSUME WaveInv, [WaveNext]_waveVars PROVE WaveInv'
<1>1. CASE UNCHANGED waveVars
  BY <1>1 DEF waveVars, WaveInv, SearchInv, SamePhase, DifferenceWithin, CopyAround,
              HarmonicsInv, OneWave, Falls, StoppedRising, Scanned, Below, Above, Scaled, CyclesDone
<1>2. CASE WaveNext
  BY <1>2, DiffStarts, BelowStep, AboveStep, DifferenceMade, CopyMade, MetrologyStarts,
     SecondStarts, ScaleStep, HarmonicsStep DEF WaveNext, Channel
<1> QED BY <1>1, <1>2

(* When all cycles of all channels are done, every harmonic is of its own  *)
(* cycle, and the cycles cover the second.                                 *)
LEMMA WholeSecond ==
    ASSUME WaveInv, job = <<"ready">>, dft # <<>>, NEW channel \in DOMAIN dft
    PROVE  /\ \A i \in 1 .. Fdtm, k \in 0 .. DftPoints - 1 :
                 dft[channel][i][k] = [bin |-> 2 * k + 1,
                                       over |-> Points * (i - 1) .. Points * i - 1,
                                       scaled |-> {1}]
           /\ UNION {dft[channel][i][0].over : i \in 1 .. Fdtm} = 0 .. Fsample - 1
<1>1. dft[channel] = Cycles(Fdtm)
  BY DEF WaveInv, HarmonicsInv, CyclesDone, Cycles
<1>2. ASSUME NEW i \in 1 .. Fdtm, NEW k \in 0 .. DftPoints - 1
      PROVE  dft[channel][i][k] = [bin |-> 2 * k + 1,
                                   over |-> Points * (i - 1) .. Points * i - 1,
                                   scaled |-> {1}]
  <2>1. dft[channel][i] = HarmonicsOf(i - 1)
    BY <1>1 DEF Cycles
  <2>2. i - 1 + 1 = i
    OBVIOUS
  <2> QED BY <2>1, <2>2 DEF HarmonicsOf
<1>3. 0 \in 0 .. DftPoints - 1
  BY WaveSizes
<1>4. ASSUME NEW i \in 1 .. Fdtm
      PROVE  dft[channel][i][0].over = Points * (i - 1) .. Points * i - 1
  <2>1. dft[channel][i][0] = [bin |-> 2 * 0 + 1, over |-> Points * (i - 1) .. Points * i - 1,
                              scaled |-> {1}]
    BY <1>2, <1>3
  <2> QED BY <2>1
<1>5. ASSUME NEW i \in 1 .. Fdtm, NEW x \in dft[channel][i][0].over
      PROVE  x \in 0 .. Fsample - 1
  <2>1. x \in Int /\ Points * (i - 1) <= x /\ x <= Points * i - 1
    <3>1. x \in Points * (i - 1) .. Points * i - 1
      BY <1>4
    <3>2. Points * (i - 1) \in Int /\ Points * i - 1 \in Int
      BY WaveSizes
    <3> QED BY <3>1, <3>2
  <2>2. Points * (i - 1) >= 0 /\ Points * i <= Points * Fdtm /\ Points * i \in Int
    BY WaveSizes, Z3
  <2> QED BY <2>1, <2>2, WaveSizes
<1>6. ASSUME NEW x \in 0 .. Fsample - 1
      PROVE  \E i \in 1 .. Fdtm : x \in dft[channel][i][0].over
  <2> DEFINE q == x \div Points
             r == x % Points
  <2>1. q \in Int /\ r \in 0 .. Points - 1 /\ x = Points * q + r
    <3>1. x \in Int /\ Points \in Nat \ {0}
      BY WaveSizes
    <3> QED BY <3>1, DivMod
  <2> HIDE DEF q, r
  <2>2. Points * (q + 1) = Points * q + Points /\ Points * q \in Int
    BY <2>1, WaveSizes, Z3
  <2>3. q >= 0
    <3>1. ASSUME q < 0 PROVE Points * q + Points <= 0
      BY <3>1, <2>1, WaveSizes, Z3
    <3> QED BY <3>1, <2>1, <2>2, WaveSizes
  <2>4. q < Fdtm
    <3>1. ASSUME q >= Fdtm PROVE Points * Fdtm <= Points * q
      BY <3>1, <2>1, WaveSizes, Z3
    <3> QED BY <3>1, <2>1, <2>2, WaveSizes
  <2>5. q + 1 \in 1 .. Fdtm /\ q + 1 - 1 = q
    BY <2>1, <2>3, <2>4, WaveSizes
  <2> DEFINE at == q + 1
             lo == Points * (at - 1)
             hi == Points * at
  <2>6. at \in 1 .. Fdtm /\ lo \in Int /\ hi \in Int /\ lo <= x /\ x <= hi - 1
    <3>1. at - 1 = q /\ lo = Points * q /\ hi = Points * q + Points
      BY <2>1, <2>2
    <3> QED BY <3>1, <2>1, <2>2, <2>5, WaveSizes
  <2> HIDE DEF at
  <2>7. dft[channel][at][0].over = lo .. hi - 1
    BY <2>6, <1>4
  <2> HIDE DEF lo, hi
  <2>8. x \in lo .. hi - 1
    BY <2>6
  <2> QED BY <2>6, <2>7, <2>8
<1> QED BY <1>2, <1>5, <1>6

(* The samples of a difference have the same phase of the wave, and those  *)
(* read lie within the signatures, with the exceptions SamePhase states; a *)
(* copied window is around its offset and within the channel for the       *)
(* offsets CopyAround states, and the harmonics of a second are those of   *)
(* its cycles, each of scaled samples, for every length of windows, waves  *)
(* and cycles and every offset (WaveformDiff, CopyWaveform,                *)
(* MetrologyCore_CalculateHarmonics).                                      *)
THEOREM WindowsKept == WaveSpec => []WindowsOfSamples
<1>1. WaveInv => WindowsOfSamples
  BY WholeSecond DEF WaveInv, WindowsOfSamples, HarmonicsOfSecond
<1> QED BY <1>1, WaveInvInit, WaveInvStep, PTL DEF WaveSpec

-----------------------------------------------------------------------------
(* Moving average                                                          *)

(* Updates before the current lap around the buffer. *)
lap == count - head

(* Slots behind head hold the inputs of this lap, the others those of the  *)
(* lap before, or zero in the first one.                                   *)
SlotContents ==
    /\ lap = 0 \/ lap >= Length
    /\ totals[0] = 0
    /\ \A k \in Slots : k < head =>
          Data[k] = totals[lap + k + 1] - totals[lap + k]
    /\ \A k \in Slots : k >= head =>
          IF lap = 0 THEN Data[k] = 0
          ELSE Data[k] = totals[lap - Length + k + 1]
                           - totals[lap - Length + k]

MAFInv == MAFTypeOK /\ SlotContents /\ WindowMean

(* MovingAverageFilter_Init establishes the invariant.                     *)
LEMMA MAFInvInit == MovingAverageFilter_Init => MAFInv
<1> SUFFICES ASSUME MovingAverageFilter_Init PROVE MAFInv
  OBVIOUS
<1> USE MAFAssumption DEF MovingAverageFilter_Init
<1>1. MAFTypeOK
  BY DEF MAFTypeOK, Slots
<1>2. SlotContents
  BY DEF SlotContents, lap, Slots
<1>3. WindowMean
  BY DEF WindowMean, WindowTotal
<1> QED
  BY <1>1, <1>2, <1>3 DEF MAFInv

(* MovingAverageFilter_Update keeps it: what it subtracts is the input     *)
(* that leaves the window.                                                 *)
LEMMA UpdateStep ==
    ASSUME MAFInv, NEW x \in Inputs, MovingAverageFilter_Update(x)
    PROVE  MAFInv'
<1> USE MAFAssumption DEF MAFInv
<1>1. /\ x \in Int /\ head \in Slots /\ count \in 0 .. MaxUpdates
      /\ count < MaxUpdates /\ Data[head] \in Int
      /\ totals \in [0 .. MaxUpdates -> Int]
      /\ Data \in [Slots -> Int] /\ Accumulator \in Int
  BY DEF MAFTypeOK, MovingAverageFilter_Update, Record
<1>2. /\ Accumulator' = Accumulator - Data[head] + x
      /\ Data' = [Data EXCEPT ![head] = x]
      /\ head' = (IF head + 1 >= Length THEN 0 ELSE head + 1)
      /\ MeanValue' = Limited(Accumulator')
      /\ count' = count + 1
      /\ totals' = [totals EXCEPT ![count + 1] = totals[count] + x]
      /\ Threshold_Enabled' = Threshold_Enabled
  BY DEF MovingAverageFilter_Update, Record, NextHead
<1>3. MAFTypeOK'
  <2>1. Accumulator' \in Int /\ MeanValue' \in Int
    BY <1>1, <1>2 DEF Limited
  <2>2. head' \in Slots /\ count' \in 0 .. MaxUpdates
    BY <1>1, <1>2 DEF Slots
  <2>3. /\ Data' \in [Slots -> Int]
        /\ totals' \in [0 .. MaxUpdates -> Int]
    BY <1>1, <1>2
  <2> QED
    BY <1>2, <2>1, <2>2, <2>3 DEF MAFTypeOK
<1>4. /\ \A n \in 0 .. count : totals'[n] = totals[n] /\ totals[n] \in Int
      /\ totals'[count + 1] = totals[count] + x
  <2>1. /\ 0 .. count \subseteq 0 .. MaxUpdates
        /\ count + 1 \in 0 .. MaxUpdates
        /\ \A n \in 0 .. count : n # count + 1
    BY <1>1
  <2> QED
    BY <1>1, <1>2, <2>1
<1>5. Accumulator' = WindowTotal'
  <2>1. CASE lap = 0
    <3>1. Data[head] = 0 /\ count < Length
      BY <1>1, <2>1 DEF SlotContents, lap, Slots
    <3>2. Accumulator = totals[count]
      BY <1>1, <3>1 DEF WindowMean, WindowTotal
    <3>3. Accumulator' = totals'[count + 1]
      BY <1>1, <1>2, <1>4, <3>1, <3>2
    <3>4. count + 1 >= Length => totals'[count + 1 - Length] = 0
      BY <1>1, <1>4, <3>1 DEF SlotContents
    <3> QED
      BY <1>1, <1>2, <1>4, <3>3, <3>4 DEF WindowTotal
  <2>2. CASE lap # 0
    <3>1. count >= Length /\ lap - Length + head = count - Length
      BY <1>1, <2>2 DEF SlotContents, lap, Slots
    <3>2. Data[head] = totals[lap - Length + head + 1]
                         - totals[lap - Length + head]
      BY <1>1, <2>2 DEF SlotContents, Slots
    <3>3. Data[head] = totals[count - Length + 1] - totals[count - Length]
      BY <3>1, <3>2
    <3>4. Accumulator = totals[count] - totals[count - Length]
      BY <3>1 DEF WindowMean, WindowTotal
    <3>5. /\ count - Length \in 0 .. count
          /\ count - Length + 1 \in 0 .. count /\ count \in 0 .. count
      BY <1>1, <3>1
    <3>6. /\ totals'[count - Length + 1] = totals[count - Length + 1]
          /\ totals[count] \in Int /\ totals[count - Length] \in Int
          /\ totals[count - Length + 1] \in Int
      BY <1>4, <3>5
    <3>7. Accumulator' = totals'[count + 1] - totals'[count - Length + 1]
      <4> DEFINE now == totals[count]
                 old == totals[count - Length]
                 next == totals[count - Length + 1]
      <4>1. Accumulator' = (now - old) - (next - old) + x
        BY <1>2, <3>3, <3>4
      <4>2. now \in Int /\ old \in Int /\ next \in Int
        BY <3>6
      <4>3. totals'[count + 1] - totals'[count - Length + 1] = now + x - next
        BY <1>4, <3>6
      <4> HIDE DEF now, old, next
      <4> QED
        BY <1>1, <4>1, <4>2, <4>3
    <3>8. /\ count' >= Length /\ count' - Length = count - Length + 1
          /\ count' = count + 1
      BY <1>1, <1>2, <3>1
    <3>9. WindowTotal' = totals'[count'] - totals'[count' - Length]
      BY <3>8 DEF WindowTotal
    <3> QED
      BY <3>7, <3>8, <3>9
  <2> QED
    BY <2>1, <2>2
<1>6. WindowMean'
  BY <1>1, <1>2, <1>5 DEF WindowMean, Limited
<1>7. SlotContents'
  <2>1. \A k \in Slots : Data'[k] = IF k = head THEN x ELSE Data[k]
    BY <1>1, <1>2
  <2>2. totals'[0] = 0
    BY <1>1, <1>4 DEF SlotContents
  <2>3. CASE head + 1 < Length
    <3>1. head' = head + 1 /\ lap' = lap
      BY <1>1, <1>2, <2>3 DEF lap, Slots
    <3>2. ASSUME NEW k \in Slots, k < head + 1
          PROVE  Data'[k] = totals'[lap + k + 1] - totals'[lap + k]
      <4>1. CASE k = head
        BY <1>1, <1>4, <2>1, <4>1 DEF lap, Slots
      <4>2. CASE k < head
        <5>1. lap + k \in 0 .. count /\ lap + k + 1 \in 0 .. count
          BY <1>1, <4>2 DEF lap, Slots, SlotContents
        <5>2. Data[k] = totals[lap + k + 1] - totals[lap + k]
          BY <4>2 DEF SlotContents
        <5>3. Data'[k] = Data[k]
          BY <1>1, <2>1, <4>2 DEF Slots
        <5> QED
          BY <1>4, <5>1, <5>2, <5>3
      <4> QED
        BY <1>1, <3>2, <4>1, <4>2 DEF Slots
    <3>3. ASSUME NEW k \in Slots, k >= head + 1
          PROVE  IF lap = 0 THEN Data'[k] = 0
                 ELSE Data'[k] = totals'[lap - Length + k + 1]
                                   - totals'[lap - Length + k]
      <4>1. Data'[k] = Data[k] /\ k >= head
        BY <1>1, <2>1, <3>3 DEF Slots
      <4>2. lap # 0 => /\ lap - Length + k \in 0 .. count
                       /\ lap - Length + k + 1 \in 0 .. count
        BY <1>1 DEF lap, Slots, SlotContents
      <4> QED
        BY <1>4, <4>1, <4>2 DEF SlotContents
    <3> QED
      BY <2>2, <3>1, <3>2, <3>3 DEF SlotContents
  <2>4. CASE head + 1 >= Length
    <3>1. /\ head = Length - 1 /\ head' = 0
          /\ lap' = lap + Length /\ lap' >= Length /\ lap \in Nat
      BY <1>1, <1>2, <2>4 DEF lap, Slots, SlotContents
    <3>2. ASSUME NEW k \in Slots
          PROVE  Data'[k] = totals'[lap + k + 1] - totals'[lap + k]
      <4>1. CASE k = head
        BY <1>1, <1>4, <2>1, <4>1 DEF lap, Slots
      <4>2. CASE k < head
        <5>1. lap + k \in 0 .. count /\ lap + k + 1 \in 0 .. count
          BY <1>1, <4>2 DEF lap, Slots, SlotContents
        <5>2. Data[k] = totals[lap + k + 1] - totals[lap + k]
          BY <4>2 DEF SlotContents
        <5>3. Data'[k] = Data[k]
          BY <1>1, <2>1, <4>2 DEF Slots
        <5> QED
          BY <1>4, <5>1, <5>2, <5>3
      <4> QED
        BY <1>1, <3>1, <4>1, <4>2 DEF Slots
    <3>3. \A k \in Slots : lap' - Length + k = lap + k /\ ~(k < 0)
      BY <3>1 DEF Slots
    <3>4. lap' # 0
      BY <3>1
    <3> QED
      BY <2>2, <3>1, <3>2, <3>3, <3>4 DEF SlotContents
  <2> QED
    BY <1>1, <2>3, <2>4 DEF Slots
<1> QED
  BY <1>3, <1>6, <1>7

(* Every step keeps it.                                                    *)
LEMMA MAFInvStep == MAFInv /\ [MAFNext]_mafVars => MAFInv'
<1> SUFFICES ASSUME MAFInv, [MAFNext]_mafVars PROVE MAFInv'
  OBVIOUS
<1>1. CASE \E x \in Inputs : MovingAverageFilter_Update(x)
  BY <1>1, UpdateStep
<1>2. CASE UNCHANGED mafVars
  BY <1>2 DEF mafVars, MAFInv, MAFTypeOK, SlotContents, lap, WindowMean,
              WindowTotal, Limited
<1> QED
  BY <1>1, <1>2 DEF MAFNext, Done

(* MovingAverageFilter_Update never leaves the buffer.                     *)
THEOREM FilterTypes == MAFSpec => []MAFTypeOK
<1>1. MAFInv => MAFTypeOK
  BY DEF MAFInv
<1> QED
  BY MAFInvInit, MAFInvStep, <1>1, PTL DEF MAFSpec

(* The mean of MAF.c is the mean of the last Length inputs, after any      *)
(* number of updates and for every Length.                                 *)
THEOREM MeanIsOfWindow == MAFSpec => []WindowMean
<1>1. MAFInv => WindowMean
  BY DEF MAFInv
<1> QED
  BY MAFInvInit, MAFInvStep, <1>1, PTL DEF MAFSpec

-----------------------------------------------------------------------------
(* MAF implements the sliding window                                       *)

(* A set of numbers that is not empty has a least one.                     *)
LEMMA LeastOf ==
    ASSUME NEW S \in SUBSET Nat, S # {}
    PROVE  \E i \in S : \A k \in S : i <= k
<1> DEFINE R == OpToRel(<, Nat)
<1>1. IsWellFoundedOn(R, Nat)
  BY NatLessThanWellFounded
<1>2. \A i, k \in Nat : <<i, k>> \in R <=> i < k
  BY DEF OpToRel
<1> HIDE DEF R
<1>3. PICK i \in S : \A k \in S : ~(<<k, i>> \in R)
  BY <1>1, WFMin
<1>4. ASSUME NEW k \in S PROVE i <= k
  <2>1. i \in Nat /\ k \in Nat /\ ~(<<k, i>> \in R)
    BY <1>3
  <2>2. ~(k < i)
    BY <1>2, <2>1
  <2> QED
    BY <2>1, <2>2
<1> QED
  BY <1>4

(* What adds the elements of w one by one ends with the total of w.        *)
LEMMA TotalIs ==
    ASSUME NEW w, Len(w) \in Nat, NEW g,
           g = [i \in 0 .. Len(w) |-> IF i = 0 THEN 0 ELSE g[i - 1] + w[i]]
    PROVE  Window!Total(w) = g[Len(w)]
<1> DEFINE Adds(h) == h = [i \in 0 .. Len(w) |-> IF i = 0 THEN 0 ELSE h[i - 1] + w[i]]
           u == CHOOSE h : Adds(h)
           wrong == {i \in 0 .. Len(w) : u[i] # g[i]}
<1>1. Window!Total(w) = u[Len(w)]
  BY DEF Window!Total
<1>2. Adds(g)
  OBVIOUS
<1>3. Adds(u)
  BY <1>2
<1>4. ASSUME NEW h, Adds(h)
      PROVE  h[0] = 0 /\ \A i \in 1 .. Len(w) : h[i] = h[i - 1] + w[i]
  <2>1. ASSUME NEW i \in 0 .. Len(w)
        PROVE  h[i] = IF i = 0 THEN 0 ELSE h[i - 1] + w[i]
    <3> DEFINE e(k) == IF k = 0 THEN 0 ELSE h[k - 1] + w[k]
    <3>1. h = [k \in 0 .. Len(w) |-> e(k)]
      BY <1>4
    <3> HIDE DEF e
    <3>2. h[i] = e(i)
      BY <3>1
    <3> QED
      BY <3>2 DEF e
  <2>2. 0 \in 0 .. Len(w) /\ \A i \in 1 .. Len(w) : i \in 0 .. Len(w) /\ i # 0
    OBVIOUS
  <2> HIDE DEF Adds
  <2> QED
    BY <2>1, <2>2
<1> HIDE DEF u, Adds
<1>5. wrong = {}
  <2> SUFFICES ASSUME wrong # {} PROVE FALSE
    OBVIOUS
  <2>1. PICK i \in wrong : \A k \in wrong : i <= k
    <3>1. wrong \in SUBSET Nat
      OBVIOUS
    <3> HIDE DEF wrong
    <3> QED
      BY <3>1, LeastOf
  <2>2. i \in 1 .. Len(w) /\ i - 1 \in 0 .. Len(w) /\ i - 1 \notin wrong
    <3>1. u[0] = g[0]
      BY <1>2, <1>3, <1>4
    <3>2. i \in 0 .. Len(w) /\ u[i] # g[i]
      BY <2>1
    <3>3. i \in 1 .. Len(w) /\ i - 1 \in 0 .. Len(w) /\ ~(i <= i - 1)
      BY <3>1, <3>2
    <3> HIDE DEF wrong
    <3>4. i - 1 \notin wrong
      BY <2>1, <3>3
    <3> QED
      BY <3>3, <3>4
  <2>3. u[i] = u[i - 1] + w[i] /\ g[i] = g[i - 1] + w[i]
    BY <1>2, <1>3, <1>4, <2>2
  <2> QED
    BY <2>1, <2>2, <2>3
<1>6. Len(w) \in 0 .. Len(w)
  OBVIOUS
<1> QED
  BY <1>1, <1>5, <1>6

(* Adding the divisor leaves the remainder.                                *)
LEMMA ModOnce ==
    ASSUME NEW b \in Nat \ {0}, NEW r \in 0 .. b - 1
    PROVE  r % b = r /\ (b + r) % b = r
<1>1. \A q \in Int : (q * b + r) % b = r
  BY DivUnique
<1>2. (0 * b + r) % b = r /\ (1 * b + r) % b = r
  BY <1>1
<1>3. 0 * b + r = r /\ 1 * b + r = b + r
  OBVIOUS
<1> QED
  BY <1>2, <1>3

(* The remainder of what is less than twice the divisor.                   *)
LEMMA ModTwice ==
    ASSUME NEW b \in Nat \ {0}, NEW n \in Nat, n < b + b
    PROVE  n % b = IF n < b THEN n ELSE n - b
<1>1. CASE n < b
  <2>1. n \in 0 .. b - 1
    BY <1>1
  <2>2. n % b = n
    BY <2>1, ModOnce
  <2> QED
    BY <1>1, <2>2
<1>2. CASE ~(n < b)
  <2>1. PICK r \in 0 .. b - 1 : n = b + r
    <3>1. n - b \in 0 .. b - 1 /\ n = b + (n - b)
      BY <1>2
    <3> QED
      BY <3>1
  <2>2. (b + r) % b = r
    BY <2>1, ModOnce
  <2>3. n % b = r /\ n - b = r
    BY <2>1, <2>2
  <2> QED
    BY <1>2, <2>3
<1> QED
  BY <1>1, <1>2

(* Where the ith input of the window is.                                   *)
LEMMA Around ==
    ASSUME NEW h \in Slots, NEW i \in 1 .. Length
    PROVE  (h + i - 1) % Length =
              IF h + i - 1 < Length THEN h + i - 1 ELSE h + i - 1 - Length
<1>1. Length \in Nat \ {0} /\ h + i - 1 \in Nat /\ h + i - 1 < Length + Length
  BY MAFAssumption DEF Slots
<1>2. PICK n \in Nat : n = h + i - 1 /\ n < Length + Length
  BY <1>1
<1>3. n % Length = IF n < Length THEN n ELSE n - Length
  BY <1>1, <1>2, ModTwice
<1>4. h \in Int /\ Length \in Int /\ i \in Int
  BY MAFAssumption DEF Slots
<1>5. (h + i - 1) % Length = n % Length
  BY <1>2
<1> QED
  BY <1>2, <1>3, <1>4, <1>5

(* Sum of the first n inputs, none before the first.                       *)
Before(n) == IF n <= 0 THEN 0 ELSE totals[n]

(* The ith input of the window is what it adds to the totals.              *)
LEMMA WindowHolds ==
    ASSUME MAFInv, NEW i \in 1 .. Length
    PROVE  WindowNow[i] = Before(count - Length + i) - Before(count - Length + i - 1)
<1> DEFINE k == (head + i - 1) % Length
<1>1. /\ head \in Slots /\ count \in Nat /\ Length \in Nat \ {0}
      /\ totals[0] = 0 /\ lap = count - head
      /\ lap = 0 \/ lap >= Length
  BY MAFAssumption DEF MAFInv, MAFTypeOK, SlotContents, lap
<1>2. WindowNow[i] = Data[k]
  BY DEF WindowNow
<1>3. k = IF head + i - 1 < Length THEN head + i - 1 ELSE head + i - 1 - Length
  BY <1>1, Around
<1>4. k \in Slots
  BY <1>1, <1>3 DEF Slots
<1> HIDE DEF k
<1>5. CASE k < head
  <2>1. k = head + i - 1 - Length
    BY <1>1, <1>3, <1>5 DEF Slots
  <2>2. Data[k] = totals[lap + k + 1] - totals[lap + k]
    BY <1>4, <1>5 DEF MAFInv, SlotContents
  <2>3. lap + k = count - Length + i - 1 /\ lap + k >= 0
    BY <1>1, <1>4, <2>1 DEF Slots
  <2>4. lap + k + 1 = count - Length + i /\ lap + k + 1 > 0
    BY <1>1, <1>4, <2>1 DEF Slots
  <2>5. Before(count - Length + i) = totals[lap + k + 1]
    BY <1>1, <2>4 DEF Before
  <2>6. Before(count - Length + i - 1) = totals[lap + k]
    BY <1>1, <2>3 DEF Before
  <2> QED
    BY <1>2, <2>2, <2>5, <2>6
<1>6. CASE k >= head /\ lap = 0
  <2>1. Data[k] = 0
    BY <1>4, <1>6 DEF MAFInv, SlotContents
  <2>2. count - Length + i <= 0
    BY <1>1, <1>3, <1>6 DEF Slots
  <2> QED
    BY <1>1, <1>2, <2>1, <2>2 DEF Before
<1>7. CASE k >= head /\ lap # 0
  <2>1. Data[k] = totals[lap - Length + k + 1] - totals[lap - Length + k]
    BY <1>4, <1>7 DEF MAFInv, SlotContents
  <2>2. k = head + i - 1 /\ lap >= Length
    BY <1>1, <1>3, <1>7 DEF Slots
  <2>3. lap - Length + k = count - Length + i - 1 /\ lap - Length + k >= 0
    BY <1>1, <1>4, <2>2 DEF Slots
  <2>4. lap - Length + k + 1 = count - Length + i /\ lap - Length + k + 1 > 0
    BY <1>1, <1>4, <2>2 DEF Slots
  <2>5. Before(count - Length + i) = totals[lap - Length + k + 1]
    BY <1>1, <2>4 DEF Before
  <2>6. Before(count - Length + i - 1) = totals[lap - Length + k]
    BY <1>1, <2>3 DEF Before
  <2> QED
    BY <1>2, <2>1, <2>5, <2>6
<1> QED
  BY <1>1, <1>4, <1>5, <1>6, <1>7 DEF Slots

(* The running sum is the total of the window.                             *)
SumOfWindow == Accumulator = Window!Total(WindowNow)

(* It is, whenever the invariant holds.                                    *)
LEMMA SumIsTotal == MAFInv => SumOfWindow
<1> SUFFICES ASSUME MAFInv PROVE Accumulator = Window!Total(WindowNow)
  BY DEF SumOfWindow
<1> DEFINE d == count - Length
           g == [i \in 0 .. Length |-> Before(d + i) - Before(d)]
<1>1. /\ Length \in Nat \ {0} /\ count \in 0 .. MaxUpdates /\ MaxUpdates \in Nat
      /\ totals \in [0 .. MaxUpdates -> Int] /\ d \in Int
      /\ Accumulator = WindowTotal /\ totals[0] = 0
  BY MAFAssumption DEF MAFInv, MAFTypeOK, WindowMean, SlotContents
<1>2. Len(WindowNow) = Length
  BY <1>1 DEF WindowNow
<1>3. \A n \in Int : n <= count => Before(n) \in Int
  BY <1>1 DEF Before
<1>4. \A i \in 1 .. Length : WindowNow[i] = Before(d + i) - Before(d + i - 1)
  BY WindowHolds
<1>5. ASSUME NEW i \in 0 .. Length
      PROVE  g[i] = IF i = 0 THEN 0 ELSE g[i - 1] + WindowNow[i]
  <2>1. Before(d) \in Int /\ Before(d + i) \in Int /\ Before(d + i - 1) \in Int
    BY <1>1, <1>3
  <2>2. CASE i = 0
    BY <1>1, <2>1, <2>2
  <2>3. CASE i # 0
    <3>1. i \in 1 .. Length /\ i - 1 \in 0 .. Length /\ d + (i - 1) = d + i - 1
      BY <1>1, <2>3
    <3>2. g[i - 1] = Before(d + i - 1) - Before(d)
      BY <3>1
    <3>3. WindowNow[i] = Before(d + i) - Before(d + i - 1)
      BY <1>4, <3>1
    <3> HIDE DEF d
    <3> QED
      BY <2>1, <2>3, <3>2, <3>3
  <2> QED
    BY <2>2, <2>3
<1>6. g = [i \in 0 .. Len(WindowNow) |-> IF i = 0 THEN 0 ELSE g[i - 1] + WindowNow[i]]
  BY <1>2, <1>5
<1>7. Window!Total(WindowNow) = g[Length]
  <2> HIDE DEF g
  <2> QED
    BY <1>1, <1>2, <1>6, TotalIs
<1>8. g[Length] = Before(count) - Before(count - Length)
  BY <1>1
<1>9. Before(count) = totals[count] /\ Before(count - Length) =
         IF count >= Length THEN totals[count - Length] ELSE 0
  BY <1>1 DEF Before
<1> QED
  BY <1>1, <1>7, <1>8, <1>9 DEF WindowTotal

(* A sequence is the function of its elements.                             *)
LEMMA FunctionOfSeq ==
    ASSUME NEW S, NEW s \in Seq(S)
    PROVE  s = [i \in 1 .. Len(s) |-> s[i]]
  OBVIOUS

(* An update drops the oldest input of the window and appends the new one. *)
LEMMA UpdateSlides ==
    ASSUME MAFInv, SumOfWindow', NEW x \in Inputs, MovingAverageFilter_Update(x)
    PROVE  Window!Slide(x)
<1>1. /\ head \in Slots /\ Length \in Nat \ {0} /\ head' \in Slots
      /\ head' = (IF head + 1 >= Length THEN 0 ELSE head + 1)
      /\ Data \in [Slots -> Int] /\ Data' = [Data EXCEPT ![head] = x]
      /\ count < MaxUpdates /\ count' = count + 1
  BY MAFAssumption DEF MAFInv, MAFTypeOK, MovingAverageFilter_Update, Record, NextHead, Slots
<1>3. Accumulator' = Window!Total(WindowNow')
  BY DEF SumOfWindow, Window!Total
<1>4. WindowNow' = Append(Tail(WindowNow), x)
  <2>1. /\ WindowNow \in Seq(Int) /\ Len(WindowNow) = Length
        /\ Len(Tail(WindowNow)) = Length - 1 /\ Tail(WindowNow) \in Seq(Int)
        /\ \A i \in 1 .. Length - 1 : Tail(WindowNow)[i] = WindowNow[i + 1]
    <3>1. \A i \in 1 .. Length : WindowNow[i] \in Int
      <4> TAKE i \in 1 .. Length
      <4>1. (head + i - 1) % Length \in Slots
        BY <1>1, Around DEF Slots
      <4> QED
        BY <1>1, <4>1 DEF WindowNow
    <3>2. WindowNow \in Seq(Int) /\ Len(WindowNow) = Length
      BY <1>1, <3>1 DEF WindowNow
    <3> QED
      BY <1>1, <3>2
  <2>2. ASSUME NEW i \in 1 .. Length
        PROVE  WindowNow'[i] = IF i = Length THEN x ELSE WindowNow[i + 1]
    <3> DEFINE k == (head' + i - 1) % Length
    <3>1. WindowNow'[i] = Data'[k]
      BY DEF WindowNow
    <3>2. k = IF head' + i - 1 < Length THEN head' + i - 1 ELSE head' + i - 1 - Length
      BY <1>1, Around
    <3>3. k \in Slots
      BY <1>1, <3>2 DEF Slots
    <3> HIDE DEF k
    <3>4. CASE i = Length
      <4>1. k = head
        BY <1>1, <3>2, <3>4 DEF Slots
      <4> QED
        BY <1>1, <3>1, <3>4, <4>1
    <3>5. CASE i # Length
      <4>1. i + 1 \in 1 .. Length /\ k # head
        BY <1>1, <3>2, <3>5 DEF Slots
      <4>2. (head + (i + 1) - 1) % Length =
               IF head + (i + 1) - 1 < Length THEN head + (i + 1) - 1
                                              ELSE head + (i + 1) - 1 - Length
        BY <1>1, <4>1, Around
      <4>3. (head + (i + 1) - 1) % Length = k
        BY <1>1, <3>2, <3>5, <4>2 DEF Slots
      <4>4. WindowNow[i + 1] = Data[k]
        BY <4>1, <4>3 DEF WindowNow
      <4> QED
        BY <1>1, <3>1, <3>3, <3>5, <4>1, <4>4
    <3> QED
      BY <3>4, <3>5
  <2>3. WindowNow' = [i \in 1 .. Length |-> WindowNow'[i]]
    BY DEF WindowNow
  <2> DEFINE a == Append(Tail(WindowNow), x)
  <2>4. /\ a = [i \in 1 .. Length |-> a[i]]
        /\ \A i \in 1 .. Length : a[i] = IF i = Length THEN x ELSE Tail(WindowNow)[i]
    <3> DEFINE t == Tail(WindowNow)
    <3>1. t \in Seq(Int) /\ Len(t) = Length - 1 /\ x \in Int
      BY <2>1, MAFAssumption
    <3> HIDE DEF t
    <3>2. Append(t, x) \in Seq(Int) /\ Len(Append(t, x)) = Length
      BY <1>1, <3>1
    <3>3. Append(t, x) = [i \in 1 .. Length |-> Append(t, x)[i]]
      BY <3>2, FunctionOfSeq
    <3>4. \A i \in 1 .. Length : Append(t, x)[i] = IF i = Length THEN x ELSE t[i]
      BY <1>1, <3>1
    <3> QED
      BY <3>3, <3>4 DEF t
  <2>5. \A i \in 1 .. Length : a[i] = WindowNow'[i]
    BY <1>1, <2>1, <2>2, <2>4
  <2> HIDE DEF a
  <2>6. a = WindowNow'
    BY <2>3, <2>4, <2>5
  <2> QED
    BY <2>6 DEF a
<1> QED
  BY <1>1, <1>3, <1>4 DEF Window!Slide

(* MAF.c with its circular buffer and its corrected sum does what a window *)
(* does that drops its oldest input and is added up anew: for every length,*)
(* every threshold and every sequence of inputs.                           *)
THEOREM FilterSlides == MAFSpec => SlidesOverInputs
<1>1. MovingAverageFilter_Init => Window!WindowInit
  <2> SUFFICES ASSUME MovingAverageFilter_Init PROVE WindowNow = [i \in 1 .. Length |-> 0]
    BY DEF MovingAverageFilter_Init, Window!WindowInit
  <2>1. \A i \in 1 .. Length : (0 + i - 1) % Length \in Slots
    BY Around, MAFAssumption DEF Slots
  <2> QED
    BY <2>1 DEF MovingAverageFilter_Init, WindowNow
<1>2. MAFInv /\ SumOfWindow' /\ [MAFNext]_mafVars
        => [Window!WindowNext]_(Window!windowVars)
  <2> SUFFICES ASSUME MAFInv, SumOfWindow', [MAFNext]_mafVars
               PROVE  [Window!WindowNext]_(Window!windowVars)
    OBVIOUS
  <2>1. CASE \E x \in Inputs : MovingAverageFilter_Update(x)
    BY <2>1, UpdateSlides DEF Window!WindowNext
  <2>2. CASE UNCHANGED mafVars
    BY <2>2 DEF mafVars, Window!windowVars, WindowNow
  <2> QED
    BY <2>1, <2>2 DEF MAFNext, Done
<1> QED
  BY <1>1, <1>2, SumIsTotal, MAFInvInit, MAFInvStep, PTL
     DEF MAFSpec, SlidesOverInputs, Window!WindowSpec

-----------------------------------------------------------------------------
(* The conservative power theory                                           *)

(* Only values of one unit and sample are added or subtracted.             *)
LEMMA PlusIs ==
    ASSUME NEW a \in Int, NEW b \in Int, NEW w \in Int, NEW t, NEW S, NEW T
    PROVE  /\ Plus(Quantity(a, b, w, t, S), Quantity(a, b, w, t, T))
                 = Quantity(a, b, w, t, S \cup T)
           /\ Minus(Quantity(a, b, w, t, S), Quantity(a, b, w, t, T))
                 = Quantity(a, b, w, t, S \cup T)
  BY DEF Plus, Minus, Good, Unit, Quantity

(* A square is of the phases of its root.                                  *)
LEMMA SquareIs ==
    ASSUME NEW a \in Int, NEW b \in Int, NEW w \in Int, NEW t, NEW S
    PROVE  Square(Quantity(a, b, w, t, S)) = Quantity(a + a, b + b, w + w, t, S)
<1>1. S \cup S = S
  OBVIOUS
<1> DEFINE x == Quantity(a, b, w, t, S)
<1>2. x.ok /\ x.v = a /\ x.i = b /\ x.s = w /\ x.at = t /\ x.of = S
  BY DEF Quantity
<1> HIDE DEF x
<1>3. Square(x) = Quantity(x.v + x.v, x.i + x.i, x.s + x.s, x.at, x.of \cup x.of)
  BY <1>2, Zenon DEF Square, Times, Good
<1> QED
  BY <1>1, <1>2, <1>3, Zenon DEF x

(* The root of a square.                                                   *)
LEMMA RootIs ==
    ASSUME NEW a \in Int, NEW b \in Int, NEW w \in Int, NEW t, NEW S
    PROVE  RMS_Evaluate(Quantity(a + a, b + b, w + w, t, S)) = Quantity(a, b, w, t, S)
<1> DEFINE x == Quantity(a + a, b + b, w + w, t, S)
<1>1. x.ok /\ x.v = a + a /\ x.i = b + b /\ x.s = w + w /\ x.at = t /\ x.of = S
  BY DEF Quantity
<1>2. \A k \in Int : (k + k) % 2 = 0 /\ (k + k) \div 2 = k
  OBVIOUS
<1>3. /\ x.v % 2 = 0 /\ x.i % 2 = 0 /\ x.s % 2 = 0
      /\ x.v \div 2 = a /\ x.i \div 2 = b /\ x.s \div 2 = w
  BY <1>1, <1>2
<1> HIDE DEF x
<1>4. RMS_Evaluate(x) = Quantity(x.v \div 2, x.i \div 2, x.s \div 2, x.at, x.of)
  BY <1>1, <1>3, Zenon DEF RMS_Evaluate
<1> QED
  BY <1>1, <1>3, <1>4, Zenon DEF x

(* The kind of a quantity.                                                 *)
LEMMA KindIs ==
    ASSUME NEW a, NEW b, NEW w, NEW t, NEW S
    PROVE  Kind(Quantity(a, b, w, t, S)) = <<<<a, b, w>>, S>>
  BY DEF Kind, Unit, Quantity

(* The integral is one sample behind the voltage that is added to it.      *)
LEMMA IntegralIs ==
    ASSUME NEW t \in Int, NEW S
    PROVE  Integrate(Quantity(1, 0, 1, t - 1, S), Quantity(1, 0, 0, t - 1, S),
                     Quantity(1, 0, 0, t, S))
              = Quantity(1, 0, 1, t, S)
<1> DEFINE x == Quantity(1, 0, 1, t - 1, S)
           last == Quantity(1, 0, 0, t - 1, S)
           in == Quantity(1, 0, 0, t, S)
<1>1. Good(x, last) /\ x.at = in.at - 1 /\ Unit(x) = <<in.v, in.i, in.s + 1>> /\ in.at = t
  BY DEF Good, Unit, Quantity
<1>2. x.v = 1 /\ x.i = 0 /\ x.s = 1 /\ x.of = S
  BY DEF Quantity
<1> HIDE DEF x, last, in
<1>3. Integrate(x, last, in) = Quantity(x.v, x.i, x.s, in.at, x.of)
  BY <1>1, Zenon DEF Integrate
<1> QED
  BY <1>1, <1>2, <1>3, Zenon DEF x, last, in

(* The sum of three phases.                                                *)
LEMMA SumIs ==
    ASSUME me_n = 3, NEW f, NEW a \in Int, NEW b \in Int, NEW w \in Int, NEW t,
           NEW S1, NEW S2, NEW S3,
           f[1] = Quantity(a, b, w, t, S1), f[2] = Quantity(a, b, w, t, S2),
           f[3] = Quantity(a, b, w, t, S3)
    PROVE  Sum(f) = Quantity(a, b, w, t, (S1 \cup S2) \cup S3)
<1> DEFINE Adds(g) == g = [i \in 1 .. me_n |-> IF i = 1 THEN f[1] ELSE Plus(g[i - 1], f[i])]
           u == CHOOSE g : Adds(g)
           h == [i \in 1 .. me_n |-> IF i = 1 THEN f[1]
                                     ELSE IF i = 2 THEN Plus(f[1], f[2])
                                     ELSE Plus(Plus(f[1], f[2]), f[3])]
<1>1. h[1] = f[1] /\ h[2] = Plus(f[1], f[2]) /\ h[3] = Plus(Plus(f[1], f[2]), f[3])
  OBVIOUS
<1>2. Adds(h)
  <2> DEFINE e(i) == IF i = 1 THEN f[1] ELSE Plus(h[i - 1], f[i])
  <2>1. ASSUME NEW i \in 1 .. me_n PROVE h[i] = e(i)
    <3>1. i = 1 \/ i = 2 \/ i = 3
      OBVIOUS
    <3>2. 2 - 1 = 1 /\ 3 - 1 = 2
      OBVIOUS
    <3> HIDE DEF h
    <3> QED
      BY <1>1, <3>1, <3>2
  <2>2. h = [i \in 1 .. me_n |-> h[i]]
    OBVIOUS
  <2> HIDE DEF h, e
  <2>3. h = [i \in 1 .. me_n |-> e(i)]
    BY <2>1, <2>2
  <2> QED
    BY <2>3 DEF e
<1>3. Adds(u)
  BY <1>2
<1> HIDE DEF u, h
<1>4. u[1] = f[1] /\ u[2] = Plus(u[1], f[2]) /\ u[3] = Plus(u[2], f[3])
  <2> DEFINE e(i) == IF i = 1 THEN f[1] ELSE Plus(u[i - 1], f[i])
  <2>1. u = [i \in 1 .. me_n |-> e(i)]
    BY <1>3
  <2> HIDE DEF e
  <2>2. u[1] = e(1) /\ u[2] = e(2) /\ u[3] = e(3)
    BY <2>1
  <2>3. 2 - 1 = 1 /\ 3 - 1 = 2
    OBVIOUS
  <2> QED
    BY <2>2, <2>3 DEF e
<1>5. Sum(f) = u[3]
  BY DEF Sum, u
<1>6. u[2] = Quantity(a, b, w, t, S1 \cup S2)
  BY <1>4, PlusIs
<1> QED
  BY <1>4, <1>5, <1>6, PlusIs

(* The products CPT.c makes.                                               *)
LEMMA Products ==
    ASSUME NEW t, NEW S, NEW T
    PROVE  /\ Times(Quantity(1, 0, 0, t, S), Quantity(0, 1, 0, t, T))
                 = Quantity(1, 1, 0, t, S \cup T)
           /\ Times(Quantity(1, 0, 1, t, S), Quantity(0, 1, 0, t, T))
                 = Quantity(1, 1, 1, t, S \cup T)
           /\ Times(Quantity(-1, 1, 0, t, S), Quantity(1, 0, 0, t, T))
                 = Quantity(0, 1, 0, t, S \cup T)
           /\ Times(Quantity(-1, 1, -1, t, S), Quantity(1, 0, 1, t, T))
                 = Quantity(0, 1, 0, t, S \cup T)
  BY DEF Times, Good, Quantity

(* Quotients of CPT.c.                                                     *)
LEMMA Quotients ==
    ASSUME NEW t, NEW S, NEW T
    PROVE  /\ Over(Quantity(1, 1, 0, t, S), Quantity(2, 0, 0, t, T))
                 = Quantity(-1, 1, 0, t, S \cup T)
           /\ Over(Quantity(1, 1, 1, t, S), Quantity(2, 0, 2, t, T))
                 = Quantity(-1, 1, -1, t, S \cup T)
           /\ Over(Quantity(1, 1, 0, t, S), Quantity(1, 1, 0, t, T))
                 = Quantity(0, 0, 0, t, S \cup T)
  BY DEF Over, Good, Quantity

(* Sums and differences of CPT.c.                                          *)
LEMMA Sums ==
    ASSUME NEW t, NEW S, NEW T
    PROVE  /\ Plus(Quantity(0, 1, 0, t, S), Quantity(0, 1, 0, t, T))
                 = Quantity(0, 1, 0, t, S \cup T)
           /\ Minus(Quantity(0, 1, 0, t, S), Quantity(0, 1, 0, t, T))
                 = Quantity(0, 1, 0, t, S \cup T)
           /\ Plus(Quantity(2, 2, 0, t, S), Quantity(2, 2, 0, t, T))
                 = Quantity(2, 2, 0, t, S \cup T)
           /\ Minus(Quantity(1, 0, 1, t, S), Quantity(1, 0, 1, t, T))
                 = Quantity(1, 0, 1, t, S \cup T)
  BY PlusIs

(* Squares of CPT.c.                                                       *)
LEMMA Squares ==
    ASSUME NEW t, NEW S
    PROVE  /\ Square(Quantity(1, 0, 0, t, S)) = Quantity(2, 0, 0, t, S)
           /\ Square(Quantity(0, 1, 0, t, S)) = Quantity(0, 2, 0, t, S)
           /\ Square(Quantity(1, 0, 1, t, S)) = Quantity(2, 0, 2, t, S)
           /\ Square(Quantity(1, 1, 0, t, S)) = Quantity(2, 2, 0, t, S)
  BY SquareIs

(* Roots of CPT.c.                                                         *)
LEMMA Roots ==
    ASSUME NEW t, NEW S
    PROVE  /\ RMS_Evaluate(Quantity(2, 0, 0, t, S)) = Quantity(1, 0, 0, t, S)
           /\ RMS_Evaluate(Quantity(0, 2, 0, t, S)) = Quantity(0, 1, 0, t, S)
           /\ RMS_Evaluate(Quantity(2, 0, 2, t, S)) = Quantity(1, 0, 1, t, S)
           /\ RMS_Evaluate(Quantity(2, 2, 0, t, S)) = Quantity(1, 1, 0, t, S)
  BY DEF RMS_Evaluate, Quantity

-----------------------------------------------------------------------------
(* The filters: what each is fed, and when.                                *)
Abc == 1 .. 3
VoltFilters == Abc \X {"V", "I", "INT", "UI"}
PowFilters == Abc \X {"P", "W"}
ColFilters == {0} \X {"V", "I", "UI"}
CurFilters == (Abc \X {"Iv", "Iba", "Ibr"}) \cup ({0} \X {"Iv", "Iba", "Ibr", "Iua", "Iur"})
AllFilters == VoltFilters \cup PowFilters \cup ColFilters \cup CurFilters

FilterUnit(name) ==
    CASE name = "V" -> <<2, 0, 0>> [] name = "P" -> <<1, 1, 0>> [] name = "W" -> <<1, 1, 1>>
      [] name = "INT" -> <<1, 0, 1>> [] name = "UI" -> <<2, 0, 2>> [] OTHER -> <<0, 2, 0>>
FilterKind(f) ==
    <<FilterUnit(f[2]), IF f[1] = 0 \/ f[2] \in {"Iba", "Ibr"} THEN Abc ELSE {f[1]}>>

(* The filters this sample has been fed to.                                *)
Fed == CASE step = "voltages" -> {}
         [] step = "power" -> VoltFilters
         [] step = "collective" -> VoltFilters \cup PowFilters
         [] step = "currents" -> VoltFilters \cup PowFilters \cup ColFilters
         [] OTHER -> AllFilters

(* Filters in done have had the sample n.                                  *)
FedTo(m, done, n) ==
    /\ DOMAIN m = AllFilters
    /\ \A f \in AllFilters : /\ m[f].kind \in {NoKind, FilterKind(f)}
                             /\ m[f].fed = IF f \in done THEN n ELSE n - 1

(* The values of phase i, as each function leaves them.                    *)
Carried(i, n) ==
    /\ phase[i].Integral = Quantity(1, 0, 1, n, {i})
    /\ phase[i].Integral_lastInput = Quantity(1, 0, 0, n, {i})
VoltagesOf(i, n) ==
    /\ phase[i].V_pow2 = Quantity(2, 0, 0, n, {i}) /\ phase[i].V_rms = Quantity(1, 0, 0, n, {i})
    /\ phase[i].I_pow2 = Quantity(0, 2, 0, n, {i}) /\ phase[i].I_rms = Quantity(0, 1, 0, n, {i})
    /\ phase[i].UnbiasedIntegral = Quantity(1, 0, 1, n, {i})
    /\ phase[i].UnbiasedIntegral_pow2 = Quantity(2, 0, 2, n, {i})
    /\ phase[i].UnbiasedIntegral_rms = Quantity(1, 0, 1, n, {i})
PowerOf(i, n) ==
    /\ phase[i].P_avg = Quantity(1, 1, 0, n, {i}) /\ phase[i].W_avg = Quantity(1, 1, 1, n, {i})
Collected(n) ==
    /\ me.P_avg = Quantity(1, 1, 0, n, Abc) /\ me.W_avg = Quantity(1, 1, 1, n, Abc)
    /\ me.V_rms = Quantity(1, 0, 0, n, Abc) /\ me.I_rms = Quantity(0, 1, 0, n, Abc)
    /\ me.UI_rms = Quantity(1, 0, 1, n, Abc)
CurrentsOf(i, n) ==
    /\ \A x \in {"Ia", "Ir", "Iv", "Iv_rms"} : phase[i][x] = Quantity(0, 1, 0, n, {i})
    /\ \A x \in {"Iba", "Iua", "Ibr", "Iur", "Iu", "Iba_rms", "Ibr_rms"} :
          phase[i][x] = Quantity(0, 1, 0, n, Abc)
    /\ \A x \in {"Iua_rms", "Iur_rms"} : phase[i][x] = Quantity(0, 2, 0, n, Abc)
CurrentsOfAll(n) ==
    \A x \in {"Iv_rms", "Iba_rms", "Ibr_rms", "Iua_rms", "Iur_rms"} :
       me[x] = Quantity(0, 1, 0, n, Abc)
PowersOf(i, n) ==
    /\ phase[i].A = Quantity(1, 1, 0, n, {i}) /\ phase[i].V = Quantity(1, 1, 0, n, {i})
    /\ phase[i].Q = Quantity(1, 1, 0, n, Abc)
PowersOfAll(n) == \A x \in {"A", "Q", "Na", "Nr", "N", "V"} : me[x] = Quantity(1, 1, 0, n, Abc)
FactorsOf(i, n) ==
    /\ \A x \in {"PF", "VF"} : phase[i][x] = Quantity(0, 0, 0, n, {i})
    /\ phase[i].QF = Quantity(0, 0, 0, n, Abc)
FactorsOfAll(n) == \A x \in {"PF", "NF", "QF", "VF"} : me[x] = Quantity(0, 0, 0, n, Abc)

Calls == {"voltages", "power", "collective", "currents", "powers", "factors"}
Running == step \in Calls \cup {"ready"}
Behind(names) == step \in (Calls \cup {"ready"}) \ names /\ sample > 0

(* What the functions called so far have left, of this sample.             *)
ValuesInv ==
    \A i \in Abc :
       /\ step # "voltages" => Carried(i, sample)
       /\ step = "voltages" => Carried(i, sample - 1)
       /\ Behind({"voltages"}) => VoltagesOf(i, sample)
       /\ Behind({"voltages", "power"}) => PowerOf(i, sample)
       /\ Behind({"voltages", "power", "collective"}) => Collected(sample)
       /\ Behind({"voltages", "power", "collective", "currents"}) =>
             CurrentsOf(i, sample) /\ CurrentsOfAll(sample)
       /\ Behind({"voltages", "power", "collective", "currents", "powers"}) =>
             PowersOf(i, sample) /\ PowersOfAll(sample)
       /\ Behind(Calls) => FactorsOf(i, sample) /\ FactorsOfAll(sample)

BuffersApart == \A f, g \in AllFilters : buffer[f] = buffer[g] => f = g

(* The inductive invariant.                                                *)
CPTInv ==
    /\ sample \in Nat
    /\ step \in Calls \cup {"ready", "config", "failed", "crashed"}
    /\ step = "config" => sample = 0
    /\ Running => /\ me_n = 3 /\ (step # "ready" => sample > 0)
                  /\ DOMAIN phase = Abc /\ \A i \in Abc : DOMAIN phase[i] = PhaseFields
                  /\ DOMAIN me = CptFields
                  /\ FedTo(maf, Fed, sample) /\ ValuesInv /\ BuffersApart

(* The order of the calls.                                                 *)
LEMMA FunctionIs ==
    ASSUME NEW name, Function(name)
    PROVE  /\ step = name /\ UNCHANGED <<me_n, sample, buffer>>
           /\ name = "voltages" => step' = "power"
           /\ name = "power" => step' = "collective"
           /\ name = "collective" => step' = "currents"
           /\ name = "currents" => step' = "powers"
           /\ name = "powers" => step' = "factors"
           /\ name = "factors" => step' = "ready"
<1>1. PICK k \in DOMAIN CallOrder :
         CallOrder[k] = name /\ step' = IF k = 6 THEN "ready" ELSE CallOrder[k + 1]
  BY DEF Function
<1>2. /\ DOMAIN CallOrder = 1 .. 6
      /\ CallOrder[1] = "voltages" /\ CallOrder[2] = "power" /\ CallOrder[3] = "collective"
      /\ CallOrder[4] = "currents" /\ CallOrder[5] = "powers" /\ CallOrder[6] = "factors"
  BY DEF CallOrder
<1>3. k \in {1, 2, 3, 4, 5, 6}
  BY <1>2
<1>4. step = name /\ UNCHANGED <<me_n, sample, buffer>>
  BY DEF Function
<1>5. /\ k = 1 => name = "voltages" /\ step' = "power"
      /\ k = 2 => name = "power" /\ step' = "collective"
      /\ k = 3 => name = "collective" /\ step' = "currents"
      /\ k = 4 => name = "currents" /\ step' = "powers"
      /\ k = 5 => name = "powers" /\ step' = "factors"
      /\ k = 6 => name = "factors" /\ step' = "ready"
  BY <1>1, <1>2
<1> QED
  BY <1>3, <1>4, <1>5

(* The mean of values of the filter's kind is of that kind.                *)
LEMMA MeanIs ==
    ASSUME NEW f \in AllFilters, NEW done, NEW n, FedTo(maf, done, n),
           NEW x, Kind(x) = FilterKind(f)
    PROVE  Mean(f, x) = x
  BY DEF FedTo, Mean

(* The roots of means of squares.                                          *)
LEMMA RmsIs ==
    ASSUME NEW f \in AllFilters, NEW done, NEW n, FedTo(maf, done, n), NEW t, NEW S, NEW x
    PROVE  /\ x = Quantity(2, 0, 0, t, S) /\ FilterKind(f) = <<<<2, 0, 0>>, S>>
                 => Rms(f, x) = Quantity(1, 0, 0, t, S)
           /\ x = Quantity(0, 2, 0, t, S) /\ FilterKind(f) = <<<<0, 2, 0>>, S>>
                 => Rms(f, x) = Quantity(0, 1, 0, t, S)
           /\ x = Quantity(2, 0, 2, t, S) /\ FilterKind(f) = <<<<2, 0, 2>>, S>>
                 => Rms(f, x) = Quantity(1, 0, 1, t, S)
<1>1. ASSUME NEW a \in Int, NEW b \in Int, NEW w \in Int,
             x = Quantity(a + a, b + b, w + w, t, S),
             FilterKind(f) = <<<<a + a, b + b, w + w>>, S>>
      PROVE  Rms(f, x) = Quantity(a, b, w, t, S)
  <2>1. Kind(x) = FilterKind(f)
    BY <1>1, KindIs
  <2>2. Mean(f, x) = x
    BY <2>1, MeanIs
  <2> QED
    BY <1>1, <2>2, RootIs DEF Rms
<1>2. 1 + 1 = 2 /\ 0 + 0 = 0 /\ 0 \in Int /\ 1 \in Int
  OBVIOUS
<1>3. /\ Quantity(2, 0, 0, t, S) = Quantity(1 + 1, 0 + 0, 0 + 0, t, S)
      /\ Quantity(0, 2, 0, t, S) = Quantity(0 + 0, 1 + 1, 0 + 0, t, S)
      /\ Quantity(2, 0, 2, t, S) = Quantity(1 + 1, 0 + 0, 1 + 1, t, S)
      /\ <<<<2, 0, 0>>, S>> = <<<<1 + 1, 0 + 0, 0 + 0>>, S>>
      /\ <<<<0, 2, 0>>, S>> = <<<<0 + 0, 1 + 1, 0 + 0>>, S>>
      /\ <<<<2, 0, 2>>, S>> = <<<<1 + 1, 0 + 0, 1 + 1>>, S>>
  BY <1>2
<1> QED
  BY <1>1, <1>2, <1>3, Zenon

(* The inputs of a function go to filters that have not had the sample.    *)
LEMMA Feeds ==
    ASSUME NEW in, Feed(in), NEW done, NEW n \in Nat, FedTo(maf, done, n),
           DOMAIN in \subseteq AllFilters, DOMAIN in \cap done = {},
           \A f \in DOMAIN in : Kind(in[f]) = FilterKind(f)
    PROVE  FedTo(maf', done \cup DOMAIN in, n)
<1> SUFFICES ASSUME NEW f \in AllFilters
             PROVE  /\ maf'[f].kind \in {NoKind, FilterKind(f)}
                    /\ maf'[f].fed = IF f \in done \cup DOMAIN in THEN n ELSE n - 1
  BY DEF FedTo, Feed
<1>1. maf'[f] = IF f \in DOMAIN in THEN [kind |-> Kind(in[f]), fed |-> maf[f].fed + 1]
                ELSE maf[f]
  BY DEF FedTo, Feed
<1>2. /\ maf[f].kind \in {NoKind, FilterKind(f)}
      /\ maf[f].fed = IF f \in done THEN n ELSE n - 1
  BY DEF FedTo
<1>3. CASE f \in DOMAIN in
  <2>1. maf'[f].kind = Kind(in[f]) /\ maf'[f].fed = maf[f].fed + 1
    BY <1>1, <1>3
  <2>2. f \notin done
    BY <1>3
  <2> QED
    BY <1>2, <1>3, <2>1, <2>2
<1>4. CASE f \notin DOMAIN in
  BY <1>1, <1>2, <1>4
<1> QED
  BY <1>3, <1>4

(* What the invariant says of a call.                                      *)
LEMMA AtCall ==
    ASSUME CPTInv, step \in Calls
    PROVE  /\ me_n = 3 /\ Phases = Abc /\ sample \in Nat /\ sample > 0
           /\ DOMAIN phase = Abc /\ (\A i \in Abc : DOMAIN phase[i] = PhaseFields)
           /\ DOMAIN me = CptFields
           /\ FedTo(maf, Fed, sample) /\ BuffersApart /\ ValuesInv
           /\ step # "ready" /\ Running
<1>1. step # "ready" /\ Running
  BY DEF Running, Calls
<1> QED
  BY <1>1 DEF CPTInv, Phases, Abc

(* What is left to show of a call.                                         *)
LEMMA Reassemble ==
    ASSUME CPTInv, step \in Calls, UNCHANGED <<me_n, sample, buffer>>,
           step' \in Calls \cup {"ready"}, DOMAIN phase' = Abc,
           \A i \in Abc : DOMAIN phase'[i] = PhaseFields, DOMAIN me' = CptFields,
           FedTo(maf', Fed', sample), ValuesInv'
    PROVE  CPTInv'
<1>1. me_n = 3 /\ sample \in Nat /\ sample > 0 /\ BuffersApart
  BY AtCall
<1>2. BuffersApart'
  BY <1>1 DEF BuffersApart
<1>3. FedTo(maf, Fed, sample)'
  OBVIOUS
<1>4. step' # "config" /\ sample' \in Nat /\ me_n' = 3 /\ sample' > 0
  BY <1>1 DEF Calls
<1> QED
  BY <1>2, <1>3, <1>4 DEF CPTInv

(* The first function.                                                     *)
LEMMA VoltagesStep ==
    ASSUME CPTInv, CPT_UpdateVoltagesAndCurrents PROVE CPTInv'
<1> DEFINE names == {"V", "I", "INT", "UI"}
           integral == [i \in Phases |->
                          Integrate(phase[i].Integral, phase[i].Integral_lastInput, V(i))]
           unbiased == [i \in Phases |-> Minus(integral[i], Mean(<<i, "INT">>, integral[i]))]
           In(f) == CASE f[2] = "V" -> Square(V(f[1]))
                      [] f[2] = "I" -> Square(I(f[1]))
                      [] f[2] = "INT" -> integral[f[1]]
                      [] f[2] = "UI" -> Square(unbiased[f[1]])
           in == [f \in Filters(names) |-> In(f)]
           new(i) == [phase[i] EXCEPT
                !.V_pow2 = In(<<i, "V">>), !.V_rms = Rms(<<i, "V">>, In(<<i, "V">>)),
                !.I_pow2 = In(<<i, "I">>), !.I_rms = Rms(<<i, "I">>, In(<<i, "I">>)),
                !.Integral = integral[i], !.Integral_lastInput = V(i),
                !.UnbiasedIntegral = unbiased[i],
                !.UnbiasedIntegral_pow2 = In(<<i, "UI">>),
                !.UnbiasedIntegral_rms = Rms(<<i, "UI">>, In(<<i, "UI">>))]
           n == sample
<1>1. /\ Function("voltages") /\ phase' = [i \in Phases |-> new(i)] /\ Feed(in)
      /\ UNCHANGED me
  BY Zenon DEF CPT_UpdateVoltagesAndCurrents
<1>2. step = "voltages" /\ step' = "power" /\ UNCHANGED <<me_n, sample, buffer>>
  BY <1>1, FunctionIs
<1>3. /\ me_n = 3 /\ Phases = Abc /\ n \in Nat /\ n > 0
      /\ DOMAIN phase = Abc /\ (\A i \in Abc : DOMAIN phase[i] = PhaseFields)
      /\ DOMAIN me = CptFields /\ FedTo(maf, {}, n) /\ BuffersApart
  BY <1>2, AtCall DEF Calls, Fed
<1>4. \A i \in Abc : Carried(i, n - 1)
  BY <1>2, AtCall DEF Calls, ValuesInv
<1>5. ASSUME NEW i \in Abc
      PROVE  /\ integral[i] = Quantity(1, 0, 1, n, {i})
             /\ unbiased[i] = Quantity(1, 0, 1, n, {i})
             /\ In(<<i, "V">>) = Quantity(2, 0, 0, n, {i})
             /\ In(<<i, "I">>) = Quantity(0, 2, 0, n, {i})
             /\ In(<<i, "INT">>) = Quantity(1, 0, 1, n, {i})
             /\ In(<<i, "UI">>) = Quantity(2, 0, 2, n, {i})
             /\ Rms(<<i, "V">>, In(<<i, "V">>)) = Quantity(1, 0, 0, n, {i})
             /\ Rms(<<i, "I">>, In(<<i, "I">>)) = Quantity(0, 1, 0, n, {i})
             /\ Rms(<<i, "UI">>, In(<<i, "UI">>)) = Quantity(1, 0, 1, n, {i})
  <2>0. \A x \in names : <<i, x>> \in AllFilters /\ <<i, x>>[1] = i /\ <<i, x>>[2] = x
    BY DEF AllFilters, VoltFilters
  <2>1. integral[i] = Quantity(1, 0, 1, n, {i})
    BY <1>3, <1>4, IntegralIs DEF Carried, V
  <2>2. FilterKind(<<i, "INT">>) = <<<<1, 0, 1>>, {i}>>
    BY DEF FilterKind, FilterUnit, Abc
  <2>3. Mean(<<i, "INT">>, integral[i]) = integral[i]
    BY <1>3, <2>0, <2>1, <2>2, MeanIs, KindIs
  <2>4. unbiased[i] = Quantity(1, 0, 1, n, {i})
    <3>1. unbiased[i] = Minus(integral[i], integral[i])
      BY <1>3, <2>3
    <3> HIDE DEF integral, unbiased
    <3>2. Minus(integral[i], integral[i]) = Quantity(1, 0, 1, n, {i} \cup {i})
      BY <2>1, PlusIs
    <3> QED
      BY <3>1, <3>2
  <2>5. /\ In(<<i, "V">>) = Square(V(i)) /\ In(<<i, "I">>) = Square(I(i))
        /\ In(<<i, "INT">>) = integral[i] /\ In(<<i, "UI">>) = Square(unbiased[i])
    <3> HIDE DEF integral, unbiased
    <3> QED
      BY <2>0
  <2> HIDE DEF integral, unbiased, In
  <2>6. In(<<i, "V">>) = Quantity(2, 0, 0, n, {i})
    BY <2>5, SquareIs DEF V
  <2>7. In(<<i, "I">>) = Quantity(0, 2, 0, n, {i})
    BY <2>5, SquareIs DEF I
  <2>8. In(<<i, "UI">>) = Quantity(2, 0, 2, n, {i})
    BY <2>4, <2>5, SquareIs
  <2>9. /\ FilterKind(<<i, "V">>) = <<<<2, 0, 0>>, {i}>>
        /\ FilterKind(<<i, "I">>) = <<<<0, 2, 0>>, {i}>>
        /\ FilterKind(<<i, "UI">>) = <<<<2, 0, 2>>, {i}>>
    BY DEF FilterKind, FilterUnit, Abc
  <2>11. Rms(<<i, "V">>, In(<<i, "V">>)) = Quantity(1, 0, 0, n, {i})
    <3>1. FedTo(maf, {}, n) /\ <<i, "V">> \in AllFilters
      BY <1>3, <2>0
    <3> QED
      BY <2>6, <2>9, <3>1, RmsIs
  <2>12. Rms(<<i, "I">>, In(<<i, "I">>)) = Quantity(0, 1, 0, n, {i})
    <3>1. FedTo(maf, {}, n) /\ <<i, "I">> \in AllFilters
      BY <1>3, <2>0
    <3> QED
      BY <2>7, <2>9, <3>1, RmsIs
  <2>13. Rms(<<i, "UI">>, In(<<i, "UI">>)) = Quantity(1, 0, 1, n, {i})
    <3>1. FedTo(maf, {}, n) /\ <<i, "UI">> \in AllFilters
      BY <1>3, <2>0
    <3> QED
      BY <2>8, <2>9, <3>1, RmsIs
  <2> QED
    BY <2>1, <2>4, <2>5, <2>6, <2>7, <2>8, <2>11, <2>12, <2>13
<1> HIDE DEF integral, unbiased, In
<1>6. ASSUME NEW i \in Abc
      PROVE  DOMAIN phase'[i] = PhaseFields /\ Carried(i, n)' /\ VoltagesOf(i, n)'
  <2>1. phase'[i] = [phase[i] EXCEPT
           !.V_pow2 = Quantity(2, 0, 0, n, {i}), !.V_rms = Quantity(1, 0, 0, n, {i}),
           !.I_pow2 = Quantity(0, 2, 0, n, {i}), !.I_rms = Quantity(0, 1, 0, n, {i}),
           !.Integral = Quantity(1, 0, 1, n, {i}),
           !.Integral_lastInput = Quantity(1, 0, 0, n, {i}),
           !.UnbiasedIntegral = Quantity(1, 0, 1, n, {i}),
           !.UnbiasedIntegral_pow2 = Quantity(2, 0, 2, n, {i}),
           !.UnbiasedIntegral_rms = Quantity(1, 0, 1, n, {i})]
    <3>1. phase'[i] = new(i)
      BY <1>1, <1>3
    <3>2. V(i) = Quantity(1, 0, 0, n, {i})
      BY DEF V
    <3> QED
      BY <1>5, <3>1, <3>2, Zenon
  <2>2. DOMAIN phase[i] = PhaseFields
    BY <1>3
  <2> HIDE DEF new
  <2>3. DOMAIN phase'[i] = PhaseFields
    BY <2>1, <2>2
  <2>4. Carried(i, n)'
    BY <1>2, <2>1, <2>2 DEF Carried, PhaseFields
  <2>5. VoltagesOf(i, n)'
    BY <1>2, <2>1, <2>2 DEF VoltagesOf, PhaseFields
  <2> QED
    BY <2>3, <2>4, <2>5
<1>7. FedTo(maf', VoltFilters, n)
  <2>1. DOMAIN in = VoltFilters
    BY <1>3 DEF VoltFilters, Filters
  <2>2. ASSUME NEW f \in VoltFilters PROVE Kind(in[f]) = FilterKind(f)
    <3>1. PICK i \in Abc, x \in names : f = <<i, x>>
      BY <2>2 DEF VoltFilters
    <3>2. in[f] = In(<<i, x>>)
      BY <2>1, <3>1
    <3>3. FilterKind(f) = <<FilterUnit(x), {i}>>
      BY <3>1 DEF FilterKind, Abc
    <3>4. /\ x = "V" => FilterUnit(x) = <<2, 0, 0>> /\ in[f] = Quantity(2, 0, 0, n, {i})
          /\ x = "I" => FilterUnit(x) = <<0, 2, 0>> /\ in[f] = Quantity(0, 2, 0, n, {i})
          /\ x = "INT" => FilterUnit(x) = <<1, 0, 1>> /\ in[f] = Quantity(1, 0, 1, n, {i})
          /\ x = "UI" => FilterUnit(x) = <<2, 0, 2>> /\ in[f] = Quantity(2, 0, 2, n, {i})
      BY <1>5, <3>2 DEF FilterUnit
    <3> HIDE DEF in
    <3> QED
      BY <3>3, <3>4, KindIs
  <2>3. VoltFilters \subseteq AllFilters
    BY DEF AllFilters
  <2> HIDE DEF in
  <2>4. FedTo(maf', {} \cup DOMAIN in, n)
    BY <1>1, <1>3, <2>1, <2>2, <2>3, Feeds
  <2> QED
    BY <2>1, <2>4
<1> HIDE DEF in, new
<1>8. DOMAIN phase' = Abc
  BY <1>1, <1>3
<1>9. ValuesInv'
  <2>1. \A i \in Abc : Carried(i, n)' /\ VoltagesOf(i, n)'
    BY <1>6
  <2> QED
    BY <1>2, <2>1 DEF ValuesInv, Behind, Calls
<1>10. FedTo(maf', Fed', sample)
  BY <1>2, <1>7 DEF Fed
<1> QED
  BY <1>1, <1>2, <1>3, <1>6, <1>8, <1>9, <1>10, Reassemble DEF Calls

(* Power and energy.                                                       *)
LEMMA PowerStep ==
    ASSUME CPTInv, CPT_UpdatePowerAndEnergy PROVE CPTInv'
<1> DEFINE names == {"P", "W"}
           In(f) == IF f[2] = "P" THEN Times(V(f[1]), I(f[1]))
                                  ELSE Times(phase[f[1]].UnbiasedIntegral, I(f[1]))
           in == [f \in Filters(names) |-> In(f)]
           W(i) == Mean(<<i, "W">>, In(<<i, "W">>))
           new(i) == [phase[i] EXCEPT
                    !.P_avg = Mean(<<i, "P">>, In(<<i, "P">>)), !.W_avg = W(i),
                    !.Q = Times(W(i), Over(phase[i].V_rms, phase[i].UnbiasedIntegral_rms))]
           n == sample
<1>1. /\ Function("power") /\ phase' = [i \in Phases |-> new(i)] /\ Feed(in)
      /\ UNCHANGED me
  BY Zenon DEF CPT_UpdatePowerAndEnergy
<1>2. step = "power" /\ step' = "collective" /\ UNCHANGED <<me_n, sample, buffer>>
  BY <1>1, FunctionIs
<1>3. /\ me_n = 3 /\ Phases = Abc /\ n \in Nat /\ n > 0
      /\ DOMAIN phase = Abc /\ (\A i \in Abc : DOMAIN phase[i] = PhaseFields)
      /\ DOMAIN me = CptFields /\ FedTo(maf, VoltFilters, n) /\ BuffersApart
  BY <1>2, AtCall DEF Calls, Fed
<1>4. \A i \in Abc : Carried(i, n) /\ VoltagesOf(i, n)
  BY <1>2, AtCall DEF Calls, ValuesInv, Behind
<1>5. ASSUME NEW i \in Abc
      PROVE  /\ In(<<i, "P">>) = Quantity(1, 1, 0, n, {i})
             /\ In(<<i, "W">>) = Quantity(1, 1, 1, n, {i})
             /\ Mean(<<i, "P">>, In(<<i, "P">>)) = Quantity(1, 1, 0, n, {i})
             /\ Mean(<<i, "W">>, In(<<i, "W">>)) = Quantity(1, 1, 1, n, {i})
  <2>0. \A x \in names : <<i, x>> \in AllFilters /\ <<i, x>>[1] = i /\ <<i, x>>[2] = x
    BY DEF AllFilters, PowFilters
  <2>1. /\ V(i) = Quantity(1, 0, 0, n, {i}) /\ I(i) = Quantity(0, 1, 0, n, {i})
        /\ phase[i].UnbiasedIntegral = Quantity(1, 0, 1, n, {i})
        /\ {i} \cup {i} = {i}
    BY <1>4 DEF V, I, VoltagesOf
  <2>2. /\ In(<<i, "P">>) = Times(V(i), I(i))
        /\ In(<<i, "W">>) = Times(phase[i].UnbiasedIntegral, I(i))
    BY <2>0
  <2> HIDE DEF In
  <2>3. In(<<i, "P">>) = Quantity(1, 1, 0, n, {i})
    <3>1. Times(Quantity(1, 0, 0, n, {i}), Quantity(0, 1, 0, n, {i}))
             = Quantity(1, 1, 0, n, {i} \cup {i})
      BY Products
    <3> QED
      BY <2>1, <2>2, <3>1
  <2>4. In(<<i, "W">>) = Quantity(1, 1, 1, n, {i})
    <3>1. Times(Quantity(1, 0, 1, n, {i}), Quantity(0, 1, 0, n, {i}))
             = Quantity(1, 1, 1, n, {i} \cup {i})
      BY Products
    <3> QED
      BY <2>1, <2>2, <3>1
  <2>5. /\ FilterKind(<<i, "P">>) = <<<<1, 1, 0>>, {i}>>
        /\ FilterKind(<<i, "W">>) = <<<<1, 1, 1>>, {i}>>
    BY DEF FilterKind, FilterUnit, Abc
  <2>6. /\ Kind(In(<<i, "P">>)) = FilterKind(<<i, "P">>)
        /\ Kind(In(<<i, "W">>)) = FilterKind(<<i, "W">>)
    <3>1. /\ Kind(Quantity(1, 1, 0, n, {i})) = <<<<1, 1, 0>>, {i}>>
          /\ Kind(Quantity(1, 1, 1, n, {i})) = <<<<1, 1, 1>>, {i}>>
      BY KindIs
    <3> QED
      BY <2>3, <2>4, <2>5, <3>1
  <2>7. /\ Mean(<<i, "P">>, In(<<i, "P">>)) = In(<<i, "P">>)
        /\ Mean(<<i, "W">>, In(<<i, "W">>)) = In(<<i, "W">>)
    BY <1>3, <2>0, <2>6, MeanIs
  <2> QED
    BY <2>3, <2>4, <2>7
<1> HIDE DEF In
<1>6. ASSUME NEW i \in Abc
      PROVE  /\ DOMAIN phase'[i] = PhaseFields /\ Carried(i, n)' /\ VoltagesOf(i, n)'
             /\ PowerOf(i, n)'
  <2> DEFINE Q == Times(W(i), Over(phase[i].V_rms, phase[i].UnbiasedIntegral_rms))
  <2>1. phase'[i] = [phase[i] EXCEPT !.P_avg = Quantity(1, 1, 0, n, {i}),
                                     !.W_avg = Quantity(1, 1, 1, n, {i}), !.Q = Q]
    BY <1>1, <1>3, <1>5
  <2>2. DOMAIN phase[i] = PhaseFields
    BY <1>3
  <2> HIDE DEF new, W, Q
  <2>3. DOMAIN phase'[i] = PhaseFields
    BY <2>1, <2>2
  <2>4. Carried(i, n)'
    BY <1>2, <1>4, <2>1, <2>2 DEF Carried, PhaseFields
  <2>5. VoltagesOf(i, n)'
    BY <1>2, <1>4, <2>1, <2>2 DEF VoltagesOf, PhaseFields
  <2>6. PowerOf(i, n)'
    BY <1>2, <2>1, <2>2 DEF PowerOf, PhaseFields
  <2> QED
    BY <2>3, <2>4, <2>5, <2>6
<1>7. FedTo(maf', VoltFilters \cup PowFilters, n)
  <2>1. DOMAIN in = PowFilters
    BY <1>3 DEF PowFilters, Filters
  <2>2. ASSUME NEW f \in PowFilters PROVE Kind(in[f]) = FilterKind(f)
    <3>1. PICK i \in Abc, x \in names : f = <<i, x>>
      BY <2>2 DEF PowFilters
    <3>2. in[f] = In(<<i, x>>)
      BY <2>1, <3>1
    <3>3. FilterKind(f) = <<FilterUnit(x), {i}>>
      BY <3>1 DEF FilterKind, Abc
    <3>4. /\ x = "P" => FilterUnit(x) = <<1, 1, 0>> /\ in[f] = Quantity(1, 1, 0, n, {i})
          /\ x = "W" => FilterUnit(x) = <<1, 1, 1>> /\ in[f] = Quantity(1, 1, 1, n, {i})
      BY <1>5, <3>2 DEF FilterUnit
    <3> HIDE DEF in
    <3> QED
      BY <3>3, <3>4, KindIs
  <2>3. PowFilters \subseteq AllFilters /\ PowFilters \cap VoltFilters = {}
    BY DEF AllFilters, PowFilters, VoltFilters
  <2> HIDE DEF in
  <2>4. FedTo(maf', VoltFilters \cup DOMAIN in, n)
    BY <1>1, <1>3, <2>1, <2>2, <2>3, Feeds
  <2> QED
    BY <2>1, <2>4
<1> HIDE DEF in, new
<1>8. DOMAIN phase' = Abc
  BY <1>1, <1>3
<1>9. ValuesInv'
  <2>1. \A i \in Abc : Carried(i, n)' /\ VoltagesOf(i, n)' /\ PowerOf(i, n)'
    BY <1>6
  <2> QED
    BY <1>2, <2>1 DEF ValuesInv, Behind, Calls
<1>10. FedTo(maf', Fed', sample)
  BY <1>2, <1>7 DEF Fed
<1> QED
  BY <1>1, <1>2, <1>3, <1>6, <1>8, <1>9, <1>10, Reassemble DEF Calls

(* The values of all phases together.                                      *)
LEMMA CollectiveStep ==
    ASSUME CPTInv, CPT_UpdateCollectiveValues PROVE CPTInv'
<1> DEFINE names == {"V", "I", "UI"}
           Of(x) == Sum([i \in Phases |-> phase[i][x]])
           In(f) == CASE f[2] = "V" -> Of("V_pow2")
                      [] f[2] = "I" -> Of("I_pow2")
                      [] f[2] = "UI" -> Of("UnbiasedIntegral_pow2")
           in == [f \in {0} \X names |-> In(f)]
           n == sample
<1>1. /\ Function("collective") /\ UNCHANGED phase /\ Feed(in)
      /\ me' = [me EXCEPT !.P_avg = Of("P_avg"), !.W_avg = Of("W_avg"),
                     !.V_rms = Rms(<<0, "V">>, In(<<0, "V">>)),
                     !.I_rms = Rms(<<0, "I">>, In(<<0, "I">>)),
                     !.UI_rms = Rms(<<0, "UI">>, In(<<0, "UI">>))]
  BY Zenon DEF CPT_UpdateCollectiveValues
<1>2. step = "collective" /\ step' = "currents" /\ UNCHANGED <<me_n, sample, buffer>>
  BY <1>1, FunctionIs
<1>3. /\ me_n = 3 /\ Phases = Abc /\ n \in Nat /\ n > 0
      /\ DOMAIN phase = Abc /\ (\A i \in Abc : DOMAIN phase[i] = PhaseFields)
      /\ DOMAIN me = CptFields /\ FedTo(maf, VoltFilters \cup PowFilters, n)
  BY <1>2, AtCall DEF Calls, Fed
<1>4. \A i \in Abc : Carried(i, n) /\ VoltagesOf(i, n) /\ PowerOf(i, n)
  BY <1>2, AtCall DEF Calls, ValuesInv, Behind
<1>5. ASSUME NEW x, NEW a \in Int, NEW b \in Int, NEW w \in Int,
             \A i \in Abc : phase[i][x] = Quantity(a, b, w, n, {i})
      PROVE  Of(x) = Quantity(a, b, w, n, Abc)
  <2> DEFINE g == [i \in Phases |-> phase[i][x]]
  <2>1. /\ g[1] = Quantity(a, b, w, n, {1}) /\ g[2] = Quantity(a, b, w, n, {2})
        /\ g[3] = Quantity(a, b, w, n, {3})
    BY <1>3, <1>5 DEF Abc
  <2> HIDE DEF g
  <2>2. Sum(g) = Quantity(a, b, w, n, ({1} \cup {2}) \cup {3})
    BY <1>3, <2>1, SumIs
  <2>3. ({1} \cup {2}) \cup {3} = Abc
    BY DEF Abc
  <2> QED
    BY <2>2, <2>3 DEF g
<1>6. /\ Of("V_pow2") = Quantity(2, 0, 0, n, Abc) /\ Of("I_pow2") = Quantity(0, 2, 0, n, Abc)
      /\ Of("UnbiasedIntegral_pow2") = Quantity(2, 0, 2, n, Abc)
      /\ Of("P_avg") = Quantity(1, 1, 0, n, Abc) /\ Of("W_avg") = Quantity(1, 1, 1, n, Abc)
  <2> HIDE DEF Of
  <2>1. 0 \in Int /\ 1 \in Int /\ 2 \in Int
    OBVIOUS
  <2>2. \A i \in Abc :
           /\ phase[i]["V_pow2"] = Quantity(2, 0, 0, n, {i})
           /\ phase[i]["I_pow2"] = Quantity(0, 2, 0, n, {i})
           /\ phase[i]["UnbiasedIntegral_pow2"] = Quantity(2, 0, 2, n, {i})
           /\ phase[i]["P_avg"] = Quantity(1, 1, 0, n, {i})
           /\ phase[i]["W_avg"] = Quantity(1, 1, 1, n, {i})
    BY <1>4 DEF VoltagesOf, PowerOf
  <2>3. Of("V_pow2") = Quantity(2, 0, 0, n, Abc)
    <3>1. \A i \in Abc : phase[i]["V_pow2"] = Quantity(2, 0, 0, n, {i})
      BY <2>2
    <3> QED
      BY <1>5, <2>1, <3>1
  <2>4. Of("I_pow2") = Quantity(0, 2, 0, n, Abc)
    <3>1. \A i \in Abc : phase[i]["I_pow2"] = Quantity(0, 2, 0, n, {i})
      BY <2>2
    <3> QED
      BY <1>5, <2>1, <3>1
  <2>5. Of("UnbiasedIntegral_pow2") = Quantity(2, 0, 2, n, Abc)
    <3>1. \A i \in Abc : phase[i]["UnbiasedIntegral_pow2"] = Quantity(2, 0, 2, n, {i})
      BY <2>2
    <3> QED
      BY <1>5, <2>1, <3>1
  <2>6. Of("P_avg") = Quantity(1, 1, 0, n, Abc)
    <3>1. \A i \in Abc : phase[i]["P_avg"] = Quantity(1, 1, 0, n, {i})
      BY <2>2
    <3> QED
      BY <1>5, <2>1, <3>1
  <2>7. Of("W_avg") = Quantity(1, 1, 1, n, Abc)
    <3>1. \A i \in Abc : phase[i]["W_avg"] = Quantity(1, 1, 1, n, {i})
      BY <2>2
    <3> QED
      BY <1>5, <2>1, <3>1
  <2> QED
    BY <2>3, <2>4, <2>5, <2>6, <2>7
<1> HIDE DEF Of
<1>7. \A x \in names : <<0, x>> \in AllFilters /\ <<0, x>>[2] = x
  BY DEF AllFilters, ColFilters
<1>8. /\ In(<<0, "V">>) = Quantity(2, 0, 0, n, Abc) /\ In(<<0, "I">>) = Quantity(0, 2, 0, n, Abc)
      /\ In(<<0, "UI">>) = Quantity(2, 0, 2, n, Abc)
  BY <1>6
<1> HIDE DEF In
<1>9. /\ FilterKind(<<0, "V">>) = <<<<2, 0, 0>>, Abc>>
      /\ FilterKind(<<0, "I">>) = <<<<0, 2, 0>>, Abc>>
      /\ FilterKind(<<0, "UI">>) = <<<<2, 0, 2>>, Abc>>
  BY DEF FilterKind, FilterUnit
<1>10. ASSUME NEW x \in names
       PROVE  FedTo(maf, VoltFilters \cup PowFilters, n) /\ <<0, x>> \in AllFilters
  BY <1>3, <1>7
<1>11. Rms(<<0, "V">>, In(<<0, "V">>)) = Quantity(1, 0, 0, n, Abc)
  BY <1>8, <1>9, <1>10, RmsIs
<1>12. Rms(<<0, "I">>, In(<<0, "I">>)) = Quantity(0, 1, 0, n, Abc)
  BY <1>8, <1>9, <1>10, RmsIs
<1>13. Rms(<<0, "UI">>, In(<<0, "UI">>)) = Quantity(1, 0, 1, n, Abc)
  BY <1>8, <1>9, <1>10, RmsIs
<1>14. DOMAIN me' = CptFields /\ Collected(n)'
  <2>1. me' = [me EXCEPT !.P_avg = Quantity(1, 1, 0, n, Abc), !.W_avg = Quantity(1, 1, 1, n, Abc),
                     !.V_rms = Quantity(1, 0, 0, n, Abc), !.I_rms = Quantity(0, 1, 0, n, Abc),
                     !.UI_rms = Quantity(1, 0, 1, n, Abc)]
    BY <1>1, <1>6, <1>11, <1>12, <1>13, Zenon
  <2>2. DOMAIN me = CptFields
    BY <1>3
  <2> QED
    BY <1>2, <2>1, <2>2 DEF Collected, CptFields
<1>15. FedTo(maf', (VoltFilters \cup PowFilters) \cup ColFilters, n)
  <2>1. DOMAIN in = ColFilters
    BY DEF ColFilters
  <2>2. ASSUME NEW f \in ColFilters PROVE Kind(in[f]) = FilterKind(f)
    <3>1. PICK x \in names : f = <<0, x>>
      BY <2>2 DEF ColFilters
    <3>2. in[f] = In(<<0, x>>)
      BY <2>1, <3>1
    <3> HIDE DEF in
    <3> QED
      BY <1>8, <1>9, <3>1, <3>2, KindIs
  <2>3. ColFilters \subseteq AllFilters /\ ColFilters \cap (VoltFilters \cup PowFilters) = {}
    BY DEF AllFilters, PowFilters, VoltFilters, ColFilters, Abc
  <2> HIDE DEF in
  <2>4. FedTo(maf', (VoltFilters \cup PowFilters) \cup DOMAIN in, n)
    BY <1>1, <1>3, <2>1, <2>2, <2>3, Feeds
  <2> QED
    BY <2>1, <2>4
<1>16. ValuesInv'
  <2>1. \A i \in Abc : Carried(i, n)' /\ VoltagesOf(i, n)' /\ PowerOf(i, n)'
    BY <1>1, <1>2, <1>4 DEF Carried, VoltagesOf, PowerOf
  <2> QED
    BY <1>2, <1>14, <2>1 DEF ValuesInv, Behind, Calls
<1>17. FedTo(maf', Fed', sample)
  <2>1. Fed' = (VoltFilters \cup PowFilters) \cup ColFilters
    BY <1>2 DEF Fed
  <2> QED
    BY <1>15, <2>1
<1> QED
  BY <1>1, <1>2, <1>3, <1>14, <1>16, <1>17, Reassemble DEF Calls

(* The currents of a phase.                                                *)
CurrentAt(i) ==
    LET p == phase[i]
        UI == p.UnbiasedIntegral
        Ia == Times(Over(p.P_avg, Square(p.V_rms)), V(i))
        Ir == Times(Over(p.W_avg, Square(p.UnbiasedIntegral_rms)), UI)
        Iba == Times(Over(me.P_avg, Square(me.V_rms)), V(i))
        Ibr == Times(Over(me.W_avg, Square(me.UI_rms)), UI)
    IN  [Ia |-> Ia, Ir |-> Ir, Iv |-> Minus(Minus(I(i), Ia), Ir),
         Iba |-> Iba, Ibr |-> Ibr, Iua |-> Minus(Ia, Iba), Iur |-> Minus(Ir, Ibr)]

(* Active, reactive and void current are of the phase alone, the balanced *)
(* and unbalanced ones of all phases.                                      *)
LEMMA CurrentIs ==
    ASSUME NEW i \in Abc, VoltagesOf(i, sample), PowerOf(i, sample), Collected(sample)
    PROVE  LET cur == CurrentAt(i)
           IN  /\ cur.Ia = Quantity(0, 1, 0, sample, {i}) /\ cur.Ir = Quantity(0, 1, 0, sample, {i})
               /\ cur.Iv = Quantity(0, 1, 0, sample, {i})
               /\ cur.Iba = Quantity(0, 1, 0, sample, Abc) /\ cur.Ibr = Quantity(0, 1, 0, sample, Abc)
               /\ cur.Iua = Quantity(0, 1, 0, sample, Abc) /\ cur.Iur = Quantity(0, 1, 0, sample, Abc)
<1> DEFINE n == sample
           p == phase[i]
           UI == p.UnbiasedIntegral
           Ia == Times(Over(p.P_avg, Square(p.V_rms)), V(i))
           Ir == Times(Over(p.W_avg, Square(p.UnbiasedIntegral_rms)), UI)
           Iba == Times(Over(me.P_avg, Square(me.V_rms)), V(i))
           Ibr == Times(Over(me.W_avg, Square(me.UI_rms)), UI)
<1>1. {i} \cup {i} = {i} /\ Abc \cup {i} = Abc /\ {i} \cup Abc = Abc /\ Abc \cup Abc = Abc
  OBVIOUS
<1>2. /\ V(i) = Quantity(1, 0, 0, n, {i}) /\ I(i) = Quantity(0, 1, 0, n, {i})
      /\ UI = Quantity(1, 0, 1, n, {i}) /\ p.V_rms = Quantity(1, 0, 0, n, {i})
      /\ p.UnbiasedIntegral_rms = Quantity(1, 0, 1, n, {i})
      /\ p.P_avg = Quantity(1, 1, 0, n, {i}) /\ p.W_avg = Quantity(1, 1, 1, n, {i})
  BY DEF V, I, VoltagesOf, PowerOf
<1>3. /\ me.P_avg = Quantity(1, 1, 0, n, Abc) /\ me.W_avg = Quantity(1, 1, 1, n, Abc)
      /\ me.V_rms = Quantity(1, 0, 0, n, Abc) /\ me.UI_rms = Quantity(1, 0, 1, n, Abc)
  BY DEF Collected
<1>4. ASSUME NEW S, S = {i} \/ S = Abc
      PROVE  /\ Square(Quantity(1, 0, 0, n, S)) = Quantity(2, 0, 0, n, S)
             /\ Square(Quantity(1, 0, 1, n, S)) = Quantity(2, 0, 2, n, S)
             /\ Over(Quantity(1, 1, 0, n, S), Quantity(2, 0, 0, n, S)) = Quantity(-1, 1, 0, n, S)
             /\ Over(Quantity(1, 1, 1, n, S), Quantity(2, 0, 2, n, S)) = Quantity(-1, 1, -1, n, S)
             /\ Times(Quantity(-1, 1, 0, n, S), Quantity(1, 0, 0, n, {i}))
                   = Quantity(0, 1, 0, n, S)
             /\ Times(Quantity(-1, 1, -1, n, S), Quantity(1, 0, 1, n, {i}))
                   = Quantity(0, 1, 0, n, S)
  <2>1. S \cup S = S /\ S \cup {i} = S
    BY <1>1, <1>4
  <2>2. /\ Square(Quantity(1, 0, 0, n, S)) = Quantity(2, 0, 0, n, S)
        /\ Square(Quantity(1, 0, 1, n, S)) = Quantity(2, 0, 2, n, S)
    BY Squares
  <2>3. /\ Over(Quantity(1, 1, 0, n, S), Quantity(2, 0, 0, n, S)) = Quantity(-1, 1, 0, n, S)
        /\ Over(Quantity(1, 1, 1, n, S), Quantity(2, 0, 2, n, S)) = Quantity(-1, 1, -1, n, S)
    <3>1. /\ Over(Quantity(1, 1, 0, n, S), Quantity(2, 0, 0, n, S))
               = Quantity(-1, 1, 0, n, S \cup S)
          /\ Over(Quantity(1, 1, 1, n, S), Quantity(2, 0, 2, n, S))
               = Quantity(-1, 1, -1, n, S \cup S)
      BY Quotients
    <3> QED
      BY <2>1, <3>1
  <2>4. /\ Times(Quantity(-1, 1, 0, n, S), Quantity(1, 0, 0, n, {i})) = Quantity(0, 1, 0, n, S)
        /\ Times(Quantity(-1, 1, -1, n, S), Quantity(1, 0, 1, n, {i})) = Quantity(0, 1, 0, n, S)
    <3>1. /\ Times(Quantity(-1, 1, 0, n, S), Quantity(1, 0, 0, n, {i}))
               = Quantity(0, 1, 0, n, S \cup {i})
          /\ Times(Quantity(-1, 1, -1, n, S), Quantity(1, 0, 1, n, {i}))
               = Quantity(0, 1, 0, n, S \cup {i})
      BY Products
    <3> QED
      BY <2>1, <3>1
  <2> QED
    BY <2>2, <2>3, <2>4
<1>5. Ia = Quantity(0, 1, 0, n, {i})
  BY <1>2, <1>4, Zenon
<1>6. Ir = Quantity(0, 1, 0, n, {i})
  BY <1>2, <1>4, Zenon
<1>7. Iba = Quantity(0, 1, 0, n, Abc)
  BY <1>2, <1>3, <1>4, Zenon
<1>8. Ibr = Quantity(0, 1, 0, n, Abc)
  BY <1>2, <1>3, <1>4, Zenon
<1>9. ASSUME NEW S, NEW T
      PROVE  Minus(Quantity(0, 1, 0, n, S), Quantity(0, 1, 0, n, T))
                = Quantity(0, 1, 0, n, S \cup T)
  BY Sums
<1> HIDE DEF p, UI, Ia, Ir, Iba, Ibr
<1>10. Minus(Minus(I(i), Ia), Ir) = Quantity(0, 1, 0, n, {i})
  BY <1>1, <1>2, <1>5, <1>6, <1>9
<1>11. Minus(Ia, Iba) = Quantity(0, 1, 0, n, Abc) /\ Minus(Ir, Ibr) = Quantity(0, 1, 0, n, Abc)
  BY <1>1, <1>5, <1>6, <1>7, <1>8, <1>9
<1> DEFINE cur == [Ia |-> Ia, Ir |-> Ir, Iv |-> Minus(Minus(I(i), Ia), Ir),
                 Iba |-> Iba, Ibr |-> Ibr, Iua |-> Minus(Ia, Iba), Iur |-> Minus(Ir, Ibr)]
<1>12. CurrentAt(i) = cur
  BY DEF CurrentAt, p, UI, Ia, Ir, Iba, Ibr
<1>13. /\ cur.Ia = Ia /\ cur.Ir = Ir /\ cur.Iv = Minus(Minus(I(i), Ia), Ir) /\ cur.Iba = Iba
       /\ cur.Ibr = Ibr /\ cur.Iua = Minus(Ia, Iba) /\ cur.Iur = Minus(Ir, Ibr)
  OBVIOUS
<1> HIDE DEF cur
<1> QED
  BY <1>5, <1>6, <1>7, <1>8, <1>10, <1>11, <1>12, <1>13, Zenon

(* The currents of all phases, and their filters.                          *)
LEMMA CurrentsStep ==
    ASSUME CPTInv, CPT_CurrentDecomposition PROVE CPTInv'
<1> DEFINE current == [i \in Phases |-> CurrentAt(i)]
           In(f) == IF f[1] = 0 THEN Sum([i \in Phases |-> Square(current[i][f[2]])])
                                ELSE Square(current[f[1]][f[2]])
           R(i, x) == Rms(<<i, x>>, In(<<i, x>>))
           in == [f \in Filters({"Iv", "Iba", "Ibr"})
                     \union ({0} \X {"Iv", "Iba", "Ibr", "Iua", "Iur"}) |-> In(f)]
           new(i) ==
             LET cur == current[i]
             IN  [phase[i] EXCEPT
                    !.Ia = cur.Ia, !.Ir = cur.Ir, !.Iv = cur.Iv, !.Iba = cur.Iba, !.Ibr = cur.Ibr,
                    !.Iua = cur.Iua, !.Iur = cur.Iur, !.Iu = Plus(cur.Iua, cur.Iur),
                    !.Iv_rms = R(i, "Iv"), !.Iba_rms = R(i, "Iba"), !.Ibr_rms = R(i, "Ibr"),
                    !.Iua_rms = In(<<i, "Iua">>), !.Iur_rms = In(<<i, "Iur">>)]
           n == sample
           done == VoltFilters \cup PowFilters \cup ColFilters
           names == {"Iv", "Iba", "Ibr", "Iua", "Iur"}
           Of(x, i) == IF x = "Iv" THEN {i} ELSE Abc
<1>1. /\ Function("currents") /\ phase' = [i \in Phases |-> new(i)] /\ Feed(in)
      /\ me' = [me EXCEPT !.Iv_rms = R(0, "Iv"), !.Iba_rms = R(0, "Iba"),
                     !.Ibr_rms = R(0, "Ibr"), !.Iua_rms = R(0, "Iua"),
                     !.Iur_rms = R(0, "Iur")]
  BY Zenon DEF CPT_CurrentDecomposition, CurrentAt
<1>2. step = "currents" /\ step' = "powers" /\ UNCHANGED <<me_n, sample, buffer>>
  BY <1>1, FunctionIs
<1>3. /\ me_n = 3 /\ Phases = Abc /\ n \in Nat /\ n > 0
      /\ DOMAIN phase = Abc /\ (\A i \in Abc : DOMAIN phase[i] = PhaseFields)
      /\ DOMAIN me = CptFields /\ FedTo(maf, done, n)
  BY <1>2, AtCall DEF Calls, Fed
<1>4. \A i \in Abc : Carried(i, n) /\ VoltagesOf(i, n) /\ PowerOf(i, n) /\ Collected(n)
  BY <1>2, AtCall DEF Calls, ValuesInv, Behind
<1>5. ASSUME NEW i \in Abc
      PROVE  /\ current[i].Ia = Quantity(0, 1, 0, n, {i})
             /\ current[i].Ir = Quantity(0, 1, 0, n, {i})
             /\ current[i].Iv = Quantity(0, 1, 0, n, {i})
             /\ current[i].Iba = Quantity(0, 1, 0, n, Abc)
             /\ current[i].Ibr = Quantity(0, 1, 0, n, Abc)
             /\ current[i].Iua = Quantity(0, 1, 0, n, Abc)
             /\ current[i].Iur = Quantity(0, 1, 0, n, Abc)
  <2>1. current[i] = CurrentAt(i)
    BY <1>3
  <2>2. VoltagesOf(i, n) /\ PowerOf(i, n) /\ Collected(n)
    BY <1>4
  <2> QED
    BY <2>1, <2>2, CurrentIs
<1> HIDE DEF current
<1>6. ASSUME NEW i \in Abc, NEW x \in names
      PROVE  In(<<i, x>>) = Quantity(0, 2, 0, n, Of(x, i))
  <2>1. <<i, x>>[1] = i /\ <<i, x>>[2] = x /\ i # 0
    BY DEF Abc
  <2>2. In(<<i, x>>) = Square(current[i][x])
    BY <2>1
  <2>3. current[i][x] = Quantity(0, 1, 0, n, Of(x, i))
    BY <1>5
  <2> HIDE DEF In, Of
  <2> QED
    BY <2>2, <2>3, Squares
<1>7. ASSUME NEW x \in names PROVE In(<<0, x>>) = Quantity(0, 2, 0, n, Abc)
  <2> DEFINE g == [i \in Phases |-> Square(current[i][x])]
  <2>1. In(<<0, x>>) = Sum(g)
    OBVIOUS
  <2>2. \A i \in Abc : g[i] = Quantity(0, 2, 0, n, Of(x, i))
    <3> SUFFICES ASSUME NEW i \in Abc PROVE g[i] = Quantity(0, 2, 0, n, Of(x, i))
      OBVIOUS
    <3>1. <<i, x>>[1] = i /\ <<i, x>>[2] = x /\ i # 0
      BY DEF Abc
    <3>2. In(<<i, x>>) = Square(current[i][x])
      BY <3>1
    <3>3. g[i] = Square(current[i][x])
      BY <1>3
    <3>4. In(<<i, x>>) = Quantity(0, 2, 0, n, Of(x, i))
      BY <1>6
    <3> QED
      BY <3>2, <3>3, <3>4
  <2>3. 1 \in Abc /\ 2 \in Abc /\ 3 \in Abc /\ 0 \in Int /\ 2 \in Int
    BY DEF Abc
  <2>4. (Of(x, 1) \cup Of(x, 2)) \cup Of(x, 3) = Abc
    BY DEF Abc
  <2> HIDE DEF g, In, Of
  <2>5. Sum(g) = Quantity(0, 2, 0, n, (Of(x, 1) \cup Of(x, 2)) \cup Of(x, 3))
    <3>1. /\ g[1] = Quantity(0, 2, 0, n, Of(x, 1)) /\ g[2] = Quantity(0, 2, 0, n, Of(x, 2))
          /\ g[3] = Quantity(0, 2, 0, n, Of(x, 3))
      BY <2>2, <2>3
    <3> QED
      BY <1>3, <2>3, <3>1, SumIs
  <2> QED
    BY <2>1, <2>4, <2>5
<1> HIDE DEF In
<1>8. /\ \A i \in Abc, x \in {"Iv", "Iba", "Ibr"} :
            /\ <<i, x>> \in AllFilters
            /\ FilterKind(<<i, x>>) = <<<<0, 2, 0>>, Of(x, i)>>
      /\ \A x \in names : /\ <<0, x>> \in AllFilters
                          /\ FilterKind(<<0, x>>) = <<<<0, 2, 0>>, Abc>>
  <2>1. \A i \in Abc, x \in {"Iv", "Iba", "Ibr"} : <<i, x>> \in AllFilters
    BY DEF AllFilters, CurFilters
  <2>2. \A x \in names : <<0, x>> \in AllFilters
    BY DEF AllFilters, CurFilters
  <2>3. \A x \in names : FilterUnit(x) = <<0, 2, 0>>
    BY DEF FilterUnit
  <2>4. ASSUME NEW i \in Abc, NEW x \in {"Iv", "Iba", "Ibr"}
        PROVE  FilterKind(<<i, x>>) = <<<<0, 2, 0>>, Of(x, i)>>
    <3>1. <<i, x>>[1] = i /\ <<i, x>>[2] = x /\ i # 0
      BY DEF Abc
    <3>2. (i = 0 \/ x \in {"Iba", "Ibr"}) <=> x # "Iv"
      BY <3>1
    <3> QED
      BY <2>3, <3>1, <3>2 DEF FilterKind
  <2>5. ASSUME NEW x \in names PROVE FilterKind(<<0, x>>) = <<<<0, 2, 0>>, Abc>>
    <3>1. <<0, x>>[1] = 0 /\ <<0, x>>[2] = x
      OBVIOUS
    <3> QED
      BY <2>3, <3>1 DEF FilterKind
  <2> QED
    BY <2>1, <2>2, <2>4, <2>5
<1>9. ASSUME NEW i \in Abc, NEW x \in {"Iv", "Iba", "Ibr"}
      PROVE  R(i, x) = Quantity(0, 1, 0, n, Of(x, i))
  <2>1. /\ <<i, x>> \in AllFilters /\ FilterKind(<<i, x>>) = <<<<0, 2, 0>>, Of(x, i)>>
        /\ FedTo(maf, done, n)
    BY <1>3, <1>8
  <2>2. In(<<i, x>>) = Quantity(0, 2, 0, n, Of(x, i))
    BY <1>6
  <2> HIDE DEF Of, done
  <2> QED
    BY <2>1, <2>2, RmsIs
<1>10. ASSUME NEW x \in names PROVE R(0, x) = Quantity(0, 1, 0, n, Abc)
  <2>1. /\ <<0, x>> \in AllFilters /\ FilterKind(<<0, x>>) = <<<<0, 2, 0>>, Abc>>
        /\ FedTo(maf, done, n)
    BY <1>3, <1>8
  <2>2. In(<<0, x>>) = Quantity(0, 2, 0, n, Abc)
    BY <1>7
  <2> HIDE DEF done
  <2> QED
    BY <2>1, <2>2, RmsIs
<1> HIDE DEF R

<1>11. ASSUME NEW i \in Abc
       PROVE  /\ DOMAIN phase'[i] = PhaseFields /\ Carried(i, n)' /\ VoltagesOf(i, n)'
              /\ PowerOf(i, n)' /\ CurrentsOf(i, n)'
  <2> DEFINE a == Quantity(0, 1, 0, n, {i})
             b == Quantity(0, 1, 0, n, Abc)
             s == Quantity(0, 2, 0, n, Abc)
  <2>1. phase'[i] = new(i)
    BY <1>1, <1>3
  <2>2. /\ R(i, "Iv") = a /\ R(i, "Iba") = b /\ R(i, "Ibr") = b
        /\ In(<<i, "Iua">>) = s /\ In(<<i, "Iur">>) = s
    <3>1. Of("Iv", i) = {i} /\ \A x \in names \ {"Iv"} : Of(x, i) = Abc
      OBVIOUS
    <3> HIDE DEF Of
    <3>2. R(i, "Iv") = a
      BY <1>9, <3>1
    <3>3. R(i, "Iba") = b /\ R(i, "Ibr") = b
      BY <1>9, <3>1
    <3>4. In(<<i, "Iua">>) = s /\ In(<<i, "Iur">>) = s
      BY <1>6, <3>1
    <3> QED
      BY <3>2, <3>3, <3>4
  <2>3. Plus(b, b) = b
    <3>1. Plus(b, b) = Quantity(0, 1, 0, n, Abc \cup Abc) /\ Abc \cup Abc = Abc
      BY Sums
    <3> QED
      BY <3>1
  <2>4. /\ current[i].Ia = a /\ current[i].Ir = a /\ current[i].Iv = a
        /\ current[i].Iba = b /\ current[i].Ibr = b /\ current[i].Iua = b
        /\ current[i].Iur = b
    BY <1>5
  <2>5. DOMAIN phase[i] = PhaseFields /\ Carried(i, n) /\ VoltagesOf(i, n) /\ PowerOf(i, n)
    BY <1>3, <1>4
  <2> HIDE DEF a, b, s
  <2>6. phase'[i] = [phase[i] EXCEPT !.Ia = a, !.Ir = a, !.Iv = a, !.Iba = b, !.Ibr = b,
                       !.Iua = b, !.Iur = b, !.Iu = b, !.Iv_rms = a, !.Iba_rms = b,
                       !.Ibr_rms = b, !.Iua_rms = s, !.Iur_rms = s]
    BY <2>1, <2>2, <2>3, <2>4, Zenon
  <2> HIDE DEF new, n
  <2>7. DOMAIN phase'[i] = PhaseFields
    BY <2>5, <2>6
  <2>8. UNCHANGED n
    BY <1>2 DEF n
  <2>9. Carried(i, n)'
    BY <2>5, <2>6, <2>8 DEF Carried, PhaseFields
  <2>10. VoltagesOf(i, n)'
    BY <2>5, <2>6, <2>8 DEF VoltagesOf, PhaseFields
  <2>11. PowerOf(i, n)'
    BY <2>5, <2>6, <2>8 DEF PowerOf, PhaseFields
  <2>12. /\ \A x \in {"Ia", "Ir", "Iv", "Iv_rms"} : phase'[i][x] = a
         /\ \A x \in {"Iba", "Iua", "Ibr", "Iur", "Iu", "Iba_rms", "Ibr_rms"} :
               phase'[i][x] = b
         /\ \A x \in {"Iua_rms", "Iur_rms"} : phase'[i][x] = s
    BY <2>5, <2>6 DEF PhaseFields
  <2>13. CurrentsOf(i, n)'
    BY <2>8, <2>12 DEF CurrentsOf, a, b, s
  <2> QED
    BY <2>7, <2>9, <2>10, <2>11, <2>13
<1>12. DOMAIN me' = CptFields /\ Collected(n)' /\ CurrentsOfAll(n)'
  <2> DEFINE b == Quantity(0, 1, 0, n, Abc)
  <2>1. \A x \in names : R(0, x) = b
    BY <1>10
  <2>2. DOMAIN me = CptFields /\ Collected(n)
    <3>1. 1 \in Abc
      BY DEF Abc
    <3> QED
      BY <1>3, <1>4, <3>1
  <2> HIDE DEF b
  <2>3. me' = [me EXCEPT !.Iv_rms = b, !.Iba_rms = b, !.Ibr_rms = b, !.Iua_rms = b,
                         !.Iur_rms = b]
    BY <1>1, <2>1
  <2>4. UNCHANGED n
    BY <1>2
  <2> HIDE DEF n
  <2>5. DOMAIN me' = CptFields /\ Collected(n)'
    BY <2>2, <2>3, <2>4 DEF Collected, CptFields
  <2>6. \A x \in {"Iv_rms", "Iba_rms", "Ibr_rms", "Iua_rms", "Iur_rms"} : me'[x] = b
    BY <2>2, <2>3 DEF CptFields
  <2>7. CurrentsOfAll(n)'
    BY <2>4, <2>6 DEF CurrentsOfAll, b
  <2> QED
    BY <2>5, <2>7
<1>13. FedTo(maf', done \cup CurFilters, n)
  <2>1. DOMAIN in = CurFilters
    BY <1>3 DEF CurFilters, Filters
  <2>2. ASSUME NEW f \in CurFilters PROVE Kind(in[f]) = FilterKind(f)
    <3>1. in[f] = In(f)
      BY <2>1, <2>2
    <3>2. CASE \E i \in Abc, x \in {"Iv", "Iba", "Ibr"} : f = <<i, x>>
      <4>1. PICK i \in Abc, x \in {"Iv", "Iba", "Ibr"} : f = <<i, x>>
        BY <3>2
      <4>2. In(f) = Quantity(0, 2, 0, n, Of(x, i)) /\ FilterKind(f) = <<<<0, 2, 0>>, Of(x, i)>>
        BY <1>6, <1>8, <4>1
      <4> HIDE DEF in, Of
      <4> QED
        BY <3>1, <4>2, KindIs
    <3>3. CASE \E x \in names : f = <<0, x>>
      <4>1. PICK x \in names : f = <<0, x>>
        BY <3>3
      <4>2. In(f) = Quantity(0, 2, 0, n, Abc) /\ FilterKind(f) = <<<<0, 2, 0>>, Abc>>
        BY <1>7, <1>8, <4>1
      <4> HIDE DEF in
      <4> QED
        BY <3>1, <4>2, KindIs
    <3> QED
      BY <3>2, <3>3 DEF CurFilters
  <2>3. CurFilters \subseteq AllFilters
    BY DEF AllFilters
  <2>4. CurFilters \cap done = {}
    BY DEF PowFilters, VoltFilters, ColFilters, CurFilters, Abc
  <2> HIDE DEF in, done
  <2>5. FedTo(maf', done \cup DOMAIN in, n)
    BY <1>1, <1>3, <2>1, <2>2, <2>3, <2>4, Feeds
  <2> QED
    BY <2>1, <2>5
<1> HIDE DEF in, new
<1>14. DOMAIN phase' = Abc
  BY <1>1, <1>3
<1>15. ValuesInv'
  <2>1. \A i \in Abc : Carried(i, n)' /\ VoltagesOf(i, n)' /\ PowerOf(i, n)' /\ CurrentsOf(i, n)'
    BY <1>11
  <2> QED
    BY <1>2, <1>12, <2>1 DEF ValuesInv, Behind, Calls
<1>16. FedTo(maf', Fed', sample)
  <2>1. Fed' = done \cup CurFilters
    BY <1>2 DEF Fed, AllFilters
  <2> QED
    BY <1>13, <2>1
<1> QED
  BY <1>1, <1>2, <1>3, <1>11, <1>12, <1>14, <1>15, <1>16, Reassemble DEF Calls

(* The powers, of a phase and of all phases together: the root of the      *)
(* squares is of the unit of a power again.                                *)
LEMMA PowersAre ==
    ASSUME NEW x, NEW n, NEW S, NEW T
    PROVE  /\ {"A", "Q", "Na", "Nr", "N", "V"} \subseteq DOMAIN x /\ S \cup T = T
           /\ x.V_rms = Quantity(1, 0, 0, n, S) /\ x.I_rms = Quantity(0, 1, 0, n, S)
           /\ x.Iv_rms = Quantity(0, 1, 0, n, S) /\ x.Ibr_rms = Quantity(0, 1, 0, n, T)
           =>
           /\ DOMAIN Powers(x) = DOMAIN x
           /\ Powers(x).A = Quantity(1, 1, 0, n, S) /\ Powers(x).V = Quantity(1, 1, 0, n, S)
           /\ Powers(x).Q = Quantity(1, 1, 0, n, T)
           /\ x.Iua_rms = Quantity(0, 1, 0, n, T) /\ x.Iur_rms = Quantity(0, 1, 0, n, T)
                => \A y \in {"Na", "Nr", "N"} : Powers(x)[y] = Quantity(1, 1, 0, n, T)
           /\ \A y \in DOMAIN x \ {"A", "Q", "Na", "Nr", "N", "V"} : Powers(x)[y] = x[y]
<1>1. ASSUME NEW R
      PROVE  Times(Quantity(1, 0, 0, n, S), Quantity(0, 1, 0, n, R))
                = Quantity(1, 1, 0, n, S \cup R)
  BY Products
<1> SUFFICES
      ASSUME {"A", "Q", "Na", "Nr", "N", "V"} \subseteq DOMAIN x, S \cup T = T,
             x.V_rms = Quantity(1, 0, 0, n, S), x.I_rms = Quantity(0, 1, 0, n, S),
             x.Iv_rms = Quantity(0, 1, 0, n, S), x.Ibr_rms = Quantity(0, 1, 0, n, T)
      PROVE
             /\ DOMAIN Powers(x) = DOMAIN x
             /\ Powers(x).A = Quantity(1, 1, 0, n, S) /\ Powers(x).V = Quantity(1, 1, 0, n, S)
             /\ Powers(x).Q = Quantity(1, 1, 0, n, T)
             /\ x.Iua_rms = Quantity(0, 1, 0, n, T) /\ x.Iur_rms = Quantity(0, 1, 0, n, T)
                  => \A y \in {"Na", "Nr", "N"} : Powers(x)[y] = Quantity(1, 1, 0, n, T)
             /\ \A y \in DOMAIN x \ {"A", "Q", "Na", "Nr", "N", "V"} : Powers(x)[y] = x[y]
  OBVIOUS
<1> DEFINE A == Times(x.V_rms, x.I_rms)
           Q == Times(x.V_rms, x.Ibr_rms)
           Na == Times(x.V_rms, x.Iua_rms)
           Nr == Times(x.V_rms, x.Iur_rms)
           v == Times(x.V_rms, x.Iv_rms)
           N == RMS_Evaluate(Plus(Square(Na), Square(Nr)))
<1>2. S \cup S = S /\ T \cup T = T
  OBVIOUS
<1>3. A = Quantity(1, 1, 0, n, S) /\ Q = Quantity(1, 1, 0, n, T) /\ v = Quantity(1, 1, 0, n, S)
  BY <1>1, <1>2
<1>4. ASSUME x.Iua_rms = Quantity(0, 1, 0, n, T), x.Iur_rms = Quantity(0, 1, 0, n, T)
      PROVE  /\ Na = Quantity(1, 1, 0, n, T) /\ Nr = Quantity(1, 1, 0, n, T)
             /\ N = Quantity(1, 1, 0, n, T)
  <2>1. Na = Quantity(1, 1, 0, n, T) /\ Nr = Quantity(1, 1, 0, n, T)
    BY <1>1, <1>4
  <2> HIDE DEF Na, Nr
  <2>2. Square(Quantity(1, 1, 0, n, T)) = Quantity(2, 2, 0, n, T)
    BY Squares, Zenon
  <2>3. Plus(Quantity(2, 2, 0, n, T), Quantity(2, 2, 0, n, T)) = Quantity(2, 2, 0, n, T \cup T)
    BY Sums
  <2>4. RMS_Evaluate(Quantity(2, 2, 0, n, T)) = Quantity(1, 1, 0, n, T)
    BY Roots, Zenon
  <2> QED
    BY <1>2, <2>1, <2>2, <2>3, <2>4
<1> DEFINE z == [x EXCEPT !.A = A, !.Q = Q, !.Na = Na, !.Nr = Nr, !.V = v, !.N = N]
<1>5. Powers(x) = z
  BY Zenon DEF Powers
<1> HIDE DEF A, Q, Na, Nr, v, N
<1>6. /\ DOMAIN z = DOMAIN x
      /\ z.A = A /\ z.Q = Q /\ z.Na = Na /\ z.Nr = Nr /\ z.V = v /\ z.N = N
      /\ \A y \in DOMAIN x \ {"A", "Q", "Na", "Nr", "N", "V"} : z[y] = x[y]
  OBVIOUS
<1> HIDE DEF z
<1> QED
  BY <1>3, <1>4, <1>5, <1>6

(* The function of powers.                                                 *)
LEMMA PowersStep ==
    ASSUME CPTInv, CPT_PowerDecomposition PROVE CPTInv'
<1> DEFINE n == sample
           changed == {"A", "Q", "Na", "Nr", "N", "V"}
<1>1. /\ Function("powers") /\ phase' = [i \in Phases |-> Powers(phase[i])]
      /\ me' = Powers(me) /\ UNCHANGED maf
  BY DEF CPT_PowerDecomposition
<1>2. step = "powers" /\ step' = "factors" /\ UNCHANGED <<me_n, sample, buffer>>
  BY <1>1, FunctionIs
<1>3. /\ me_n = 3 /\ Phases = Abc /\ n \in Nat /\ n > 0
      /\ DOMAIN phase = Abc /\ (\A i \in Abc : DOMAIN phase[i] = PhaseFields)
      /\ DOMAIN me = CptFields /\ FedTo(maf, Fed, n)
  BY <1>2, AtCall DEF Calls
<1>4. \A i \in Abc : /\ Carried(i, n) /\ VoltagesOf(i, n) /\ PowerOf(i, n) /\ Collected(n)
                     /\ CurrentsOf(i, n) /\ CurrentsOfAll(n)
  BY <1>2, AtCall DEF Calls, ValuesInv, Behind
<1>5. ASSUME NEW i \in Abc
      PROVE  /\ DOMAIN phase'[i] = PhaseFields /\ PowersOf(i, n)'
             /\ \A y \in PhaseFields \ changed : phase'[i][y] = phase[i][y]
  <2>1. phase'[i] = Powers(phase[i])
    BY <1>1, <1>3
  <2>2. changed \subseteq DOMAIN phase[i] /\ DOMAIN phase[i] = PhaseFields
    BY <1>3 DEF PhaseFields
  <2>3. /\ phase[i].V_rms = Quantity(1, 0, 0, n, {i}) /\ phase[i].I_rms = Quantity(0, 1, 0, n, {i})
        /\ phase[i].Iv_rms = Quantity(0, 1, 0, n, {i})
        /\ phase[i].Ibr_rms = Quantity(0, 1, 0, n, Abc) /\ {i} \cup Abc = Abc
    BY <1>4 DEF VoltagesOf, CurrentsOf
  <2>4. /\ DOMAIN Powers(phase[i]) = DOMAIN phase[i]
        /\ Powers(phase[i]).A = Quantity(1, 1, 0, n, {i})
        /\ Powers(phase[i]).V = Quantity(1, 1, 0, n, {i})
        /\ Powers(phase[i]).Q = Quantity(1, 1, 0, n, Abc)
        /\ \A y \in DOMAIN phase[i] \ changed : Powers(phase[i])[y] = phase[i][y]
    BY <2>2, <2>3, PowersAre
  <2> QED
    BY <1>2, <2>1, <2>2, <2>4 DEF PowersOf
<1>6. /\ DOMAIN me' = CptFields /\ PowersOfAll(n)'
      /\ \A y \in CptFields \ changed : me'[y] = me[y]
  <2>1. changed \subseteq DOMAIN me
    BY <1>3 DEF CptFields
  <2>2. 1 \in Abc
    BY DEF Abc
  <2>3. /\ me.V_rms = Quantity(1, 0, 0, n, Abc) /\ me.I_rms = Quantity(0, 1, 0, n, Abc)
        /\ me.Iv_rms = Quantity(0, 1, 0, n, Abc)
        /\ me.Ibr_rms = Quantity(0, 1, 0, n, Abc) /\ Abc \cup Abc = Abc
        /\ me.Iua_rms = Quantity(0, 1, 0, n, Abc) /\ me.Iur_rms = Quantity(0, 1, 0, n, Abc)
    BY <1>4, <2>2 DEF Collected, CurrentsOfAll
  <2>4. /\ DOMAIN Powers(me) = DOMAIN me
        /\ Powers(me).A = Quantity(1, 1, 0, n, Abc)
        /\ Powers(me).V = Quantity(1, 1, 0, n, Abc)
        /\ Powers(me).Q = Quantity(1, 1, 0, n, Abc)
        /\ \A y \in {"Na", "Nr", "N"} : Powers(me)[y] = Quantity(1, 1, 0, n, Abc)
        /\ \A y \in DOMAIN me \ changed : Powers(me)[y] = me[y]
    BY <2>1, <2>3, PowersAre
  <2> QED
    BY <1>1, <1>2, <1>3, <2>4 DEF PowersOfAll
<1>7. DOMAIN phase' = Abc
  BY <1>1, <1>3
<1>8. ValuesInv'
  <2>1. \A i \in Abc : Carried(i, n)' /\ VoltagesOf(i, n)' /\ PowerOf(i, n)' /\ CurrentsOf(i, n)'
    BY <1>2, <1>4, <1>5 DEF Carried, VoltagesOf, PowerOf, CurrentsOf, PhaseFields
  <2>2. Collected(n)' /\ CurrentsOfAll(n)'
    <3>1. 1 \in Abc
      BY DEF Abc
    <3> QED
      BY <1>2, <1>4, <1>6, <3>1 DEF Collected, CurrentsOfAll, CptFields
  <2> QED
    BY <1>2, <1>5, <1>6, <2>1, <2>2 DEF ValuesInv, Behind, Calls
<1>9. FedTo(maf', Fed', sample)
  BY <1>1, <1>2, <1>3 DEF Fed
<1> QED
  BY <1>1, <1>2, <1>3, <1>5, <1>6, <1>7, <1>8, <1>9, Reassemble DEF Calls

(* The factors, of a phase and of all phases together.                     *)
LEMMA FactorsAre ==
    ASSUME NEW x, NEW n, NEW S, NEW T
    PROVE  /\ {"PF", "VF", "QF", "NF"} \subseteq DOMAIN x /\ S \cup T = T
           /\ x.P_avg = Quantity(1, 1, 0, n, S) /\ x.A = Quantity(1, 1, 0, n, S)
           /\ x.V = Quantity(1, 1, 0, n, S) /\ x.Q = Quantity(1, 1, 0, n, T)
           =>
           /\ DOMAIN Factors(x) = DOMAIN x
           /\ Factors(x).PF = Quantity(0, 0, 0, n, S) /\ Factors(x).VF = Quantity(0, 0, 0, n, S)
           /\ Factors(x).QF = Quantity(0, 0, 0, n, T)
           /\ x.N = Quantity(1, 1, 0, n, T) => Factors(x).NF = Quantity(0, 0, 0, n, T)
           /\ \A y \in DOMAIN x \ {"PF", "VF", "QF", "NF"} : Factors(x)[y] = x[y]
<1>1. \A R : /\ Square(Quantity(1, 1, 0, n, R)) = Quantity(2, 2, 0, n, R)
             /\ RMS_Evaluate(Quantity(2, 2, 0, n, R)) = Quantity(1, 1, 0, n, R)
  BY Squares, Roots, Zenon
<1>2. ASSUME NEW R1, NEW R2
      PROVE  /\ Over(Quantity(1, 1, 0, n, R1), Quantity(1, 1, 0, n, R2))
                   = Quantity(0, 0, 0, n, R1 \cup R2)
             /\ Plus(Quantity(2, 2, 0, n, R1), Quantity(2, 2, 0, n, R2))
                   = Quantity(2, 2, 0, n, R1 \cup R2)
  BY Quotients, Sums
<1> SUFFICES
      ASSUME {"PF", "VF", "QF", "NF"} \subseteq DOMAIN x, S \cup T = T,
             x.P_avg = Quantity(1, 1, 0, n, S), x.A = Quantity(1, 1, 0, n, S),
             x.V = Quantity(1, 1, 0, n, S), x.Q = Quantity(1, 1, 0, n, T)
      PROVE
             /\ DOMAIN Factors(x) = DOMAIN x
             /\ Factors(x).PF = Quantity(0, 0, 0, n, S) /\ Factors(x).VF = Quantity(0, 0, 0, n, S)
             /\ Factors(x).QF = Quantity(0, 0, 0, n, T)
             /\ x.N = Quantity(1, 1, 0, n, T) => Factors(x).NF = Quantity(0, 0, 0, n, T)
             /\ \A y \in DOMAIN x \ {"PF", "VF", "QF", "NF"} : Factors(x)[y] = x[y]
  OBVIOUS
<1> DEFINE PQ == Plus(Square(x.P_avg), Square(x.Q))
           PF == Over(x.P_avg, x.A)
           VF == Over(x.V, x.A)
           QF == Over(x.Q, RMS_Evaluate(PQ))
           NF == Over(x.N, RMS_Evaluate(Plus(PQ, Square(x.N))))
<1>3. S \cup S = S /\ T \cup T = T
  OBVIOUS
<1>4. PF = Quantity(0, 0, 0, n, S) /\ VF = Quantity(0, 0, 0, n, S)
  <2>1. Over(Quantity(1, 1, 0, n, S), Quantity(1, 1, 0, n, S)) = Quantity(0, 0, 0, n, S \cup S)
    BY <1>2
  <2> QED
    BY <1>3, <2>1
<1>5. PQ = Quantity(2, 2, 0, n, T)
  <2>1. Plus(Quantity(2, 2, 0, n, S), Quantity(2, 2, 0, n, T)) = Quantity(2, 2, 0, n, S \cup T)
    BY <1>2
  <2>2. Square(x.P_avg) = Quantity(2, 2, 0, n, S) /\ Square(x.Q) = Quantity(2, 2, 0, n, T)
    BY <1>1
  <2> QED
    BY <2>1, <2>2
<1> HIDE DEF PQ
<1>6. Over(Quantity(1, 1, 0, n, T), Quantity(1, 1, 0, n, T)) = Quantity(0, 0, 0, n, T)
  <2>1. Over(Quantity(1, 1, 0, n, T), Quantity(1, 1, 0, n, T)) = Quantity(0, 0, 0, n, T \cup T)
    BY <1>2
  <2> QED
    BY <1>3, <2>1
<1>7. RMS_Evaluate(Quantity(2, 2, 0, n, T)) = Quantity(1, 1, 0, n, T)
  BY <1>1, Zenon
<1>8. QF = Quantity(0, 0, 0, n, T)
  BY <1>5, <1>6, <1>7
<1>9. ASSUME x.N = Quantity(1, 1, 0, n, T) PROVE NF = Quantity(0, 0, 0, n, T)
  <2>1. Plus(Quantity(2, 2, 0, n, T), Quantity(2, 2, 0, n, T)) = Quantity(2, 2, 0, n, T \cup T)
    BY <1>2
  <2>2. Square(x.N) = Quantity(2, 2, 0, n, T)
    BY <1>1, <1>9
  <2>3. Plus(PQ, Square(x.N)) = Quantity(2, 2, 0, n, T)
    BY <1>3, <1>5, <2>1, <2>2
  <2> QED
    BY <1>6, <1>7, <1>9, <2>3
<1> DEFINE z == [x EXCEPT !.PF = PF, !.VF = VF, !.QF = QF, !.NF = NF]
<1>10. Factors(x) = z
  BY Zenon DEF Factors, PQ
<1> HIDE DEF PF, VF, QF, NF
<1>11. /\ DOMAIN z = DOMAIN x
       /\ z.PF = PF /\ z.VF = VF /\ z.QF = QF /\ z.NF = NF
       /\ \A y \in DOMAIN x \ {"PF", "VF", "QF", "NF"} : z[y] = x[y]
  OBVIOUS
<1> HIDE DEF z
<1> QED
  BY <1>4, <1>8, <1>9, <1>10, <1>11

(* The function of factors ends the sample.                                *)
LEMMA FactorsStep ==
    ASSUME CPTInv, CPT_EvaluateFactors PROVE CPTInv'
<1> DEFINE n == sample
           changed == {"PF", "VF", "QF", "NF"}
<1>1. /\ Function("factors") /\ phase' = [i \in Phases |-> Factors(phase[i])]
      /\ me' = Factors(me) /\ UNCHANGED maf
  BY DEF CPT_EvaluateFactors
<1>2. step = "factors" /\ step' = "ready" /\ UNCHANGED <<me_n, sample, buffer>>
  BY <1>1, FunctionIs
<1>3. /\ me_n = 3 /\ Phases = Abc /\ n \in Nat /\ n > 0
      /\ DOMAIN phase = Abc /\ (\A i \in Abc : DOMAIN phase[i] = PhaseFields)
      /\ DOMAIN me = CptFields /\ FedTo(maf, Fed, n)
  BY <1>2, AtCall DEF Calls
<1>4. \A i \in Abc : /\ Carried(i, n) /\ VoltagesOf(i, n) /\ PowerOf(i, n) /\ Collected(n)
                     /\ CurrentsOf(i, n) /\ CurrentsOfAll(n) /\ PowersOf(i, n)
                     /\ PowersOfAll(n)
  BY <1>2, AtCall DEF Calls, ValuesInv, Behind
<1>5. ASSUME NEW i \in Abc
      PROVE  /\ DOMAIN phase'[i] = PhaseFields /\ FactorsOf(i, n)'
             /\ \A y \in PhaseFields \ changed : phase'[i][y] = phase[i][y]
  <2>1. phase'[i] = Factors(phase[i])
    BY <1>1, <1>3
  <2>2. changed \subseteq DOMAIN phase[i] /\ DOMAIN phase[i] = PhaseFields
    BY <1>3 DEF PhaseFields
  <2>3. /\ phase[i].P_avg = Quantity(1, 1, 0, n, {i}) /\ phase[i].A = Quantity(1, 1, 0, n, {i})
        /\ phase[i].V = Quantity(1, 1, 0, n, {i})
        /\ phase[i].Q = Quantity(1, 1, 0, n, Abc) /\ {i} \cup Abc = Abc
    BY <1>4 DEF PowerOf, PowersOf
  <2>4. /\ DOMAIN Factors(phase[i]) = DOMAIN phase[i]
        /\ Factors(phase[i]).PF = Quantity(0, 0, 0, n, {i})
        /\ Factors(phase[i]).VF = Quantity(0, 0, 0, n, {i})
        /\ Factors(phase[i]).QF = Quantity(0, 0, 0, n, Abc)
        /\ \A y \in DOMAIN phase[i] \ changed : Factors(phase[i])[y] = phase[i][y]
    BY <2>2, <2>3, FactorsAre
  <2> QED
    BY <1>2, <2>1, <2>2, <2>4 DEF FactorsOf
<1>6. /\ DOMAIN me' = CptFields /\ FactorsOfAll(n)'
      /\ \A y \in CptFields \ changed : me'[y] = me[y]
  <2>1. changed \subseteq DOMAIN me
    BY <1>3 DEF CptFields
  <2>2. 1 \in Abc
    BY DEF Abc
  <2>3. /\ me.P_avg = Quantity(1, 1, 0, n, Abc) /\ me.A = Quantity(1, 1, 0, n, Abc)
        /\ me.V = Quantity(1, 1, 0, n, Abc) /\ me.N = Quantity(1, 1, 0, n, Abc)
        /\ me.Q = Quantity(1, 1, 0, n, Abc) /\ Abc \cup Abc = Abc
    BY <1>4, <2>2 DEF Collected, PowersOfAll
  <2>4. /\ DOMAIN Factors(me) = DOMAIN me
        /\ Factors(me).PF = Quantity(0, 0, 0, n, Abc)
        /\ Factors(me).VF = Quantity(0, 0, 0, n, Abc)
        /\ Factors(me).QF = Quantity(0, 0, 0, n, Abc)
        /\ Factors(me).NF = Quantity(0, 0, 0, n, Abc)
        /\ \A y \in DOMAIN me \ changed : Factors(me)[y] = me[y]
    BY <2>1, <2>3, FactorsAre
  <2> QED
    BY <1>1, <1>2, <1>3, <2>4 DEF FactorsOfAll
<1>7. DOMAIN phase' = Abc
  BY <1>1, <1>3
<1>8. ValuesInv'
  <2>1. \A i \in Abc : /\ Carried(i, n)' /\ VoltagesOf(i, n)' /\ PowerOf(i, n)'
                       /\ CurrentsOf(i, n)' /\ PowersOf(i, n)'
    BY <1>2, <1>4, <1>5 DEF Carried, VoltagesOf, PowerOf, CurrentsOf, PowersOf, PhaseFields
  <2>2. Collected(n)' /\ CurrentsOfAll(n)' /\ PowersOfAll(n)'
    <3>1. 1 \in Abc
      BY DEF Abc
    <3> QED
      BY <1>2, <1>4, <1>6, <3>1 DEF Collected, CurrentsOfAll, PowersOfAll, CptFields
  <2> QED
    BY <1>2, <1>5, <1>6, <2>1, <2>2 DEF ValuesInv, Behind, Calls
<1>9. FedTo(maf', Fed', sample)
  BY <1>1, <1>2, <1>3 DEF Fed
<1> QED
  BY <1>1, <1>2, <1>3, <1>5, <1>6, <1>7, <1>8, <1>9, Reassemble DEF Calls

(* The next sample.                                                        *)
LEMMA SampleStep ==
    ASSUME CPTInv, CPT_Update PROVE CPTInv'
<1>1. /\ step = "ready" /\ step' = "voltages" /\ sample' = sample + 1
      /\ UNCHANGED <<me_n, phase, me, maf, buffer>>
  BY DEF CPT_Update, CallOrder
<1>2. /\ sample \in Nat /\ me_n = 3 /\ DOMAIN phase = Abc
      /\ (\A i \in Abc : DOMAIN phase[i] = PhaseFields) /\ DOMAIN me = CptFields
      /\ FedTo(maf, Fed, sample) /\ ValuesInv /\ BuffersApart
  BY <1>1 DEF CPTInv, Running
<1>3. FedTo(maf', Fed', sample')
  <2>1. Fed = AllFilters /\ Fed' = {}
    BY <1>1 DEF Fed
  <2>2. \A f \in AllFilters :
           maf[f].kind \in {NoKind, FilterKind(f)} /\ maf[f].fed = sample
    BY <1>2, <2>1 DEF FedTo
  <2>3. sample' - 1 = sample
    BY <1>1, <1>2
  <2> QED
    BY <1>1, <1>2, <2>1, <2>2, <2>3 DEF FedTo
<1>4. ValuesInv'
  <2>1. \A i \in Abc : Carried(i, sample)
    BY <1>1, <1>2 DEF ValuesInv
  <2>2. \A i \in Abc : Carried(i, sample - 1)'
    BY <1>1, <1>2, <2>1 DEF Carried
  <2> QED
    BY <1>1, <2>2 DEF ValuesInv, Behind, Calls
<1>5. BuffersApart' /\ sample' \in Nat /\ sample' > 0
  BY <1>1, <1>2 DEF BuffersApart
<1>6. FedTo(maf, Fed, sample)'
  BY <1>3
<1> QED
  BY <1>1, <1>2, <1>4, <1>5, <1>6 DEF CPTInv, Calls

(* The set up.                                                             *)
LEMMA ConfigStep ==
    ASSUME CPTInv, NEW phases, CPT_Config(phases) PROVE CPTInv'
<1>1. sample' = sample /\ sample \in Nat /\ step = "config"
  BY DEF CPT_Config, CPTInv
<1>2. CASE step' \in {"failed", "crashed"}
  <2>1. ~Running'
    BY <1>2 DEF Running, Calls
  <2> QED
    BY <1>1, <1>2, <2>1 DEF CPTInv
<1>3. ASSUME phases = 3, step' = "ready", me_n' = 3,
             phase' = [i \in 1 .. 3 |-> Phase_Init(i)],
             me' = [x \in CptFields |-> Wrong],
             maf' = [f \in ConfigFilters |-> [kind |-> NoKind, fed |-> 0]],
             buffer' = [f \in ConfigFilters |-> BufferOf(f)],
             sample = 0
      PROVE  CPTInv'
  <2> DEFINE phaseNames == {"V", "I", "P", "W", "UI", "INT", "Iba", "Ibr", "Iv"}
             allNames == {"Iba", "Iua", "Ibr", "Iur", "Iv", "I", "V", "UI"}
  <2>1. /\ DOMAIN PhaseFilters = 1 .. 9 /\ DOMAIN CptFilters = 1 .. 8
        /\ \A x \in phaseNames : \E k \in 1 .. 9 : PhaseFilters[k] = x
        /\ \A x \in allNames : \E k \in 1 .. 8 : CptFilters[k] = x
        /\ \A k \in 1 .. 9 : PhaseFilters[k] \in phaseNames
        /\ \A k \in 1 .. 8 : CptFilters[k] \in allNames
    <3>1. /\ PhaseFilters[1] = "V" /\ PhaseFilters[2] = "I" /\ PhaseFilters[3] = "P"
          /\ PhaseFilters[4] = "W" /\ PhaseFilters[5] = "UI" /\ PhaseFilters[6] = "INT"
          /\ PhaseFilters[7] = "Iba" /\ PhaseFilters[8] = "Ibr" /\ PhaseFilters[9] = "Iv"
          /\ DOMAIN PhaseFilters = 1 .. 9
      BY DEF PhaseFilters
    <3>2. /\ CptFilters[1] = "Iba" /\ CptFilters[2] = "Iua" /\ CptFilters[3] = "Ibr"
          /\ CptFilters[4] = "Iur" /\ CptFilters[5] = "Iv" /\ CptFilters[6] = "I"
          /\ CptFilters[7] = "V" /\ CptFilters[8] = "UI" /\ DOMAIN CptFilters = 1 .. 8
      BY DEF CptFilters
    <3>3. /\ \A k \in 1 .. 9 : k \in {1, 2, 3, 4, 5, 6, 7, 8, 9}
          /\ \A k \in 1 .. 8 : k \in {1, 2, 3, 4, 5, 6, 7, 8}
          /\ {1, 2, 3, 4, 5, 6, 7, 8, 9} \subseteq 1 .. 9
          /\ {1, 2, 3, 4, 5, 6, 7, 8} \subseteq 1 .. 8
      OBVIOUS
    <3>4. \A x \in phaseNames : \E k \in 1 .. 9 : PhaseFilters[k] = x
      BY <3>1, <3>3
    <3>5. \A x \in allNames : \E k \in 1 .. 8 : CptFilters[k] = x
      BY <3>2, <3>3
    <3>6. \A k \in 1 .. 9 : PhaseFilters[k] \in phaseNames
      BY <3>1, <3>3
    <3>7. \A k \in 1 .. 8 : CptFilters[k] \in allNames
      BY <3>2, <3>3
    <3> QED
      BY <3>1, <3>2, <3>4, <3>5, <3>6, <3>7
  <2>2. ConfigFilters = AllFilters
    <3>1. {<<i, PhaseFilters[k]>> : i \in 1 .. 3, k \in 1 .. 9} = Abc \X phaseNames
      BY <2>1 DEF Abc
    <3>2. {<<0, CptFilters[k]>> : k \in 1 .. 8} = {0} \X allNames
      BY <2>1
    <3>3. AllFilters = (Abc \X phaseNames) \cup ({0} \X allNames)
      BY DEF AllFilters, VoltFilters, PowFilters, ColFilters, CurFilters
    <3> QED
      BY <3>1, <3>2, <3>3 DEF ConfigFilters
  <2>3. \A f \in AllFilters : \/ f[1] \in Abc /\ f[2] \in phaseNames /\ f = <<f[1], f[2]>>
                              \/ f[1] = 0 /\ f[2] \in allNames /\ f = <<f[1], f[2]>>
    BY DEF AllFilters, VoltFilters, PowFilters, ColFilters, CurFilters
  <2>4. BuffersApart'
    <3>1. ASSUME NEW x \in phaseNames
          PROVE  Position(PhaseFilters, x) \in 0 .. 8
                 /\ PhaseFilters[Position(PhaseFilters, x) + 1] = x
      <4> DEFINE k == CHOOSE k \in DOMAIN PhaseFilters : PhaseFilters[k] = x
      <4>1. k \in 1 .. 9 /\ PhaseFilters[k] = x
        BY <2>1
      <4> HIDE DEF k
      <4>2. (k - 1) + 1 = k /\ k - 1 \in 0 .. 8
        BY <4>1
      <4> QED
        BY <4>1, <4>2 DEF k, Position
    <3>2. ASSUME NEW x \in allNames
          PROVE  Position(CptFilters, x) \in 0 .. 7
                 /\ CptFilters[Position(CptFilters, x) + 1] = x
      <4> DEFINE k == CHOOSE k \in DOMAIN CptFilters : CptFilters[k] = x
      <4>1. k \in 1 .. 8 /\ CptFilters[k] = x
        BY <2>1
      <4> HIDE DEF k
      <4>2. (k - 1) + 1 = k /\ k - 1 \in 0 .. 7
        BY <4>1
      <4> QED
        BY <4>1, <4>2 DEF k, Position
    <3>3. \A f \in AllFilters :
             buffer'[f] = IF f[1] = 0 THEN <<"CPT", Position(CptFilters, f[2])>>
                    ELSE <<"Phase", 9 * (f[1] - 1) + Position(PhaseFilters, f[2])>>
      BY <1>3, <2>2 DEF BufferOf
    <3> HIDE DEF phaseNames, allNames
    <3> SUFFICES ASSUME NEW f \in AllFilters, NEW g \in AllFilters, buffer'[f] = buffer'[g]
                 PROVE  f = g
      BY DEF BuffersApart
    <3>4. 0 \notin Abc
      BY DEF Abc
    <3> DEFINE cpt(x) == <<"CPT", Position(CptFilters, x)>>
               ph(i, x) == <<"Phase", 9 * (i - 1) + Position(PhaseFilters, x)>>
    <3>7. /\ \A i, x, y : cpt(x) # ph(i, y)
          /\ \A x, y : cpt(x) = cpt(y) => Position(CptFilters, x) = Position(CptFilters, y)
          /\ \A i, h, x, y : ph(i, x) = ph(h, y) =>
                9 * (i - 1) + Position(PhaseFilters, x) = 9 * (h - 1) + Position(PhaseFilters, y)
      OBVIOUS
    <3>8. \A h \in AllFilters :
             buffer'[h] = IF h[1] = 0 THEN cpt(h[2]) ELSE ph(h[1], h[2])
      BY <3>3
    <3> HIDE DEF cpt, ph
    <3>5. CASE f[1] = 0
      <4>1. buffer'[f] = cpt(f[2])
        BY <3>5, <3>8
      <4>2. g[1] = 0 /\ buffer'[g] = cpt(g[2])
        <5>1. buffer'[g] = cpt(f[2])
          BY <4>1
        <5>2. cpt(f[2]) # ph(g[1], g[2])
          BY <3>7
        <5>3. buffer'[g] = IF g[1] = 0 THEN cpt(g[2]) ELSE ph(g[1], g[2])
          BY <3>8
        <5> QED
          BY <5>1, <5>2, <5>3
      <4>3. Position(CptFilters, f[2]) = Position(CptFilters, g[2])
        BY <3>7, <4>1, <4>2
      <4>4. f[2] \in allNames /\ g[2] \in allNames
        BY <2>3, <3>4, <3>5, <4>2
      <4>5. f[2] = g[2]
        BY <3>2, <4>3, <4>4
      <4> QED
        BY <2>3, <3>5, <4>2, <4>5
    <3>6. CASE f[1] # 0
      <4>1. buffer'[f] = ph(f[1], f[2])
        BY <3>6, <3>8
      <4>2. /\ g[1] # 0 /\ buffer'[g] = ph(g[1], g[2])
        <5>1. buffer'[g] = ph(f[1], f[2])
          BY <4>1
        <5>2. cpt(g[2]) # ph(f[1], f[2])
          BY <3>7
        <5>3. buffer'[g] = IF g[1] = 0 THEN cpt(g[2]) ELSE ph(g[1], g[2])
          BY <3>8
        <5> QED
          BY <5>1, <5>2, <5>3
      <4>3. f[2] \in phaseNames /\ g[2] \in phaseNames /\ f[1] \in Abc /\ g[1] \in Abc
        BY <2>3, <3>6, <4>2
      <4>4. 9 * (f[1] - 1) + Position(PhaseFilters, f[2])
               = 9 * (g[1] - 1) + Position(PhaseFilters, g[2])
        <5>1. ph(f[1], f[2]) = ph(g[1], g[2])
          BY <4>1, <4>2
        <5> DEFINE a == 9 * (f[1] - 1) + Position(PhaseFilters, f[2])
                   b == 9 * (g[1] - 1) + Position(PhaseFilters, g[2])
        <5>2. <<"Phase", a>> = <<"Phase", b>>
          BY <5>1 DEF ph
        <5> HIDE DEF a, b
        <5>3. a = b
          BY <5>2
        <5> QED
          BY <5>3 DEF a, b
      <4>5. Position(PhaseFilters, f[2]) \in 0 .. 8 /\ Position(PhaseFilters, g[2]) \in 0 .. 8
        BY <3>1, <4>3
      <4>6. \A a, b \in 1 .. 3 : \A p, q \in 0 .. 8 :
               9 * (a - 1) + p = 9 * (b - 1) + q => a = b /\ p = q
        OBVIOUS
      <4>7. f[1] = g[1] /\ Position(PhaseFilters, f[2]) = Position(PhaseFilters, g[2])
        BY <4>3, <4>4, <4>5, <4>6 DEF Abc
      <4>8. f[2] = g[2]
        BY <3>1, <4>3, <4>7
      <4>9. f = <<f[1], f[2]>> /\ g = <<g[1], g[2]>>
        BY <2>3
      <4> QED
        BY <4>7, <4>8, <4>9
    <3> QED
      BY <3>5, <3>6
  <2>5. FedTo(maf', Fed', sample')
    <3>1. Fed' = AllFilters
      BY <1>3 DEF Fed
    <3>2. maf' = [f \in AllFilters |-> [kind |-> NoKind, fed |-> 0]]
      BY <1>3, <2>2
    <3> QED
      BY <1>1, <1>3, <3>1, <3>2 DEF FedTo
  <2>6. DOMAIN phase' = Abc /\ \A i \in Abc : phase'[i] = Phase_Init(i)
    BY <1>3 DEF Abc
  <2>7. \A i \in Abc : DOMAIN Phase_Init(i) = PhaseFields
    BY DEF Phase_Init
  <2>8. ASSUME NEW i \in Abc PROVE Carried(i, sample)'
    <3>1. /\ Phase_Init(i).Integral = Quantity(1, 0, 1, 0, {i})
          /\ Phase_Init(i).Integral_lastInput = Quantity(1, 0, 0, 0, {i})
      BY DEF Phase_Init, PhaseFields
    <3> QED
      BY <1>1, <1>3, <2>6, <3>1 DEF Carried
  <2>9. ValuesInv'
    BY <1>1, <1>3, <2>8 DEF ValuesInv, Behind, Calls
  <2>10. FedTo(maf, Fed, sample)'
    BY <2>5
  <2>11. DOMAIN me' = CptFields
    BY <1>3
  <2> QED
    BY <1>1, <1>3, <2>4, <2>6, <2>7, <2>9, <2>10, <2>11 DEF CPTInv
<1>4. sample = 0
  BY <1>1 DEF CPTInv
<1>5. \/ step' = "failed" /\ UNCHANGED <<me_n, phase, me, maf, buffer>>
      \/ phases < 3 /\ step' = "crashed" /\ UNCHANGED <<me_n, phase, me, maf, buffer>>
      \/ /\ phases = 3 /\ step' = "ready" /\ me_n' = 3
         /\ phase' = [i \in 1 .. 3 |-> Phase_Init(i)]
         /\ me' = [x \in CptFields |-> Wrong]
         /\ maf' = [f \in ConfigFilters |-> [kind |-> NoKind, fed |-> 0]]
         /\ buffer' = [f \in ConfigFilters |-> BufferOf(f)]
  BY Zenon DEF CPT_Config
<1> QED
  BY <1>2, <1>3, <1>4, <1>5

(* Before CPT_Config there is nothing to decompose.                        *)
LEMMA CPTInvInit == CPTInit => CPTInv
  BY DEF CPTInit, CPTInv, Running, Calls

(* Every function keeps the invariant.                                     *)
LEMMA CPTInvStep == CPTInv /\ [CPTNext]_cptVars => CPTInv'
<1> SUFFICES ASSUME CPTInv, [CPTNext]_cptVars PROVE CPTInv'
  OBVIOUS
<1>1. CASE \E phases \in Ns : CPT_Config(phases)
  BY <1>1, ConfigStep
<1>2. CASE CPT_Update
  BY <1>2, SampleStep
<1>3. CASE CPT_UpdateVoltagesAndCurrents
  BY <1>3, VoltagesStep
<1>4. CASE CPT_UpdatePowerAndEnergy
  BY <1>4, PowerStep
<1>5. CASE CPT_UpdateCollectiveValues
  BY <1>5, CollectiveStep
<1>6. CASE CPT_CurrentDecomposition
  BY <1>6, CurrentsStep
<1>7. CASE CPT_PowerDecomposition
  BY <1>7, PowersStep
<1>8. CASE CPT_EvaluateFactors
  BY <1>8, FactorsStep
<1>9. CASE UNCHANGED cptVars
  <2>1. UNCHANGED <<me_n, step, sample, phase, me, maf, buffer>>
    BY <1>9 DEF cptVars
  <2>2. Running' = Running /\ Fed' = Fed /\ BuffersApart' = BuffersApart
    BY <2>1 DEF Running, Fed, BuffersApart
  <2>3. FedTo(maf, Fed, sample)' = FedTo(maf, Fed, sample)
    BY <2>1, <2>2 DEF FedTo
  <2>4. ValuesInv' = ValuesInv
    BY <2>1 DEF ValuesInv, Behind, Carried, VoltagesOf, PowerOf, Collected, CurrentsOf,
                CurrentsOfAll, PowersOf, PowersOfAll, FactorsOf, FactorsOfAll
  <2> QED
    BY <2>1, <2>2, <2>3, <2>4 DEF CPTInv
<1> QED
  BY <1>1, <1>2, <1>3, <1>4, <1>5, <1>6, <1>7, <1>8, <1>9 DEF CPTNext

(* What a sample leaves is what is asked of it.                            *)
LEMMA CPTInvSays == CPTInv => DecompositionOfSample
<1> SUFFICES ASSUME CPTInv, step = "ready", sample > 0 PROVE DecompositionOfSample
  BY DEF DecompositionOfSample
<1> DEFINE n == sample
<1>1. /\ me_n = 3 /\ Phases = Abc /\ FedTo(maf, Fed, n) /\ BuffersApart /\ ValuesInv
      /\ DOMAIN maf = AllFilters
  BY DEF CPTInv, Running, Phases, Abc, FedTo
<1>2. /\ Behind({"voltages"}) /\ Behind({"voltages", "power"})
      /\ Behind({"voltages", "power", "collective"})
      /\ Behind({"voltages", "power", "collective", "currents"})
      /\ Behind({"voltages", "power", "collective", "currents", "powers"}) /\ Behind(Calls)
  BY DEF Behind, Calls
<1>3. \A i \in Abc : /\ VoltagesOf(i, n) /\ PowerOf(i, n) /\ CurrentsOf(i, n)
                     /\ PowersOf(i, n) /\ FactorsOf(i, n)
  BY <1>1, <1>2 DEF ValuesInv
<1>4. Collected(n) /\ CurrentsOfAll(n) /\ PowersOfAll(n) /\ FactorsOfAll(n)
  <2>1. 1 \in Abc
    BY DEF Abc
  <2> QED
    BY <1>1, <1>2, <2>1 DEF ValuesInv
<1>5. ASSUME NEW a, NEW b, NEW w, NEW S, NEW x, x = Quantity(a, b, w, n, S)
      PROVE  x.ok /\ x.at = sample /\ Kind(x) = <<<<a, b, w>>, S>>
  <2>1. Quantity(a, b, w, n, S).ok /\ Quantity(a, b, w, n, S).at = n
    BY DEF Quantity
  <2> QED
    BY <1>5, <2>1, KindIs
<1>6. ASSUME NEW x \in CptFields
      PROVE  me[x].ok /\ Kind(me[x]) = <<UnitOf(x), Phases>> /\ me[x].at = sample
  <2>1. \/ x = "V_rms" /\ me[x] = Quantity(1, 0, 0, n, Abc) /\ UnitOf(x) = <<1, 0, 0>>
        \/ x = "UI_rms" /\ me[x] = Quantity(1, 0, 1, n, Abc) /\ UnitOf(x) = <<1, 0, 1>>
        \/ x = "W_avg" /\ me[x] = Quantity(1, 1, 1, n, Abc) /\ UnitOf(x) = <<1, 1, 1>>
        \/ /\ x \in {"I_rms", "Iba_rms", "Iua_rms", "Ibr_rms", "Iur_rms", "Iv_rms"}
           /\ me[x] = Quantity(0, 1, 0, n, Abc) /\ UnitOf(x) = <<0, 1, 0>>
        \/ /\ x \in {"P_avg", "A", "Q", "Na", "Nr", "N", "V"}
           /\ me[x] = Quantity(1, 1, 0, n, Abc) /\ UnitOf(x) = <<1, 1, 0>>
        \/ /\ x \in {"PF", "NF", "QF", "VF"}
           /\ me[x] = Quantity(0, 0, 0, n, Abc) /\ UnitOf(x) = <<0, 0, 0>>
    BY <1>4 DEF CptFields, Collected, CurrentsOfAll, PowersOfAll, FactorsOfAll, UnitOf
  <2>2. PICK a, b, w : me[x] = Quantity(a, b, w, n, Abc) /\ UnitOf(x) = <<a, b, w>>
    BY <2>1, Zenon
  <2> QED
    BY <1>1, <1>5, <2>2
<1>7. ASSUME NEW i \in Phases, NEW x \in PhaseFields \ (Internal \union Unrooted)
      PROVE  /\ phase[i][x].ok /\ phase[i][x].at = sample
             /\ Kind(phase[i][x]) = <<UnitOf(x), IF x \in Balanced THEN Phases ELSE {i}>>
  <2> DEFINE of == IF x \in Balanced THEN Abc ELSE {i}
  <2>1. /\ VoltagesOf(i, n) /\ PowerOf(i, n) /\ CurrentsOf(i, n)
        /\ PowersOf(i, n) /\ FactorsOf(i, n)
    BY <1>1, <1>3
  <2>2. x \in {"V_rms", "I_rms", "W_avg", "P_avg", "Q", "Ia", "Iba", "Iua", "Ir", "Ibr",
               "Iur", "Iv", "Iu", "Iba_rms", "Ibr_rms", "Iv_rms", "A", "V", "PF", "QF", "VF"}
    BY DEF PhaseFields, Internal, Unrooted
  <2>3. \/ /\ x = "V_rms" /\ phase[i][x] = Quantity(1, 0, 0, n, of)
           /\ UnitOf(x) = <<1, 0, 0>>
        \/ /\ x = "W_avg" /\ phase[i][x] = Quantity(1, 1, 1, n, of)
           /\ UnitOf(x) = <<1, 1, 1>>
        \/ /\ x \in {"I_rms", "Ia", "Iba", "Iua", "Ir", "Ibr", "Iur", "Iv", "Iu", "Iba_rms",
                     "Ibr_rms", "Iv_rms"}
           /\ phase[i][x] = Quantity(0, 1, 0, n, of) /\ UnitOf(x) = <<0, 1, 0>>
        \/ /\ x \in {"P_avg", "Q", "A", "V"}
           /\ phase[i][x] = Quantity(1, 1, 0, n, of) /\ UnitOf(x) = <<1, 1, 0>>
        \/ /\ x \in {"PF", "QF", "VF"}
           /\ phase[i][x] = Quantity(0, 0, 0, n, of) /\ UnitOf(x) = <<0, 0, 0>>
    BY <2>1, <2>2 DEF VoltagesOf, PowerOf, CurrentsOf, PowersOf, FactorsOf, UnitOf, Balanced
  <2> HIDE DEF of
  <2>4. PICK a, b, w : phase[i][x] = Quantity(a, b, w, n, of) /\ UnitOf(x) = <<a, b, w>>
    BY <2>3, Zenon
  <2>5. phase[i][x].ok /\ phase[i][x].at = sample /\ Kind(phase[i][x]) = <<UnitOf(x), of>>
    BY <1>5, <2>4
  <2> QED
    BY <1>1, <2>5 DEF of
<1>8. \A f, g \in DOMAIN maf : maf[f].fed = sample /\ (buffer[f] = buffer[g] => f = g)
  <2>1. Fed = AllFilters
    BY DEF Fed
  <2> QED
    BY <1>1, <2>1 DEF FedTo, BuffersApart
<1> QED
  BY <1>6, <1>7, <1>8 DEF DecompositionOfSample

(* After every call of CPT_Update, of any number of samples, each current, *)
(* power and factor has its unit, is of this sample and of the phases it   *)
(* should be of, and the 35 filters have had one input each, in buffers of *)
(* their own: the calls are in an order in which no function reads what a  *)
(* later one writes, and no filter is shared or fed twice.                 *)
THEOREM SampleDecomposed == CPTInit /\ [][CPTNext]_cptVars => []DecompositionOfSample
<1>1. CPTInit => CPTInv
  BY CPTInvInit
<1>2. CPTInv /\ [CPTNext]_cptVars => CPTInv'
  BY CPTInvStep
<1>3. CPTInv => DecompositionOfSample
  BY CPTInvSays
<1> QED
  BY <1>1, <1>2, <1>3, PTL
=============================================================================
