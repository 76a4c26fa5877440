---------------------------- MODULE PacketLayout ----------------------------
(***************************************************************************)
(* The way of a sample from the SPI bus to the channel buffers: PRU1 packs *)
(* the bytes of four conversions into r1..r25 (ads131e08s.inc,             *)
(* ads131e08s_pru1.asm), the packet is stored in DDR, the host unpacks a   *)
(* message of packets (ConvertRawValues).  The two ends are written in two *)
(* languages and agree on offsets, byte order and sign only by convention. *)
(*                                                                         *)
(* A byte is a digit to the base Radix; an ADC code has three of them, a   *)
(* 32-bit word four.  The float scaling by ADC_REF / ADC_RES is left out.  *)
(***************************************************************************)
EXTENDS Integers, Sequences

CONSTANTS Channels,    \* CHANNELS
          Samples,     \* PKG_SAMPLES
          PkgTotal,    \* PKG_TOTAL: packets of a message
          Radix,       \* values of a byte
          Codes        \* codes the converter may deliver

Half == (Radix * Radix * Radix) \div 2
SampleBytes == 3 * Channels
PkgSize == 4 + Samples * SampleBytes

ASSUME LayoutAssumption ==
    /\ Channels \in Nat \ {0} /\ Samples \in Nat \ {0} /\ PkgTotal \in Nat \ {0}
    /\ Radix \in Nat \ {0} /\ Radix % 2 = 0
    /\ SampleBytes % 4 = 0                \* a conversion fills whole registers
    /\ Codes \subseteq -Half .. Half - 1

VARIABLES
  stage,       \* "status", "data", "mark": PRU1; "convert", "done": host
  regs,        \* bytes of r1..r25, by their address in the packet
  j, c,        \* conversion of the packet and channel PRU1 is receiving
  ram,         \* the packets of the message in DDR
  s_idx,       \* samples converted by the host
  ch_data,     \* the channel buffers
  measured     \* history: codes the converter delivered, by conversion

layoutVars == <<stage, regs, j, c, ram, s_idx, ch_data, measured>>

\* Bytes that carry no code
Unset == -1
Status == -2       \* of the status word of the last conversion
Marker == -3       \* of 0xDEADBEEF

Code == -Half .. Half - 1
Byte == 0 .. Radix - 1
PacketBytes == [0 .. PkgSize - 1 -> Byte \cup {Unset, Status, Marker}]

(* Every variable keeps its type; every value in the channel buffers is a  *)
(* code of the converter.                                                  *)
LayoutTypeOK ==
    /\ stage \in {"status", "data", "mark", "convert", "done"}
    /\ regs \in PacketBytes
    /\ j \in 0 .. Samples - 1 /\ c \in 0 .. Channels
    /\ ram \in Seq(PacketBytes) /\ Len(ram) <= PkgTotal
    /\ s_idx \in 0 .. PkgTotal * Samples
    /\ ch_data \in [0 .. Channels - 1 -> Seq(Code)]
    /\ measured \in Seq(Seq(Code))

LayoutInit ==
    /\ stage = "status"
    /\ regs = [b \in 0 .. PkgSize - 1 |-> Unset]
    /\ j = 0 /\ c = 0
    /\ ram = <<>>
    /\ s_idx = 0
    /\ ch_data = [k \in 0 .. Channels - 1 |-> <<>>]
    /\ measured = <<>>

-----------------------------------------------------------------------------
(* PRU1                                                                    *)

(* Address in the packet of byte b of register r (r1 comes first).         *)
RegByte(r, b) == 4 * (r - 1) + b

(* The i-th byte of a code on the bus, most significant first. *)
BusByte(code, i) ==
    LET word == IF code < 0 THEN code + 2 * Half ELSE code
    IN  CASE i = 0 -> word \div (Radix * Radix)
          [] i = 1 -> (word \div Radix) % Radix
          [] i = 2 -> word % Radix

(* ADS_GET_DATA24 up to the status word: r1 is cleared, then its bytes b3, *)
(* b2 and b1 are received.                                                 *)
GetStatus ==
    /\ stage = "status"
    /\ regs' = [b \in DOMAIN regs |->
                  CASE b = RegByte(1, 0) -> 0
                    [] b \in {RegByte(1, i) : i \in 1 .. 3} -> Status
                    [] OTHER -> regs[b]]
    /\ measured' = Append(measured, <<>>)
    /\ stage' = "data" /\ c' = 0
    /\ UNCHANGED <<j, ram, s_idx, ch_data>>

(* Slip: the bytes of a register are filled from the top. *)
Swapped_DataByte(conversion, pos) ==
    RegByte(2 + conversion * (SampleBytes \div 4) + pos \div 4, 3 - (pos % 4))

(* Where ADS_GET_DATA24, called with r2.., r8.., r14.., r20.., puts the    *)
(* pos-th data byte of a conversion.                                       *)
DataByte(conversion, pos) ==
    RegByte(2 + conversion * (SampleBytes \div 4) + pos \div 4, pos % 4)

(* ADS_GET_DATA24: the three bytes of a channel. *)
GetChannel(code) ==
    /\ stage = "data" /\ c < Channels
    /\ regs' = [b \in DOMAIN regs |->
                  IF \E i \in 0 .. 2 : b = DataByte(j, 3 * c + i)
                    THEN BusByte(code, CHOOSE i \in 0 .. 2 : b = DataByte(j, 3 * c + i))
                    ELSE regs[b]]
    /\ measured' = [measured EXCEPT ![Len(measured)] = Append(@, code)]
    /\ c' = c + 1
    /\ UNCHANGED <<stage, j, ram, s_idx, ch_data>>

(* The next conversion of the packet, or its end. *)
NextConversion ==
    /\ stage = "data" /\ c = Channels
    /\ IF j + 1 < Samples THEN stage' = "status" /\ j' = j + 1
                          ELSE stage' = "mark" /\ j' = 0
    /\ UNCHANGED <<regs, c, ram, s_idx, ch_data, measured>>

(* r1 is overwritten with 0xDEADBEEF; the packet goes to DDR. *)
MarkAndStore ==
    LET packet == [b \in DOMAIN regs |-> IF b < 4 THEN Marker ELSE regs[b]]
    IN  /\ stage = "mark"
        /\ regs' = packet
        /\ ram' = Append(ram, packet)
        /\ stage' = IF Len(ram') < PkgTotal THEN "status" ELSE "convert"
        /\ UNCHANGED <<j, c, s_idx, ch_data, measured>>

-----------------------------------------------------------------------------
(* ConvertRawValues                                                        *)

(* bn[3] = 0, bn[2], bn[1], bn[0] read as a little-endian int32, shifted   *)
(* left and arithmetically right by one byte, as compiled by gcc.          *)
Value(b2, b1, b0) ==
    LET up == (((b2 * Radix + b1) * Radix + b0) * Radix) % (2 * Half * Radix)
        signed == IF up >= Half * Radix THEN up - 2 * Half * Radix ELSE up
    IN  signed \div Radix

(* Offset in its packet of the first byte of a sample: four bytes are      *)
(* discarded.                                                              *)
p_idx(sample) == 4 + sample * SampleBytes

(* The body of the loop over j: one sample of all channels. *)
Convert ==
    /\ stage = "convert" /\ s_idx < PkgTotal * Samples
    /\ LET from == ram[s_idx \div Samples + 1]
           at(k) == p_idx(s_idx % Samples) + 3 * k
       IN  ch_data' = [k \in DOMAIN ch_data |->
                         Append(ch_data[k], Value(from[at(k)], from[at(k) + 1],
                                                  from[at(k) + 2]))]
    /\ s_idx' = s_idx + 1
    /\ stage' = IF s_idx' = PkgTotal * Samples THEN "done" ELSE "convert"
    /\ UNCHANGED <<regs, j, c, ram, measured>>

Finished == stage = "done" /\ UNCHANGED layoutVars

LayoutNext == \/ GetStatus \/ (\E code \in Codes : GetChannel(code))
              \/ NextConversion \/ MarkAndStore \/ Convert \/ Finished

LayoutSpec == LayoutInit /\ [][LayoutNext]_layoutVars

-----------------------------------------------------------------------------
(* Properties                                                              *)

(* Sample s of channel k in the host's buffers is the code the converter   *)
(* delivered for channel k in conversion s: no byte is misplaced, dropped  *)
(* or read from a neighbour between the two ends, and the sign survives.   *)
SamplesFaithful ==
    \A k \in 0 .. Channels - 1 : \A s \in 1 .. s_idx :
        ch_data[k][s] = measured[s][k + 1]
=============================================================================
