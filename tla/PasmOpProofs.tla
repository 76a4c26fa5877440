---------------------------- MODULE PasmOpProofs ----------------------------
(***************************************************************************)
(* The instructions of the assembler (PasmOp), for any operands, each core *)
(* and byte order and any place in the program: the words that the second  *)
(* pass assembles make the core do what the instruction says.              *)
(*                                                                         *)
(* A word is built from pieces that lie in bits of their own, so that what *)
(* is read from a range of bits is the number that was put there: this is  *)
(* shown first, for numbers and for each form of word.  Then what the      *)
(* getters accept of an operand is what the operand says, which gives the  *)
(* theorem family by family of instructions.                               *)
(***************************************************************************)
EXTENDS PasmOp, WellFoundedInduction, TLAPS

(* A set of numbers that is not empty has a least one.                     *)
LEMMA LeastOf ==
    ASSUME NEW S \in SUBSET Nat, S # {}
    PROVE  \E i \in S : \A k \in S : i <= k
<1> DEFINE R == OpToRel(<, Nat)
<1>1. IsWellFoundedOn(R, Nat)
  BY NatLessThanWellFounded
<1>2. \A i, k \in Nat : <<i, k>> \in R <=> i < k
  BY DEF OpToRel
<1> HIDE DEF R
<1>3. PICK i \in S : \A k \in S : ~(<<k, i>> \in R)
  BY <1>1, WFMin
<1>4. ASSUME NEW k \in S PROVE i <= k
  <2>1. i \in Nat /\ k \in Nat /\ ~(<<k, i>> \in R)
    BY <1>3
  <2>2. ~(k < i)
    BY <1>2, <2>1
  <2> QED
    BY <2>1, <2>2
<1> QED
  BY <1>4

-----------------------------------------------------------------------------
(* PasmOp: numbers and their bits                                          *)

(* The weight of bit i in a set of bits.                                   *)
Weight(bits, i, p) == IF i \in bits THEN p ELSE 0

LEMMA NumberIs ==
    ASSUME NEW bits
    PROVE  Number(bits)
             = Weight(bits, 0, 1) + Weight(bits, 1, 2) + Weight(bits, 2, 4)
               + Weight(bits, 3, 8) + Weight(bits, 4, 16) + Weight(bits, 5, 32)
               + Weight(bits, 6, 64) + Weight(bits, 7, 128) + Weight(bits, 8, 256)
               + Weight(bits, 9, 512) + Weight(bits, 10, 1024)
               + Weight(bits, 11, 2048) + Weight(bits, 12, 4096)
               + Weight(bits, 13, 8192) + Weight(bits, 14, 16384)
               + Weight(bits, 15, 32768)
BY SMT DEF Number, Weight

(* A number of 16 bits is the number of its bits.                          *)
LEMMA NumberOfBits ==
    ASSUME NEW v \in Nat, v <= 65535
    PROVE  Number(Bits(v)) = v
<1> DEFINE h(p) == v \div p
           b(p) == h(p) % 2
<1>1. Weight(Bits(v), 0, 1) = 1 * b(1) /\ b(1) \in 0 .. 1
  BY SMT DEF Weight, Bits
<1>2. Weight(Bits(v), 1, 2) = 2 * b(2) /\ b(2) \in 0 .. 1
  BY SMT DEF Weight, Bits
<1>3. Weight(Bits(v), 2, 4) = 4 * b(4) /\ b(4) \in 0 .. 1
  BY SMT DEF Weight, Bits
<1>4. Weight(Bits(v), 3, 8) = 8 * b(8) /\ b(8) \in 0 .. 1
  BY SMT DEF Weight, Bits
<1>5. Weight(Bits(v), 4, 16) = 16 * b(16) /\ b(16) \in 0 .. 1
  BY SMT DEF Weight, Bits
<1>6. Weight(Bits(v), 5, 32) = 32 * b(32) /\ b(32) \in 0 .. 1
  BY SMT DEF Weight, Bits
<1>7. Weight(Bits(v), 6, 64) = 64 * b(64) /\ b(64) \in 0 .. 1
  BY SMT DEF Weight, Bits
<1>8. Weight(Bits(v), 7, 128) = 128 * b(128) /\ b(128) \in 0 .. 1
  BY SMT DEF Weight, Bits
<1>9. Weight(Bits(v), 8, 256) = 256 * b(256) /\ b(256) \in 0 .. 1
  BY SMT DEF Weight, Bits
<1>10. Weight(Bits(v), 9, 512) = 512 * b(512) /\ b(512) \in 0 .. 1
  BY SMT DEF Weight, Bits
<1>11. Weight(Bits(v), 10, 1024) = 1024 * b(1024) /\ b(1024) \in 0 .. 1
  BY SMT DEF Weight, Bits
<1>12. Weight(Bits(v), 11, 2048) = 2048 * b(2048) /\ b(2048) \in 0 .. 1
  BY SMT DEF Weight, Bits
<1>13. Weight(Bits(v), 12, 4096) = 4096 * b(4096) /\ b(4096) \in 0 .. 1
  BY SMT DEF Weight, Bits
<1>14. Weight(Bits(v), 13, 8192) = 8192 * b(8192) /\ b(8192) \in 0 .. 1
  BY SMT DEF Weight, Bits
<1>15. Weight(Bits(v), 14, 16384) = 16384 * b(16384) /\ b(16384) \in 0 .. 1
  BY SMT DEF Weight, Bits
<1>16. Weight(Bits(v), 15, 32768) = 32768 * b(32768) /\ b(32768) \in 0 .. 1
  BY SMT DEF Weight, Bits
<1>17. h(1) = b(1) + 2 * h(2) /\ h(2) \in Int
  BY SMT
<1>18. h(2) = b(2) + 2 * h(4) /\ h(4) \in Int
  BY SMT
<1>19. h(4) = b(4) + 2 * h(8) /\ h(8) \in Int
  BY SMT
<1>20. h(8) = b(8) + 2 * h(16) /\ h(16) \in Int
  BY SMT
<1>21. h(16) = b(16) + 2 * h(32) /\ h(32) \in Int
  BY SMT
<1>22. h(32) = b(32) + 2 * h(64) /\ h(64) \in Int
  BY SMT
<1>23. h(64) = b(64) + 2 * h(128) /\ h(128) \in Int
  BY SMT
<1>24. h(128) = b(128) + 2 * h(256) /\ h(256) \in Int
  BY SMT
<1>25. h(256) = b(256) + 2 * h(512) /\ h(512) \in Int
  BY SMT
<1>26. h(512) = b(512) + 2 * h(1024) /\ h(1024) \in Int
  BY SMT
<1>27. h(1024) = b(1024) + 2 * h(2048) /\ h(2048) \in Int
  BY SMT
<1>28. h(2048) = b(2048) + 2 * h(4096) /\ h(4096) \in Int
  BY SMT
<1>29. h(4096) = b(4096) + 2 * h(8192) /\ h(8192) \in Int
  BY SMT
<1>30. h(8192) = b(8192) + 2 * h(16384) /\ h(16384) \in Int
  BY SMT
<1>31. h(16384) = b(16384) + 2 * h(32768) /\ h(32768) \in Int
  BY SMT
<1>32. h(32768) = b(32768) + 2 * h(65536) /\ h(65536) \in Int
  BY SMT
<1>33. h(1) = v /\ h(65536) = 0
  BY SMT
<1> HIDE DEF h, b
<1>34. h(1) = b(1) + 2 * b(2) + 4 * b(4) + 8 * b(8) + 16 * h(16)
  BY <1>1, <1>2, <1>3, <1>4, <1>17, <1>18, <1>19, <1>20, SMT
<1>35. h(16) = b(16) + 2 * b(32) + 4 * b(64) + 8 * b(128) + 16 * h(256)
  BY <1>5, <1>6, <1>7, <1>8, <1>21, <1>22, <1>23, <1>24, SMT
<1>36. h(256) = b(256) + 2 * b(512) + 4 * b(1024) + 8 * b(2048) + 16 * h(4096)
  BY <1>9, <1>10, <1>11, <1>12, <1>25, <1>26, <1>27, <1>28, SMT
<1>37. h(4096) = b(4096) + 2 * b(8192) + 4 * b(16384) + 8 * b(32768) + 16 * h(65536)
  BY <1>13, <1>14, <1>15, <1>16, <1>29, <1>30, <1>31, <1>32, SMT
<1> QED
  BY NumberIs, <1>1, <1>2, <1>3, <1>4, <1>5, <1>6, <1>7, <1>8, <1>9, <1>10,
     <1>11, <1>12, <1>13, <1>14, <1>15, <1>16, <1>32, <1>33, <1>34, <1>35, <1>36, <1>37, SMTT(60)

(* A number less than 2^k has no bit k.                                    *)
LEMMA NoBitAbove ==
    ASSUME NEW v \in Nat
    PROVE  /\ v < 2 => 1 \notin Bits(v)
           /\ v < 4 => 2 \notin Bits(v)
           /\ v < 8 => 3 \notin Bits(v)
           /\ v < 16 => 4 \notin Bits(v)
           /\ v < 32 => 5 \notin Bits(v)
           /\ v < 64 => 6 \notin Bits(v)
           /\ v < 128 => 7 \notin Bits(v)
           /\ v < 256 => 8 \notin Bits(v)
           /\ v < 512 => 9 \notin Bits(v)
           /\ v < 1024 => 10 \notin Bits(v)
           /\ v < 2048 => 11 \notin Bits(v)
           /\ v < 4096 => 12 \notin Bits(v)
           /\ v < 8192 => 13 \notin Bits(v)
           /\ v < 16384 => 14 \notin Bits(v)
           /\ v < 32768 => 15 \notin Bits(v)
           /\ v < 65536 => 16 \notin Bits(v)
<1>1. v < 2 => 1 \notin Bits(v)
  BY SMT DEF Bits
<1>2. v < 4 => 2 \notin Bits(v)
  BY SMT DEF Bits
<1>3. v < 8 => 3 \notin Bits(v)
  BY SMT DEF Bits
<1>4. v < 16 => 4 \notin Bits(v)
  BY SMT DEF Bits
<1>5. v < 32 => 5 \notin Bits(v)
  BY SMT DEF Bits
<1>6. v < 64 => 6 \notin Bits(v)
  BY SMT DEF Bits
<1>7. v < 128 => 7 \notin Bits(v)
  BY SMT DEF Bits
<1>8. v < 256 => 8 \notin Bits(v)
  BY SMT DEF Bits
<1>9. v < 512 => 9 \notin Bits(v)
  BY SMT DEF Bits
<1>10. v < 1024 => 10 \notin Bits(v)
  BY SMT DEF Bits
<1>11. v < 2048 => 11 \notin Bits(v)
  BY SMT DEF Bits
<1>12. v < 4096 => 12 \notin Bits(v)
  BY SMT DEF Bits
<1>13. v < 8192 => 13 \notin Bits(v)
  BY SMT DEF Bits
<1>14. v < 16384 => 14 \notin Bits(v)
  BY SMT DEF Bits
<1>15. v < 32768 => 15 \notin Bits(v)
  BY SMT DEF Bits
<1>16. v < 65536 => 16 \notin Bits(v)
  BY SMT DEF Bits
<1> QED
  BY <1>1, <1>2, <1>3, <1>4, <1>5, <1>6, <1>7, <1>8, <1>9, <1>10, <1>11, <1>12,
     <1>13, <1>14, <1>15, <1>16

(* A number of n bits.                                                     *)
Fits(v, n) == v \in Nat /\ v <= 65535 /\ Bits(v) \subseteq 0 .. n - 1

LEMMA NumbersFit ==
    ASSUME NEW v \in Nat
    PROVE  /\ v < 2 => Fits(v, 1)
           /\ v < 4 => Fits(v, 2)
           /\ v < 8 => Fits(v, 3)
           /\ v < 16 => Fits(v, 4)
           /\ v < 32 => Fits(v, 5)
           /\ v < 128 => Fits(v, 7)
           /\ v < 256 => Fits(v, 8)
           /\ v < 65536 => Fits(v, 16)
<1>1. \A i \in Bits(v) : i \in 0 .. 16
  BY SMT DEF Bits
<1> DEFINE B == Bits(v)
<1>2. /\ v < 2 => 1 \notin B
      /\ v < 4 => 2 \notin B
      /\ v < 8 => 3 \notin B
      /\ v < 16 => 4 \notin B
      /\ v < 32 => 5 \notin B
      /\ v < 64 => 6 \notin B
      /\ v < 128 => 7 \notin B
      /\ v < 256 => 8 \notin B
      /\ v < 512 => 9 \notin B
      /\ v < 1024 => 10 \notin B
      /\ v < 2048 => 11 \notin B
      /\ v < 4096 => 12 \notin B
      /\ v < 8192 => 13 \notin B
      /\ v < 16384 => 14 \notin B
      /\ v < 32768 => 15 \notin B
      /\ v < 65536 => 16 \notin B
  BY NoBitAbove
<1>3. ASSUME NEW i \in B
      PROVE  i = 0 \/ i = 1 \/ i = 2 \/ i = 3 \/ i = 4 \/ i = 5 \/ i = 6
             \/ i = 7 \/ i = 8 \/ i = 9 \/ i = 10 \/ i = 11 \/ i = 12 \/ i = 13
             \/ i = 14 \/ i = 15 \/ i = 16
  BY <1>1, SMT
<1> HIDE DEF B
<1>4. v < 2 => v <= 65535 /\ B \subseteq 0 .. 0
  BY <1>2, <1>3, SMT
<1>5. v < 4 => v <= 65535 /\ B \subseteq 0 .. 1
  BY <1>2, <1>3, SMT
<1>6. v < 8 => v <= 65535 /\ B \subseteq 0 .. 2
  BY <1>2, <1>3, SMT
<1>7. v < 16 => v <= 65535 /\ B \subseteq 0 .. 3
  BY <1>2, <1>3, SMT
<1>8. v < 32 => v <= 65535 /\ B \subseteq 0 .. 4
  BY <1>2, <1>3, SMT
<1>9. v < 128 => v <= 65535 /\ B \subseteq 0 .. 6
  BY <1>2, <1>3, SMT
<1>10. v < 256 => v <= 65535 /\ B \subseteq 0 .. 7
  BY <1>2, <1>3, SMT
<1>11. v < 65536 => v <= 65535 /\ B \subseteq 0 .. 15
  BY <1>2, <1>3, SMT
<1> QED
  BY <1>4, <1>5, <1>6, <1>7, <1>8, <1>9, <1>10, <1>11, SMT DEF Fits, B

(* A number of n bits, moved up, stays within its field, and is read back. *)
LEMMA ShIn ==
    ASSUME NEW from \in Nat, NEW n \in Nat, from + n <= 32, NEW v, Fits(v, n)
    PROVE  /\ Sh(v, from) \subseteq from .. from + n - 1
           /\ Sh(v, from) = {i + from : i \in Bits(v)}
BY SMT DEF Fits, Sh

LEMMA ReadIs ==
    ASSUME NEW from \in Nat, NEW n \in Nat, from + n <= 32, NEW v, Fits(v, n),
           NEW w, w \cap from .. from + n - 1 = Sh(v, from)
    PROVE  Read(w, from, n) = v
<1>1. Slice(w, from, n) = Bits(v)
  <2>1. Bits(v) \subseteq 0 .. n - 1 /\ Sh(v, from) = {i + from : i \in Bits(v)}
    BY ShIn DEF Fits
  <2>2. Slice(w, from, n) = {i - from : i \in {j + from : j \in Bits(v)}}
    BY <2>1 DEF Slice
  <2>3. \A j \in Bits(v) : j \in Int /\ (j + from) - from = j
    BY <2>1, SMT
  <2>4. ASSUME NEW j \in Bits(v) PROVE j \in Slice(w, from, n)
    BY <2>2, <2>3, SMT
  <2>5. ASSUME NEW j \in Slice(w, from, n) PROVE j \in Bits(v)
    <3>1. PICK i \in Bits(v) : j = (i + from) - from
      BY <2>2
    <3> QED
      BY <2>3, <3>1
  <2> QED
    BY <2>4, <2>5
<1>2. Number(Bits(v)) = v
  BY NumberOfBits DEF Fits
<1> QED
  BY <1>1, <1>2 DEF Read


(* The seven bits that say the operation, and their upper five and four.   *)
LEMMA TopIs ==
    ASSUME NEW w
    PROVE  /\ Read(w, 25, 7) \in 0 .. 127
           /\ Read(w, 27, 5) = Read(w, 25, 7) \div 4
           /\ Read(w, 28, 4) = Read(w, 25, 7) \div 8
<1> DEFINE b(i) == IF i \in w THEN 1 ELSE 0
<1>1. Read(w, 25, 7) = 1 * b(25) + 2 * b(26) + 4 * b(27) + 8 * b(28)
                       + 16 * b(29) + 32 * b(30) + 64 * b(31)
  <2>1. Weight(Slice(w, 25, 7), 0, 1) = 1 * b(25)
    BY SMT DEF Weight, Slice
  <2>2. Weight(Slice(w, 25, 7), 1, 2) = 2 * b(26)
    BY SMT DEF Weight, Slice
  <2>3. Weight(Slice(w, 25, 7), 2, 4) = 4 * b(27)
    BY SMT DEF Weight, Slice
  <2>4. Weight(Slice(w, 25, 7), 3, 8) = 8 * b(28)
    BY SMT DEF Weight, Slice
  <2>5. Weight(Slice(w, 25, 7), 4, 16) = 16 * b(29)
    BY SMT DEF Weight, Slice
  <2>6. Weight(Slice(w, 25, 7), 5, 32) = 32 * b(30)
    BY SMT DEF Weight, Slice
  <2>7. Weight(Slice(w, 25, 7), 6, 64) = 64 * b(31)
    BY SMT DEF Weight, Slice
  <2>8. Weight(Slice(w, 25, 7), 7, 128) = 0
    BY SMT DEF Weight, Slice
  <2>9. Weight(Slice(w, 25, 7), 8, 256) = 0
    BY SMT DEF Weight, Slice
  <2>10. Weight(Slice(w, 25, 7), 9, 512) = 0
    BY SMT DEF Weight, Slice
  <2>11. Weight(Slice(w, 25, 7), 10, 1024) = 0
    BY SMT DEF Weight, Slice
  <2>12. Weight(Slice(w, 25, 7), 11, 2048) = 0
    BY SMT DEF Weight, Slice
  <2>13. Weight(Slice(w, 25, 7), 12, 4096) = 0
    BY SMT DEF Weight, Slice
  <2>14. Weight(Slice(w, 25, 7), 13, 8192) = 0
    BY SMT DEF Weight, Slice
  <2>15. Weight(Slice(w, 25, 7), 14, 16384) = 0
    BY SMT DEF Weight, Slice
  <2>16. Weight(Slice(w, 25, 7), 15, 32768) = 0
    BY SMT DEF Weight, Slice
  <2> HIDE DEF b
  <2>17. \A i \in Nat : b(i) \in 0 .. 1
    BY SMT DEF b
  <2> QED
    BY NumberIs, <2>1, <2>2, <2>3, <2>4, <2>5, <2>6, <2>7, <2>8, <2>9, <2>10,
       <2>11, <2>12, <2>13, <2>14, <2>15, <2>16, <2>17, SMT DEF Read
<1>2. Read(w, 27, 5) = 1 * b(27) + 2 * b(28) + 4 * b(29) + 8 * b(30) + 16 * b(31)
  <2>1. Weight(Slice(w, 27, 5), 0, 1) = 1 * b(27)
    BY SMT DEF Weight, Slice
  <2>2. Weight(Slice(w, 27, 5), 1, 2) = 2 * b(28)
    BY SMT DEF Weight, Slice
  <2>3. Weight(Slice(w, 27, 5), 2, 4) = 4 * b(29)
    BY SMT DEF Weight, Slice
  <2>4. Weight(Slice(w, 27, 5), 3, 8) = 8 * b(30)
    BY SMT DEF Weight, Slice
  <2>5. Weight(Slice(w, 27, 5), 4, 16) = 16 * b(31)
    BY SMT DEF Weight, Slice
  <2>6. Weight(Slice(w, 27, 5), 5, 32) = 0
    BY SMT DEF Weight, Slice
  <2>7. Weight(Slice(w, 27, 5), 6, 64) = 0
    BY SMT DEF Weight, Slice
  <2>8. Weight(Slice(w, 27, 5), 7, 128) = 0
    BY SMT DEF Weight, Slice
  <2>9. Weight(Slice(w, 27, 5), 8, 256) = 0
    BY SMT DEF Weight, Slice
  <2>10. Weight(Slice(w, 27, 5), 9, 512) = 0
    BY SMT DEF Weight, Slice
  <2>11. Weight(Slice(w, 27, 5), 10, 1024) = 0
    BY SMT DEF Weight, Slice
  <2>12. Weight(Slice(w, 27, 5), 11, 2048) = 0
    BY SMT DEF Weight, Slice
  <2>13. Weight(Slice(w, 27, 5), 12, 4096) = 0
    BY SMT DEF Weight, Slice
  <2>14. Weight(Slice(w, 27, 5), 13, 8192) = 0
    BY SMT DEF Weight, Slice
  <2>15. Weight(Slice(w, 27, 5), 14, 16384) = 0
    BY SMT DEF Weight, Slice
  <2>16. Weight(Slice(w, 27, 5), 15, 32768) = 0
    BY SMT DEF Weight, Slice
  <2> HIDE DEF b
  <2>17. \A i \in Nat : b(i) \in 0 .. 1
    BY SMT DEF b
  <2> QED
    BY NumberIs, <2>1, <2>2, <2>3, <2>4, <2>5, <2>6, <2>7, <2>8, <2>9, <2>10,
       <2>11, <2>12, <2>13, <2>14, <2>15, <2>16, <2>17, SMT DEF Read
<1>3. Read(w, 28, 4) = 1 * b(28) + 2 * b(29) + 4 * b(30) + 8 * b(31)
  <2>1. Weight(Slice(w, 28, 4), 0, 1) = 1 * b(28)
    BY SMT DEF Weight, Slice
  <2>2. Weight(Slice(w, 28, 4), 1, 2) = 2 * b(29)
    BY SMT DEF Weight, Slice
  <2>3. Weight(Slice(w, 28, 4), 2, 4) = 4 * b(30)
    BY SMT DEF Weight, Slice
  <2>4. Weight(Slice(w, 28, 4), 3, 8) = 8 * b(31)
    BY SMT DEF Weight, Slice
  <2>5. Weight(Slice(w, 28, 4), 4, 16) = 0
    BY SMT DEF Weight, Slice
  <2>6. Weight(Slice(w, 28, 4), 5, 32) = 0
    BY SMT DEF Weight, Slice
  <2>7. Weight(Slice(w, 28, 4), 6, 64) = 0
    BY SMT DEF Weight, Slice
  <2>8. Weight(Slice(w, 28, 4), 7, 128) = 0
    BY SMT DEF Weight, Slice
  <2>9. Weight(Slice(w, 28, 4), 8, 256) = 0
    BY SMT DEF Weight, Slice
  <2>10. Weight(Slice(w, 28, 4), 9, 512) = 0
    BY SMT DEF Weight, Slice
  <2>11. Weight(Slice(w, 28, 4), 10, 1024) = 0
    BY SMT DEF Weight, Slice
  <2>12. Weight(Slice(w, 28, 4), 11, 2048) = 0
    BY SMT DEF Weight, Slice
  <2>13. Weight(Slice(w, 28, 4), 12, 4096) = 0
    BY SMT DEF Weight, Slice
  <2>14. Weight(Slice(w, 28, 4), 13, 8192) = 0
    BY SMT DEF Weight, Slice
  <2>15. Weight(Slice(w, 28, 4), 14, 16384) = 0
    BY SMT DEF Weight, Slice
  <2>16. Weight(Slice(w, 28, 4), 15, 32768) = 0
    BY SMT DEF Weight, Slice
  <2> HIDE DEF b
  <2>17. \A i \in Nat : b(i) \in 0 .. 1
    BY SMT DEF b
  <2> QED
    BY NumberIs, <2>1, <2>2, <2>3, <2>4, <2>5, <2>6, <2>7, <2>8, <2>9, <2>10,
       <2>11, <2>12, <2>13, <2>14, <2>15, <2>16, <2>17, SMT DEF Read
<1>4. \A i \in Nat : b(i) \in 0 .. 1
  BY SMT
<1> HIDE DEF b
<1> QED
  BY <1>1, <1>2, <1>3, <1>4, SMT

(* The codes that are not written where the operation is read.            *)
LEMMA CodeBits ==
    /\ Sh(36, 24) = Sh(18, 25) /\ Sh(3, 28) = Sh(24, 25)
    /\ \A code \in 93 .. 95 : Sh(code, 23) \cap 25 .. 31 = Sh(23, 25)
<1>1. Bits(36) = {2, 5}
  <2>1. \A i \in 0 .. 16 : i = 0 \/ i = 1 \/ i = 2 \/ i = 3 \/ i = 4 \/ i = 5
                           \/ i = 6 \/ i = 7 \/ i = 8 \/ i = 9 \/ i = 10
                           \/ i = 11 \/ i = 12 \/ i = 13 \/ i = 14 \/ i = 15 \/ i = 16
    BY SMT
  <2>2. \A i \in Bits(36) : i \in 0 .. 16
    BY SMT DEF Bits
  <2>3. /\ 0 \notin Bits(36)
        /\ 1 \notin Bits(36)
        /\ 2 \in Bits(36)
        /\ 3 \notin Bits(36)
        /\ 4 \notin Bits(36)
        /\ 5 \in Bits(36)
        /\ 6 \notin Bits(36)
        /\ 7 \notin Bits(36)
        /\ 8 \notin Bits(36)
        /\ 9 \notin Bits(36)
        /\ 10 \notin Bits(36)
        /\ 11 \notin Bits(36)
        /\ 12 \notin Bits(36)
        /\ 13 \notin Bits(36)
        /\ 14 \notin Bits(36)
        /\ 15 \notin Bits(36)
        /\ 16 \notin Bits(36)
    BY SMT DEF Bits
  <2> QED
    BY <2>1, <2>2, <2>3, SMT
<1>2. Bits(18) = {1, 4}
  <2>1. \A i \in 0 .. 16 : i = 0 \/ i = 1 \/ i = 2 \/ i = 3 \/ i = 4 \/ i = 5
                           \/ i = 6 \/ i = 7 \/ i = 8 \/ i = 9 \/ i = 10
                           \/ i = 11 \/ i = 12 \/ i = 13 \/ i = 14 \/ i = 15 \/ i = 16
    BY SMT
  <2>2. \A i \in Bits(18) : i \in 0 .. 16
    BY SMT DEF Bits
  <2>3. /\ 0 \notin Bits(18)
        /\ 1 \in Bits(18)
        /\ 2 \notin Bits(18)
        /\ 3 \notin Bits(18)
        /\ 4 \in Bits(18)
        /\ 5 \notin Bits(18)
        /\ 6 \notin Bits(18)
        /\ 7 \notin Bits(18)
        /\ 8 \notin Bits(18)
        /\ 9 \notin Bits(18)
        /\ 10 \notin Bits(18)
        /\ 11 \notin Bits(18)
        /\ 12 \notin Bits(18)
        /\ 13 \notin Bits(18)
        /\ 14 \notin Bits(18)
        /\ 15 \notin Bits(18)
        /\ 16 \notin Bits(18)
    BY SMT DEF Bits
  <2> QED
    BY <2>1, <2>2, <2>3, SMT
<1>3. Bits(3) = {0, 1}
  <2>1. \A i \in 0 .. 16 : i = 0 \/ i = 1 \/ i = 2 \/ i = 3 \/ i = 4 \/ i = 5
                           \/ i = 6 \/ i = 7 \/ i = 8 \/ i = 9 \/ i = 10
                           \/ i = 11 \/ i = 12 \/ i = 13 \/ i = 14 \/ i = 15 \/ i = 16
    BY SMT
  <2>2. \A i \in Bits(3) : i \in 0 .. 16
    BY SMT DEF Bits
  <2>3. /\ 0 \in Bits(3)
        /\ 1 \in Bits(3)
        /\ 2 \notin Bits(3)
        /\ 3 \notin Bits(3)
        /\ 4 \notin Bits(3)
        /\ 5 \notin Bits(3)
        /\ 6 \notin Bits(3)
        /\ 7 \notin Bits(3)
        /\ 8 \notin Bits(3)
        /\ 9 \notin Bits(3)
        /\ 10 \notin Bits(3)
        /\ 11 \notin Bits(3)
        /\ 12 \notin Bits(3)
        /\ 13 \notin Bits(3)
        /\ 14 \notin Bits(3)
        /\ 15 \notin Bits(3)
        /\ 16 \notin Bits(3)
    BY SMT DEF Bits
  <2> QED
    BY <2>1, <2>2, <2>3, SMT
<1>4. Bits(24) = {3, 4}
  <2>1. \A i \in 0 .. 16 : i = 0 \/ i = 1 \/ i = 2 \/ i = 3 \/ i = 4 \/ i = 5
                           \/ i = 6 \/ i = 7 \/ i = 8 \/ i = 9 \/ i = 10
                           \/ i = 11 \/ i = 12 \/ i = 13 \/ i = 14 \/ i = 15 \/ i = 16
    BY SMT
  <2>2. \A i \in Bits(24) : i \in 0 .. 16
    BY SMT DEF Bits
  <2>3. /\ 0 \notin Bits(24)
        /\ 1 \notin Bits(24)
        /\ 2 \notin Bits(24)
        /\ 3 \in Bits(24)
        /\ 4 \in Bits(24)
        /\ 5 \notin Bits(24)
        /\ 6 \notin Bits(24)
        /\ 7 \notin Bits(24)
        /\ 8 \notin Bits(24)
        /\ 9 \notin Bits(24)
        /\ 10 \notin Bits(24)
        /\ 11 \notin Bits(24)
        /\ 12 \notin Bits(24)
        /\ 13 \notin Bits(24)
        /\ 14 \notin Bits(24)
        /\ 15 \notin Bits(24)
        /\ 16 \notin Bits(24)
    BY SMT DEF Bits
  <2> QED
    BY <2>1, <2>2, <2>3, SMT
<1>5. Bits(93) = {0, 2, 3, 4, 6}
  <2>1. \A i \in 0 .. 16 : i = 0 \/ i = 1 \/ i = 2 \/ i = 3 \/ i = 4 \/ i = 5
                           \/ i = 6 \/ i = 7 \/ i = 8 \/ i = 9 \/ i = 10
                           \/ i = 11 \/ i = 12 \/ i = 13 \/ i = 14 \/ i = 15 \/ i = 16
    BY SMT
  <2>2. \A i \in Bits(93) : i \in 0 .. 16
    BY SMT DEF Bits
  <2>3. /\ 0 \in Bits(93)
        /\ 1 \notin Bits(93)
        /\ 2 \in Bits(93)
        /\ 3 \in Bits(93)
        /\ 4 \in Bits(93)
        /\ 5 \notin Bits(93)
        /\ 6 \in Bits(93)
        /\ 7 \notin Bits(93)
        /\ 8 \notin Bits(93)
        /\ 9 \notin Bits(93)
        /\ 10 \notin Bits(93)
        /\ 11 \notin Bits(93)
        /\ 12 \notin Bits(93)
        /\ 13 \notin Bits(93)
        /\ 14 \notin Bits(93)
        /\ 15 \notin Bits(93)
        /\ 16 \notin Bits(93)
    BY SMT DEF Bits
  <2> QED
    BY <2>1, <2>2, <2>3, SMT
<1>6. Bits(94) = {1, 2, 3, 4, 6}
  <2>1. \A i \in 0 .. 16 : i = 0 \/ i = 1 \/ i = 2 \/ i = 3 \/ i = 4 \/ i = 5
                           \/ i = 6 \/ i = 7 \/ i = 8 \/ i = 9 \/ i = 10
                           \/ i = 11 \/ i = 12 \/ i = 13 \/ i = 14 \/ i = 15 \/ i = 16
    BY SMT
  <2>2. \A i \in Bits(94) : i \in 0 .. 16
    BY SMT DEF Bits
  <2>3. /\ 0 \notin Bits(94)
        /\ 1 \in Bits(94)
        /\ 2 \in Bits(94)
        /\ 3 \in Bits(94)
        /\ 4 \in Bits(94)
        /\ 5 \notin Bits(94)
        /\ 6 \in Bits(94)
        /\ 7 \notin Bits(94)
        /\ 8 \notin Bits(94)
        /\ 9 \notin Bits(94)
        /\ 10 \notin Bits(94)
        /\ 11 \notin Bits(94)
        /\ 12 \notin Bits(94)
        /\ 13 \notin Bits(94)
        /\ 14 \notin Bits(94)
        /\ 15 \notin Bits(94)
        /\ 16 \notin Bits(94)
    BY SMT DEF Bits
  <2> QED
    BY <2>1, <2>2, <2>3, SMT
<1>7. Bits(95) = {0, 1, 2, 3, 4, 6}
  <2>1. \A i \in 0 .. 16 : i = 0 \/ i = 1 \/ i = 2 \/ i = 3 \/ i = 4 \/ i = 5
                           \/ i = 6 \/ i = 7 \/ i = 8 \/ i = 9 \/ i = 10
                           \/ i = 11 \/ i = 12 \/ i = 13 \/ i = 14 \/ i = 15 \/ i = 16
    BY SMT
  <2>2. \A i \in Bits(95) : i \in 0 .. 16
    BY SMT DEF Bits
  <2>3. /\ 0 \in Bits(95)
        /\ 1 \in Bits(95)
        /\ 2 \in Bits(95)
        /\ 3 \in Bits(95)
        /\ 4 \in Bits(95)
        /\ 5 \notin Bits(95)
        /\ 6 \in Bits(95)
        /\ 7 \notin Bits(95)
        /\ 8 \notin Bits(95)
        /\ 9 \notin Bits(95)
        /\ 10 \notin Bits(95)
        /\ 11 \notin Bits(95)
        /\ 12 \notin Bits(95)
        /\ 13 \notin Bits(95)
        /\ 14 \notin Bits(95)
        /\ 15 \notin Bits(95)
        /\ 16 \notin Bits(95)
    BY SMT DEF Bits
  <2> QED
    BY <2>1, <2>2, <2>3, SMT
<1>8. Bits(23) = {0, 1, 2, 4}
  <2>1. \A i \in 0 .. 16 : i = 0 \/ i = 1 \/ i = 2 \/ i = 3 \/ i = 4 \/ i = 5
                           \/ i = 6 \/ i = 7 \/ i = 8 \/ i = 9 \/ i = 10
                           \/ i = 11 \/ i = 12 \/ i = 13 \/ i = 14 \/ i = 15 \/ i = 16
    BY SMT
  <2>2. \A i \in Bits(23) : i \in 0 .. 16
    BY SMT DEF Bits
  <2>3. /\ 0 \in Bits(23)
        /\ 1 \in Bits(23)
        /\ 2 \in Bits(23)
        /\ 3 \notin Bits(23)
        /\ 4 \in Bits(23)
        /\ 5 \notin Bits(23)
        /\ 6 \notin Bits(23)
        /\ 7 \notin Bits(23)
        /\ 8 \notin Bits(23)
        /\ 9 \notin Bits(23)
        /\ 10 \notin Bits(23)
        /\ 11 \notin Bits(23)
        /\ 12 \notin Bits(23)
        /\ 13 \notin Bits(23)
        /\ 14 \notin Bits(23)
        /\ 15 \notin Bits(23)
        /\ 16 \notin Bits(23)
    BY SMT DEF Bits
  <2> QED
    BY <2>1, <2>2, <2>3, SMT
<1>9. Sh(36, 24) = Sh(18, 25) /\ Sh(3, 28) = Sh(24, 25)
  BY <1>1, <1>2, <1>3, <1>4, SMT DEF Sh
<1>10. Sh(93, 23) \cap 25 .. 31 = Sh(23, 25)
  BY <1>5, <1>8, SMT DEF Sh
<1>11. Sh(94, 23) \cap 25 .. 31 = Sh(23, 25)
  BY <1>6, <1>8, SMT DEF Sh
<1>12. Sh(95, 23) \cap 25 .. 31 = Sh(23, 25)
  BY <1>7, <1>8, SMT DEF Sh
<1> QED
  BY <1>9, <1>10, <1>11, <1>12, SMT


(* What the core reads in each slot.                                       *)
LEMMA SlotIs ==
    ASSUME NEW w
    PROVE  /\ Slot(w, "d") = <<Read(w, 0, 5), Read(w, 5, 3)>>
           /\ Slot(w, "x") = <<Read(w, 8, 5), Read(w, 13, 3)>>
           /\ Slot(w, "y") = IF 24 \in w THEN <<Read(w, 16, 8)>>
                             ELSE <<Read(w, 16, 5), Read(w, 21, 3)>>
           /\ Slot(w, "n") = IF 24 \in w THEN <<Read(w, 16, 8) + 1>> ELSE Slot(w, "y")
           /\ Slot(w, "loop") = <<opOffset + Read(w, 0, 8)>>
           /\ Slot(w, "file") = <<4 * Read(w, 0, 5) + Read(w, 5, 2)>>
           /\ Slot(w, "base") = <<Read(w, 8, 5)>>
           /\ Slot(w, "device") = <<Read(w, 15, 8)>>
           /\ Slot(w, "value") = <<Read(w, 8, 16)>>
           /\ Slot(w, "c") = <<Read(w, 8, 8)>>
           /\ Slot(w, "to") = IF 24 \in w THEN <<Read(w, 8, 16)>> ELSE Slot(w, "y")
           /\ Slot(w, "off")
                = LET off == Read(w, 0, 8) + 256 * Read(w, 25, 2)
                  IN  <<opOffset + IF off < 512 THEN off ELSE off - 1024>>
           /\ Slot(w, "xcount")
                = LET n == Read(w, 7, 7)
                  IN  IF n < 124 THEN <<n + 1>> ELSE <<"r0", n - 124>>
           /\ Slot(w, "count")
                = LET n == 16 * Read(w, 25, 3) + 2 * Read(w, 13, 3) + Read(w, 7, 1)
                  IN  IF n < 124 THEN <<n + 1>> ELSE <<"r0", n - 124>>
BY DEF Slot

(* The arguments that the getters build, and what a word says of them.     *)
IsReg(a) == a.Value \in 0 .. 31 /\ a.Field \in 0 .. 7
IsOp(a) == IF a.Type = "reg" THEN IsReg(a) ELSE a.Value \in 0 .. 255
Named(a) == IF a.Type = "reg" THEN <<a.Value, a.Field>> ELSE <<a.Value>>

LEMMA RegRead ==
    ASSUME NEW a, IsReg(a), NEW at \in Nat, at <= 24
    PROVE  /\ RegBits(a, at) \subseteq at .. at + 7
           /\ \A w : w \cap at .. at + 7 = RegBits(a, at)
                => Read(w, at, 5) = a.Value /\ Read(w, at + 5, 3) = a.Field
<1>1. Fits(a.Value, 5) /\ Fits(a.Field, 3)
  BY NumbersFit, SMT DEF IsReg
<1> DEFINE v == Sh(a.Value, at)
           f == Sh(a.Field, at + 5)
<1>2. v \subseteq at .. at + 4 /\ f \subseteq at + 5 .. at + 7
  BY <1>1, ShIn, SMT
<1>3. ASSUME NEW w, w \cap at .. at + 7 = v \cup f
      PROVE  w \cap at .. at + 4 = v /\ w \cap at + 5 .. at + 7 = f
  <2> HIDE DEF v, f
  <2> QED
    BY <1>2, <1>3, SMT
<1>4. ASSUME NEW w, w \cap at .. at + 7 = v \cup f
      PROVE  Read(w, at, 5) = a.Value /\ Read(w, at + 5, 3) = a.Field
  <2>1. w \cap at .. at + 5 - 1 = v /\ w \cap at + 5 .. at + 5 + 3 - 1 = f
    BY <1>3, <1>4, SMT
  <2>2. Read(w, at, 5) = a.Value
    BY <1>1, <2>1, ReadIs, SMT
  <2>3. Read(w, at + 5, 3) = a.Field
    BY <1>1, <2>1, ReadIs, SMT
  <2> QED
    BY <2>2, <2>3
<1>5. RegBits(a, at) = v \cup f
  BY DEF RegBits
<1>6. v \cup f \subseteq at .. at + 7
  <2> HIDE DEF v, f
  <2> QED
    BY <1>2, SMT
<1> QED
  BY <1>4, <1>5, <1>6

LEMMA OpRead ==
    ASSUME NEW a, IsOp(a)
    PROVE  /\ OpBits(a) \subseteq 16 .. 24
           /\ \A w : w \cap 16 .. 24 = OpBits(a)
                => /\ 24 \in w <=> a.Type # "reg"
                   /\ a.Type # "reg" => Read(w, 16, 8) = a.Value
                   /\ Slot(w, "y") = Named(a)
<1>1. CASE a.Type = "reg"
  <2>1. IsReg(a) /\ OpBits(a) = RegBits(a, 16)
    BY <1>1 DEF IsOp, OpBits
  <2>2. RegBits(a, 16) \subseteq 16 .. 23
    BY <2>1, RegRead, SMT
  <2>3. ASSUME NEW w, w \cap 16 .. 24 = RegBits(a, 16)
        PROVE  24 \notin w /\ Slot(w, "y") = Named(a)
    <3>1. 24 \notin w /\ w \cap 16 .. 16 + 7 = RegBits(a, 16)
      BY <2>2, <2>3, SMT
    <3>2. Read(w, 16, 5) = a.Value /\ Read(w, 21, 3) = a.Field
      BY <2>1, <3>1, RegRead, SMT
    <3> QED
      BY <1>1, <3>1, <3>2, SlotIs DEF Named
  <2> QED
    BY <1>1, <2>1, <2>2, <2>3, SMT
<1>2. CASE a.Type # "reg"
  <2> DEFINE v == Sh(a.Value, 16)
  <2>1. Fits(a.Value, 8) /\ OpBits(a) = v \cup {24}
    BY <1>2, NumbersFit, SMT DEF IsOp, OpBits, Bit
  <2>2. v \subseteq 16 .. 23
    BY <2>1, ShIn, SMT
  <2>3. ASSUME NEW w, w \cap 16 .. 24 = v \cup {24}
        PROVE  24 \in w /\ Read(w, 16, 8) = a.Value
    <3>1. 24 \in w /\ w \cap 16 .. 16 + 8 - 1 = v
      <4> HIDE DEF v
      <4> QED
        BY <2>2, <2>3, SMT
    <3> QED
      BY <2>1, <3>1, ReadIs, SMT
  <2>4. ASSUME NEW w, w \cap 16 .. 24 = v \cup {24} PROVE Slot(w, "y") = Named(a)
    BY <1>2, <2>3, <2>4, SlotIs DEF Named
  <2>5. v \cup {24} \subseteq 16 .. 24
    <3> HIDE DEF v
    <3> QED
      BY <2>2, SMT
  <2> QED
    BY <1>2, <2>1, <2>3, <2>4, <2>5
<1> QED
  BY <1>1, <1>2

(* What the core takes a word for, by the bits where the operation is.     *)
LEMMA OperationIs ==
    ASSUME NEW w, NEW t, t = Read(w, 25, 7)
    PROVE  /\ t \in 0 .. 15 \cup {19, 20} \/ (t \in 80 .. 95 /\ opCore # 0)
                => Operation(w) = {op \in DOMAIN AluCode : AluCode[op] = t}
           /\ t = 16 => Operation(w) = {"JMP", "RET"}
           /\ t = 17 => Operation(w) = {"JAL", "CALL"}
           /\ t = 18 => Operation(w) = {"LDI"}
           /\ t = 21 => Operation(w) = {"HALT"}
           /\ t = 22 => Operation(w) = {<<"MVIB", "MVIW", "MVID">>[1 + Read(w, 16, 2)]}
           /\ t = 23 => Operation(w)
                = IF Read(w, 15, 8) >= 254 THEN {"FILL", "ZERO"}
                  ELSE {op \in DOMAIN XfrCode : XfrCode[op] = Read(w, 23, 7)
                          /\ (14 \in w) = (op \in {"SXIN", "SXOUT", "SXCHG"})}
           /\ t = 24 => Operation(w) = {IF 15 \in w THEN "ILOOP" ELSE "LOOP"}
           /\ t = 31 => Operation(w) = {"SLP"}
           /\ t \div 4 \in 9 .. 15 \cup {25, 26}
                => Operation(w) = {op \in DOMAIN QbCode : QbCode[op] = t \div 4}
           /\ t \div 8 \in {8, 9, 14, 15}
                => Operation(w) = {op \in DOMAIN BurstCode : BurstCode[op] = t \div 8}
           /\ opCore = 0 /\ t \div 8 \in {10, 11}
                => Operation(w) = {IF t \div 8 = 10 THEN "STC" ELSE "LFC"}
<1>1. t \in 0 .. 127 /\ Read(w, 27, 5) = t \div 4 /\ Read(w, 28, 4) = t \div 8
  BY TopIs
<1> DEFINE alu == {op \in DOMAIN AluCode : AluCode[op] = t}
           qb == {op \in DOMAIN QbCode : QbCode[op] = t \div 4}
           burst == {op \in DOMAIN BurstCode : BurstCode[op] = t \div 8}
           mvi == {<<"MVIB", "MVIW", "MVID">>[1 + Read(w, 16, 2)]}
           xfr == IF Read(w, 15, 8) >= 254 THEN {"FILL", "ZERO"}
                  ELSE {op \in DOMAIN XfrCode : XfrCode[op] = Read(w, 23, 7)
                          /\ (14 \in w) = (op \in {"SXIN", "SXOUT", "SXCHG"})}
           loop == {IF 15 \in w THEN "ILOOP" ELSE "LOOP"}
<1>2. Operation(w)
        = CASE t \in 0 .. 15 \cup {19, 20} -> alu
            [] t \in {16, 17} -> IF t = 16 THEN {"JMP", "RET"} ELSE {"JAL", "CALL"}
            [] t = 18 -> {"LDI"}
            [] t = 21 -> {"HALT"}
            [] t = 22 -> mvi
            [] t = 23 -> xfr
            [] t = 24 -> loop
            [] t = 31 -> {"SLP"}
            [] t \div 4 \in 9 .. 15 \cup {25, 26} -> qb
            [] t \div 8 \in {8, 9, 14, 15} -> burst
            [] opCore = 0 /\ t \div 8 \in {10, 11} ->
                  {IF t \div 8 = 10 THEN "STC" ELSE "LFC"}
            [] OTHER -> alu
  <2> HIDE DEF mvi, xfr, loop
  <2> QED
    BY <1>1, Zenon DEF Operation, mvi, xfr, loop
<1> HIDE DEF alu, qb, burst, mvi, xfr, loop
<1>3. /\ t \in 0 .. 15 \cup {19, 20} => Operation(w) = alu
      /\ t \in 80 .. 95 /\ opCore # 0 => Operation(w) = alu
  BY <1>1, <1>2, SMT
<1>4. /\ t = 16 => Operation(w) = {"JMP", "RET"}
      /\ t = 17 => Operation(w) = {"JAL", "CALL"}
      /\ t = 18 => Operation(w) = {"LDI"}
      /\ t = 21 => Operation(w) = {"HALT"}
  BY <1>1, <1>2, SMT
<1>5. /\ t = 22 => Operation(w) = mvi
      /\ t = 23 => Operation(w) = xfr
      /\ t = 24 => Operation(w) = loop
      /\ t = 31 => Operation(w) = {"SLP"}
  BY <1>1, <1>2, SMT
<1>6. t \div 4 \in 9 .. 15 \cup {25, 26} => Operation(w) = qb
  BY <1>1, <1>2, SMT
<1>7. t \div 8 \in {8, 9, 14, 15} => Operation(w) = burst
  BY <1>1, <1>2, SMT
<1>8. opCore = 0 /\ t \div 8 \in {10, 11}
        => Operation(w) = {IF t \div 8 = 10 THEN "STC" ELSE "LFC"}
  BY <1>1, <1>2, SMT
<1> QED
  BY <1>3, <1>4, <1>5, <1>6, <1>7, <1>8, Zenon DEF alu, qb, burst, mvi, xfr, loop

LEMMA CodesAre ==
    /\ DOMAIN AluCode = BitOps \cup AluOps \cup {"SCAN"}
    /\ DOMAIN QbCode = BranchOps \cup BitTestOps
    /\ DOMAIN BurstCode = BurstOps /\ DOMAIN XfrCode = XfrOps
    /\ \A op \in DOMAIN AluCode :
          /\ AluCode[op] \in 0 .. 15 \cup {19, 20} \cup 80 .. 95
          /\ AluCode[op] \in 80 .. 95 => op \in NopOps
    /\ \A op \in DOMAIN QbCode : QbCode[op] \in 9 .. 15 \cup {25, 26}
    /\ \A op \in DOMAIN BurstCode : BurstCode[op] \in {8, 9, 14, 15}
    /\ \A op \in DOMAIN XfrCode : XfrCode[op] \in 93 .. 95
<1>1. DOMAIN AluCode = BitOps \cup AluOps \cup {"SCAN"}
  BY DEF AluCode, BitOps, AluOps, NopOps
<1>2. /\ DOMAIN QbCode = BranchOps \cup BitTestOps
      /\ DOMAIN BurstCode = BurstOps /\ DOMAIN XfrCode = XfrOps
  BY DEF QbCode, BurstCode, XfrCode, BranchOps, BitTestOps, BurstOps, XfrOps
<1>3. \A op \in DOMAIN AluCode :
          /\ AluCode[op] \in 0 .. 15 \cup {19, 20} \cup 80 .. 95
          /\ AluCode[op] \in 80 .. 95 => op \in NopOps
  BY SMT DEF AluCode, NopOps
<1>4. /\ \A op \in DOMAIN QbCode : QbCode[op] \in 9 .. 15 \cup {25, 26}
      /\ \A op \in DOMAIN BurstCode : BurstCode[op] \in {8, 9, 14, 15}
      /\ \A op \in DOMAIN XfrCode : XfrCode[op] \in 93 .. 95
  BY SMT DEF QbCode, BurstCode, XfrCode
<1> QED
  BY <1>1, <1>2, <1>3, <1>4

(* A register in one of the two first slots.                               *)
LEMMA SlotRead ==
    ASSUME NEW a, IsReg(a)
    PROVE  /\ RegBits(a, 0) \subseteq 0 .. 7 /\ RegBits(a, 8) \subseteq 8 .. 15
           /\ \A w : w \cap 0 .. 7 = RegBits(a, 0)
                => Slot(w, "d") = <<a.Value, a.Field>>
           /\ \A w : w \cap 8 .. 15 = RegBits(a, 8)
                => Slot(w, "x") = <<a.Value, a.Field>>
<1>1. 0 + 7 = 7 /\ 0 + 5 = 5 /\ 8 + 7 = 15 /\ 8 + 5 = 13
  BY SMT
<1>2. RegBits(a, 0) \subseteq 0 .. 7 /\ RegBits(a, 8) \subseteq 8 .. 15
  <2>1. RegBits(a, 0) \subseteq 0 .. 0 + 7 /\ RegBits(a, 8) \subseteq 8 .. 8 + 7
    BY RegRead, SMT
  <2> QED
    BY <1>1, <2>1
<1>3. ASSUME NEW w, w \cap 0 .. 7 = RegBits(a, 0)
      PROVE  Slot(w, "d") = <<a.Value, a.Field>>
  <2>1. w \cap 0 .. 0 + 7 = RegBits(a, 0)
    BY <1>1, <1>3
  <2>2. Read(w, 0, 5) = a.Value /\ Read(w, 0 + 5, 3) = a.Field
    BY <2>1, RegRead, SMT
  <2> QED
    BY <1>1, <2>2, SlotIs
<1>4. ASSUME NEW w, w \cap 8 .. 15 = RegBits(a, 8)
      PROVE  Slot(w, "x") = <<a.Value, a.Field>>
  <2>1. w \cap 8 .. 8 + 7 = RegBits(a, 8)
    BY <1>1, <1>4
  <2>2. Read(w, 8, 5) = a.Value /\ Read(w, 8 + 5, 3) = a.Field
    BY <2>1, RegRead, SMT
  <2> QED
    BY <1>1, <2>2, SlotIs
<1> QED
  BY <1>2, <1>3, <1>4

(* The operation, where the word has it as one code.                       *)
LEMMA TopRead ==
    ASSUME NEW c \in 0 .. 127
    PROVE  /\ Sh(c, 25) \subseteq 25 .. 31
           /\ \A w : w \cap 25 .. 31 = Sh(c, 25) => Read(w, 25, 7) = c
<1>1. Fits(c, 7)
  BY NumbersFit, SMT
<1>2. 25 + 7 - 1 = 31
  BY SMT
<1>3. Sh(c, 25) \subseteq 25 .. 25 + 7 - 1
  BY <1>1, ShIn, SMT
<1>4. ASSUME NEW w, w \cap 25 .. 31 = Sh(c, 25) PROVE Read(w, 25, 7) = c
  <2>1. w \cap 25 .. 25 + 7 - 1 = Sh(c, 25)
    BY <1>2, <1>4
  <2> QED
    BY <1>1, <2>1, ReadIs, SMT
<1> QED
  BY <1>2, <1>3, <1>4

(* Four pieces that lie next to each other.                                *)
Pieces(w, C, D, X, Y) ==
    /\ w = C \cup D \cup X \cup Y
    /\ D \subseteq 0 .. 7 /\ X \subseteq 8 .. 15 /\ Y \subseteq 16 .. 24
    /\ C \subseteq 25 .. 31

LEMMA FourPieces ==
    ASSUME NEW w, NEW C, NEW D, NEW X, NEW Y, Pieces(w, C, D, X, Y)
    PROVE  /\ w \cap 0 .. 7 = D /\ w \cap 8 .. 15 = X
           /\ w \cap 16 .. 24 = Y /\ w \cap 25 .. 31 = C
<1>1. /\ \A i \in D : i \in 0 .. 7
      /\ \A i \in X : i \in 8 .. 15
      /\ \A i \in Y : i \in 16 .. 24
      /\ \A i \in C : i \in 25 .. 31
  BY DEF Pieces
<1>2. /\ \A i \in 0 .. 7 : i \notin 8 .. 15 /\ i \notin 16 .. 24 /\ i \notin 25 .. 31
      /\ \A i \in 8 .. 15 : i \notin 16 .. 24 /\ i \notin 25 .. 31
      /\ \A i \in 16 .. 24 : i \notin 25 .. 31
  BY SMT
<1>3. \A i : i \in w <=> i \in C \/ i \in D \/ i \in X \/ i \in Y
  BY DEF Pieces
<1>4. w \cap 0 .. 7 = D
  BY <1>1, <1>2, <1>3, Zenon
<1>5. w \cap 8 .. 15 = X
  BY <1>1, <1>2, <1>3, Zenon
<1>6. w \cap 16 .. 24 = Y
  BY <1>1, <1>2, <1>3, Zenon
<1>7. w \cap 25 .. 31 = C
  BY <1>1, <1>2, <1>3, Zenon
<1> QED
  BY <1>4, <1>5, <1>6, <1>7

(* A word of the arithmetic and logic.                                     *)
LEMMA ArithmeticSays ==
    ASSUME NEW op \in DOMAIN AluCode, op \in NopOps => opCore # 0,
           NEW d, IsReg(d), NEW x, IsReg(x), NEW y, IsOp(y),
           NEW w, w = Arithmetic(op, d, x, y)
    PROVE  /\ op \in Operation(w)
           /\ Slot(w, "d") = <<d.Value, d.Field>>
           /\ Slot(w, "x") = <<x.Value, x.Field>>
           /\ Slot(w, "y") = Named(y)
<1> DEFINE c == AluCode[op]
           C == Sh(c, 25)
           D == RegBits(d, 0)
           X == RegBits(x, 8)
           Y == OpBits(y)
<1>1. c \in 0 .. 15 \cup {19, 20} \cup 80 .. 95 /\ (c \in 80 .. 95 => opCore # 0)
  BY CodesAre
<1>2. c \in 0 .. 127
  <2> HIDE DEF c
  <2> QED
    BY <1>1, SMT
<1>3. C \subseteq 25 .. 31 /\ D \subseteq 0 .. 7 /\ X \subseteq 8 .. 15
      /\ Y \subseteq 16 .. 24
  BY <1>2, TopRead, SlotRead, OpRead
<1>4. w = C \cup D \cup X \cup Y
  BY DEF Arithmetic
<1>5. /\ w \cap 0 .. 7 = D /\ w \cap 8 .. 15 = X
      /\ w \cap 16 .. 24 = Y /\ w \cap 25 .. 31 = C
  <2> HIDE DEF C, D, X, Y
  <2>1. Pieces(w, C, D, X, Y)
    BY <1>3, <1>4 DEF Pieces
  <2> QED
    BY <2>1, FourPieces
<1>6. Read(w, 25, 7) = c
  BY <1>2, <1>5, TopRead
<1>7. op \in Operation(w)
  <2>1. Operation(w) = {o \in DOMAIN AluCode : AluCode[o] = c}
    <3> HIDE DEF c
    <3> QED
      BY <1>1, <1>6, OperationIs, SMT
  <2> QED
    BY <2>1
<1> QED
  BY <1>5, <1>7, SlotRead, OpRead

(* A number within a word: it is all that the word has in its field.       *)
In(A, lo, hi) == \A i \in A : i \in Int /\ lo <= i /\ i <= hi

LEMMA PieceRead ==
    ASSUME NEW from \in Nat, NEW n \in Nat, from + n <= 32, NEW v, Fits(v, n)
    PROVE  /\ In(Sh(v, from), from, from + n - 1)
           /\ \A w : (\A i \in from .. from + n - 1 : i \in w <=> i \in Sh(v, from))
                     => Read(w, from, n) = v
<1>1. Sh(v, from) \subseteq from .. from + n - 1
  BY ShIn
<1>2. In(Sh(v, from), from, from + n - 1)
  BY <1>1, SMT DEF In
<1>3. ASSUME NEW w, \A i \in from .. from + n - 1 : i \in w <=> i \in Sh(v, from)
      PROVE  Read(w, from, n) = v
  <2>1. w \cap from .. from + n - 1 = Sh(v, from)
    BY <1>1, <1>3
  <2> QED
    BY <2>1, ReadIs, SMT
<1> QED
  BY <1>2, <1>3

(* The field of n bits of a word, from a bit on, holds a number.           *)
Holds(w, from, n, v) ==
    Fits(v, n) /\ \A i \in from .. from + n - 1 : i \in w <=> i \in Sh(v, from)

LEMMA HeldRead ==
    ASSUME NEW w, NEW from \in Nat, NEW n \in Nat, from + n <= 32, NEW v,
           Holds(w, from, n, v)
    PROVE  Read(w, from, n) = v
BY PieceRead DEF Holds

(* The byte of the register file where a burst or a transfer begins.       *)
IsFile(a) == IF a.Type = "imm" THEN a.Value \in 0 .. 127 ELSE IsReg(a)
ByteOf(a) == IF a.Type = "imm" THEN a.Value ELSE 4 * a.Value + FirstByte(a.Field)

LEMMA FirstByteIs ==
    ASSUME opBig \in BOOLEAN, NEW f \in 0 .. 7
    PROVE  FirstByte(f) \in 0 .. 3
<1>1. f = 0 \/ f = 1 \/ f = 2 \/ f = 3 \/ f = 4 \/ f = 5 \/ f = 6 \/ f = 7
  BY SMT
<1> QED
  BY <1>1, SMT DEF FirstByte, FieldWidth

LEMMA FileRead ==
    ASSUME opBig \in BOOLEAN, NEW a, IsFile(a)
    PROVE  /\ In(FileByte(a), 0, 6)
           /\ \A w : (\A i \in 0 .. 6 : i \in w <=> i \in FileByte(a))
                     => Slot(w, "file") = <<ByteOf(a)>>
<1> DEFINE v == IF a.Type = "imm" THEN a.Value \div 4 ELSE a.Value
           f == IF a.Type = "imm" THEN a.Value % 4 ELSE FirstByte(a.Field)
           V == Sh(v, 0)
           G == Sh(f, 5)
<1>1. v \in 0 .. 31 /\ f \in 0 .. 3 /\ ByteOf(a) = 4 * v + f
  <2>1. CASE a.Type = "imm"
    BY <2>1, SMT DEF IsFile, ByteOf
  <2>2. CASE a.Type # "imm"
    BY <2>2, FirstByteIs, SMT DEF IsFile, IsReg, ByteOf
  <2> QED
    BY <2>1, <2>2
<1>2. FileByte(a) = V \cup G
  BY DEF FileByte
<1> HIDE DEF v, f
<1>3. Fits(v, 5) /\ Fits(f, 2)
  BY <1>1, NumbersFit, SMT
<1>4. In(V, 0, 4) /\ In(G, 5, 6)
  <2>1. In(V, 0, 0 + 5 - 1) /\ In(G, 5, 5 + 2 - 1)
    BY <1>3, PieceRead, SMT
  <2> QED
    BY <2>1, SMT DEF In
<1> HIDE DEF V, G
<1>5. In(V \cup G, 0, 6)
  BY <1>4, SMT DEF In
<1>6. ASSUME NEW w, \A i \in 0 .. 6 : i \in w <=> i \in V \cup G
      PROVE  Read(w, 0, 5) = v /\ Read(w, 5, 2) = f
  <2>1. \A i \in 0 .. 0 + 5 - 1 : i \in w <=> i \in V
    BY <1>4, <1>6, SMT DEF In
  <2>2. \A i \in 5 .. 5 + 2 - 1 : i \in w <=> i \in G
    BY <1>4, <1>6, SMT DEF In
  <2> QED
    BY <1>3, <2>1, <2>2, PieceRead, SMT DEF V, G
<1> QED
  BY <1>1, <1>2, <1>5, <1>6, SlotIs, SMT

(* How many bytes a burst moves.                                           *)
CountOf(n) == IF n < 124 THEN <<n + 1>> ELSE <<"r0", n - 124>>


XfrTold(op, device, d, count, w) ==
    /\ device < 254 => op \in Operation(w)
    /\ device >= 254 => Operation(w) = {"FILL", "ZERO"}
    /\ Slot(w, "device") = <<device>> /\ Slot(w, "file") = <<ByteOf(d)>>
    /\ Slot(w, "xcount") = CountOf(count)

(* A word of a transfer.                                                   *)
LEMMA XfrSays ==
    ASSUME opBig \in BOOLEAN, NEW op \in XfrOps, NEW device \in 0 .. 255,
           NEW d, IsFile(d), NEW count \in 0 .. 127,
           NEW w, w = Xfr(op, device, d, count)
    PROVE  XfrTold(op, device, d, count, w)
<1> DEFINE c == XfrCode[op]
           C == Sh(c, 23)
           S == IF op \in {"SXIN", "SXOUT", "SXCHG"} THEN Bit(14) ELSE {}
           D == FileByte(d)
           V == Sh(device, 15)
           N == Sh(count, 7)
<1>1. c \in 93 .. 95
  BY CodesAre
<1> HIDE DEF c
<1>2. Fits(c, 7) /\ Fits(device, 8) /\ Fits(count, 7)
  BY <1>1, NumbersFit, SMT
<1>3. In(C, 23, 29) /\ In(V, 15, 22) /\ In(N, 7, 13) /\ In(D, 0, 6)
  <2>1. In(C, 23, 23 + 7 - 1) /\ In(V, 15, 15 + 8 - 1) /\ In(N, 7, 7 + 7 - 1)
    BY <1>2, PieceRead, SMT
  <2> QED
    BY <2>1, FileRead, SMT DEF In
<1>4. \A i : i \in S <=> i = 14 /\ op \in {"SXIN", "SXOUT", "SXCHG"}
  BY DEF Bit
<1>5. \A i : i \in w <=> i \in C \/ i \in S \/ i \in D \/ i \in V \/ i \in N
  BY DEF Xfr, c
<1>6. C \cap 25 .. 31 = Sh(23, 25)
  BY <1>1, CodeBits
<1> HIDE DEF C, S, D, V, N
<1>7. w \cap 25 .. 31 = Sh(23, 25)
  <2>1. \A i \in 25 .. 31 : i \in w <=> i \in C
    BY <1>3, <1>4, <1>5, SMT DEF In
  <2> QED
    BY <1>6, <2>1
<1>8. Read(w, 25, 7) = 23
  BY <1>7, TopRead, SMT
<1>9. Read(w, 23, 7) = c
  <2>1. Holds(w, 23, 7, c)
    BY <1>2, <1>3, <1>4, <1>5, SMT DEF In, Holds, C
  <2> QED
    BY <2>1, HeldRead, SMT
<1>10. Read(w, 15, 8) = device
  <2>1. Holds(w, 15, 8, device)
    BY <1>2, <1>3, <1>4, <1>5, SMT DEF In, Holds, V
  <2> QED
    BY <2>1, HeldRead, SMT
<1>11. Read(w, 7, 7) = count
  <2>1. Holds(w, 7, 7, count)
    BY <1>2, <1>3, <1>4, <1>5, SMT DEF In, Holds, N
  <2> QED
    BY <2>1, HeldRead, SMT
<1>12. Slot(w, "file") = <<ByteOf(d)>>
  <2>1. \A i \in 0 .. 6 : i \in w <=> i \in D
    BY <1>3, <1>4, <1>5, SMT DEF In
  <2> QED
    BY <2>1, FileRead DEF D
<1>13. 14 \in w <=> op \in {"SXIN", "SXOUT", "SXCHG"}
  BY <1>3, <1>4, <1>5, SMT DEF In
<1>14. /\ device >= 254 => Operation(w) = {"FILL", "ZERO"}
       /\ device < 254 =>
            Operation(w) = {o \in DOMAIN XfrCode : XfrCode[o] = c
                              /\ (14 \in w) = (o \in {"SXIN", "SXOUT", "SXCHG"})}
  <2>1. Operation(w)
          = IF Read(w, 15, 8) >= 254 THEN {"FILL", "ZERO"}
            ELSE {o \in DOMAIN XfrCode : XfrCode[o] = Read(w, 23, 7)
                    /\ (14 \in w) = (o \in {"SXIN", "SXOUT", "SXCHG"})}
    BY <1>8, OperationIs
  <2>2. device >= 254 <=> ~(device < 254)
    BY SMT
  <2> QED
    BY <1>9, <1>10, <2>1, <2>2
<1>15. device < 254 => op \in Operation(w)
  <2>1. op \in DOMAIN XfrCode
    BY CodesAre
  <2>2. XfrCode[op] = c
    BY DEF c
  <2>3. (14 \in w) = (op \in {"SXIN", "SXOUT", "SXCHG"})
    BY <1>13
  <2> QED
    BY <1>14, <2>1, <2>2, <2>3
<1>16. Slot(w, "xcount") = CountOf(count)
  BY <1>11, SlotIs DEF CountOf
<1> QED
  BY <1>10, <1>12, <1>14, <1>15, <1>16, SlotIs DEF XfrTold

(* The registers and the last operand of a word, by its bits.              *)
LEMMA RegHeld ==
    ASSUME NEW a, IsReg(a)
    PROVE  /\ In(RegBits(a, 0), 0, 7) /\ In(RegBits(a, 8), 8, 15)
           /\ \A w : (\A i \in 0 .. 7 : i \in w <=> i \in RegBits(a, 0))
                     => Slot(w, "d") = <<a.Value, a.Field>>
           /\ \A w : (\A i \in 8 .. 15 : i \in w <=> i \in RegBits(a, 8))
                     => Slot(w, "x") = <<a.Value, a.Field>>
<1>1. RegBits(a, 0) \subseteq 0 .. 7 /\ RegBits(a, 8) \subseteq 8 .. 15
  BY SlotRead
<1>2. In(RegBits(a, 0), 0, 7) /\ In(RegBits(a, 8), 8, 15)
  BY <1>1, SMT DEF In
<1>3. ASSUME NEW w, \A i \in 0 .. 7 : i \in w <=> i \in RegBits(a, 0)
      PROVE  w \cap 0 .. 7 = RegBits(a, 0)
  BY <1>1, <1>3
<1>4. ASSUME NEW w, \A i \in 8 .. 15 : i \in w <=> i \in RegBits(a, 8)
      PROVE  w \cap 8 .. 15 = RegBits(a, 8)
  BY <1>1, <1>4
<1> QED
  BY <1>2, <1>3, <1>4, SlotRead

LEMMA OpHeld ==
    ASSUME NEW a, IsOp(a)
    PROVE  /\ In(OpBits(a), 16, 24)
           /\ \A w : (\A i \in 16 .. 24 : i \in w <=> i \in OpBits(a))
                => /\ 24 \in w <=> a.Type # "reg"
                   /\ a.Type # "reg" => Read(w, 16, 8) = a.Value
                   /\ Slot(w, "y") = Named(a)
<1>1. OpBits(a) \subseteq 16 .. 24
  BY OpRead
<1>2. In(OpBits(a), 16, 24)
  BY <1>1, SMT DEF In
<1>3. ASSUME NEW w, \A i \in 16 .. 24 : i \in w <=> i \in OpBits(a)
      PROVE  w \cap 16 .. 24 = OpBits(a)
  BY <1>1, <1>3
<1> QED
  BY <1>2, <1>3, OpRead

LEMMA TopHeld ==
    ASSUME NEW c \in 0 .. 127
    PROVE  /\ In(Sh(c, 25), 25, 31)
           /\ \A w : (\A i \in 25 .. 31 : i \in w <=> i \in Sh(c, 25))
                     => Read(w, 25, 7) = c
<1>1. Sh(c, 25) \subseteq 25 .. 31
  BY TopRead
<1>2. In(Sh(c, 25), 25, 31)
  BY <1>1, SMT DEF In
<1>3. ASSUME NEW w, \A i \in 25 .. 31 : i \in w <=> i \in Sh(c, 25)
      PROVE  w \cap 25 .. 31 = Sh(c, 25)
  BY <1>1, <1>3
<1> QED
  BY <1>2, <1>3, TopRead

(* The word of a burst.                                                    *)
BurstWord(op, d, b, y, n) ==
    Sh(BurstCode[op], 28) \cup FileByte(d) \cup Sh(b, 8) \cup OpBits(y)
    \cup Sh(n \div 16, 25) \cup Sh((n \div 2) % 8, 13) \cup Sh(n % 2, 7)

(* A word of a burst.                                                      *)
BurstTold(op, d, b, y, n, w) ==
    /\ op \in Operation(w)
    /\ Slot(w, "file") = <<ByteOf(d)>> /\ Slot(w, "base") = <<b>>
    /\ Slot(w, "y") = Named(y) /\ Slot(w, "count") = CountOf(n)

LEMMA BurstSays ==
    ASSUME opBig \in BOOLEAN, NEW op \in BurstOps, NEW d, IsFile(d),
           NEW b \in 0 .. 31, NEW y, IsOp(y), NEW n \in 0 .. 127,
           NEW w, w = BurstWord(op, d, b, y, n)
    PROVE  BurstTold(op, d, b, y, n, w)
<1> DEFINE c == BurstCode[op]
           h == n \div 16
           m == (n \div 2) % 8
           l == n % 2
           C == Sh(c, 28)
           D == FileByte(d)
           B == Sh(b, 8)
           Y == OpBits(y)
           H == Sh(h, 25)
           M == Sh(m, 13)
           L == Sh(l, 7)
<1>1. c \in {8, 9, 14, 15} /\ DOMAIN BurstCode = BurstOps
  BY CodesAre
<1>2. h \in 0 .. 7 /\ m \in 0 .. 7 /\ l \in 0 .. 1 /\ n = 16 * h + 2 * m + l
  BY SMT
<1>3. \A i : i \in w <=> \/ i \in C \/ i \in D \/ i \in B \/ i \in Y
                         \/ i \in H \/ i \in M \/ i \in L
  BY DEF BurstWord
<1> HIDE DEF c, h, m, l
<1>4. /\ Fits(c, 4) /\ Fits(b, 5) /\ Fits(h, 3) /\ Fits(m, 3) /\ Fits(l, 1)
  BY <1>1, <1>2, NumbersFit, SMT
<1>5. /\ In(C, 28, 31) /\ In(D, 0, 6) /\ In(B, 8, 12) /\ In(Y, 16, 24)
      /\ In(H, 25, 27) /\ In(M, 13, 15) /\ In(L, 7, 7)
  <2>1. /\ In(C, 28, 28 + 4 - 1) /\ In(B, 8, 8 + 5 - 1) /\ In(H, 25, 25 + 3 - 1)
        /\ In(M, 13, 13 + 3 - 1) /\ In(L, 7, 7 + 1 - 1)
    BY <1>4, PieceRead, SMT
  <2>2. In(D, 0, 6) /\ In(Y, 16, 24)
    BY FileRead, OpHeld
  <2> HIDE DEF C, D, B, Y, H, M, L
  <2> QED
    BY <2>1, <2>2, SMT DEF In
<1> HIDE DEF C, D, B, Y, H, M, L
<1>6. Read(w, 28, 4) = c
  <2>1. Holds(w, 28, 4, c)
    BY <1>3, <1>4, <1>5, SMT DEF In, Holds, C
  <2> QED
    BY <2>1, HeldRead, SMT
<1>7. Read(w, 8, 5) = b
  <2>1. Holds(w, 8, 5, b)
    BY <1>3, <1>4, <1>5, SMT DEF In, Holds, B
  <2> QED
    BY <2>1, HeldRead, SMT
<1>8. Read(w, 25, 3) = h
  <2>1. Holds(w, 25, 3, h)
    BY <1>3, <1>4, <1>5, SMT DEF In, Holds, H
  <2> QED
    BY <2>1, HeldRead, SMT
<1>9. Read(w, 13, 3) = m
  <2>1. Holds(w, 13, 3, m)
    BY <1>3, <1>4, <1>5, SMT DEF In, Holds, M
  <2> QED
    BY <2>1, HeldRead, SMT
<1>10. Read(w, 7, 1) = l
  <2>1. Holds(w, 7, 1, l)
    BY <1>3, <1>4, <1>5, SMT DEF In, Holds, L
  <2> QED
    BY <2>1, HeldRead, SMT
<1>11. op \in Operation(w)
  <2>1. Operation(w) = {o \in DOMAIN BurstCode : BurstCode[o] = c}
    BY <1>1, <1>6, TopIs, OperationIs
  <2> QED
    BY <1>1, <2>1 DEF c
<1>12. Slot(w, "file") = <<ByteOf(d)>>
  <2>1. \A i \in 0 .. 6 : i \in w <=> i \in D
    BY <1>3, <1>5, SMT DEF In
  <2> QED
    BY <2>1, FileRead DEF D
<1>13. Slot(w, "y") = Named(y)
  <2>1. \A i \in 16 .. 24 : i \in w <=> i \in Y
    BY <1>3, <1>5, SMT DEF In
  <2> QED
    BY <2>1, OpHeld DEF Y
<1>14. Slot(w, "count") = CountOf(n)
  <2> DEFINE k == 16 * Read(w, 25, 3) + 2 * Read(w, 13, 3) + Read(w, 7, 1)
  <2>1. k = n
    BY <1>2, <1>8, <1>9, <1>10, SMT
  <2>2. Slot(w, "count") = CountOf(k)
    BY SlotIs DEF CountOf
  <2> QED
    BY <2>1, <2>2
<1> QED
  BY <1>7, <1>11, <1>12, <1>13, <1>14, SlotIs DEF BurstTold

(* The distance of a branch, in its two pieces.                            *)
LEMMA ApartRead ==
    ASSUME NEW off \in -512 .. 511, opOffset \in Int
    PROVE  /\ \A i \in Apart(off) : \/ i \in Int /\ 0 <= i /\ i <= 7
                                    \/ i \in Int /\ 25 <= i /\ i <= 26
           /\ \A w : (\A i \in 0 .. 7 \cup 25 .. 26 : i \in w <=> i \in Apart(off))
                     => Slot(w, "off") = <<opOffset + off>>
<1> DEFINE l == off % 256
           h == (off % 1024) \div 256
           L == Sh(l, 0)
           H == Sh(h, 25)
<1>1. /\ l \in 0 .. 255 /\ h \in 0 .. 3
      /\ off = IF l + 256 * h < 512 THEN l + 256 * h ELSE l + 256 * h - 1024
  BY SMT
<1>2. Apart(off) = L \cup H
  BY DEF Apart
<1> HIDE DEF l, h
<1>3. Fits(l, 8) /\ Fits(h, 2)
  BY <1>1, NumbersFit, SMT
<1>4. In(L, 0, 7) /\ In(H, 25, 26)
  <2>1. In(L, 0, 0 + 8 - 1) /\ In(H, 25, 25 + 2 - 1)
    BY <1>3, PieceRead, SMT
  <2> QED
    BY <2>1, SMT DEF In
<1> HIDE DEF L, H
<1>5. ASSUME NEW w, \A i \in 0 .. 7 \cup 25 .. 26 : i \in w <=> i \in L \cup H
      PROVE  Slot(w, "off") = <<opOffset + off>>
  <2>1. Holds(w, 0, 8, l)
    BY <1>3, <1>4, <1>5, SMT DEF In, Holds, L
  <2>2. Holds(w, 25, 2, h)
    BY <1>3, <1>4, <1>5, SMT DEF In, Holds, H
  <2>3. Read(w, 0, 8) = l /\ Read(w, 25, 2) = h
    BY <2>1, <2>2, HeldRead, SMT
  <2>4. Slot(w, "off")
          = <<opOffset + IF l + 256 * h < 512 THEN l + 256 * h
                         ELSE (l + 256 * h) - 1024>>
    BY <2>3, SlotIs
  <2>5. off = IF l + 256 * h < 512 THEN l + 256 * h ELSE (l + 256 * h) - 1024
    BY <1>1, SMT
  <2> QED
    BY <2>4, <2>5
<1> QED
  BY <1>2, <1>4, <1>5, SMT DEF In

(* A word of a branch that compares, and of one that does not.             *)
QbTold(op, off, x, y, w) ==
    /\ op \in Operation(w) /\ Slot(w, "off") = <<opOffset + off>>
    /\ Slot(w, "x") = <<x.Value, x.Field>> /\ Slot(w, "y") = Named(y)

LEMMA QbSays ==
    ASSUME NEW op \in BranchOps \cup BitTestOps, opOffset \in Int,
           NEW off \in -512 .. 511, NEW x, IsReg(x), NEW y, IsOp(y),
           NEW w, w = Qb(op, off, x, y)
    PROVE  QbTold(op, off, x, y, w)
<1> DEFINE c == QbCode[op]
           C == Sh(c, 27)
           A == Apart(off)
           X == RegBits(x, 8)
           Y == OpBits(y)
<1>1. c \in 9 .. 15 \cup {25, 26} /\ op \in DOMAIN QbCode
  BY CodesAre
<1>2. \A i : i \in w <=> i \in C \/ i \in A \/ i \in X \/ i \in Y
  BY DEF Qb
<1> HIDE DEF c
<1>3. Fits(c, 5)
  BY <1>1, NumbersFit, SMT
<1>4. /\ In(C, 27, 31) /\ In(X, 8, 15) /\ In(Y, 16, 24)
      /\ \A i \in A : \/ i \in Int /\ 0 <= i /\ i <= 7
                      \/ i \in Int /\ 25 <= i /\ i <= 26
  <2>1. In(C, 27, 27 + 5 - 1)
    BY <1>3, PieceRead, SMT
  <2>2. In(C, 27, 31)
    BY <2>1, SMT DEF In
  <2> HIDE DEF C
  <2> QED
    BY <2>2, RegHeld, OpHeld, ApartRead
<1> HIDE DEF C, A, X, Y
<1>5. Read(w, 27, 5) = c
  <2>1. Holds(w, 27, 5, c)
    BY <1>2, <1>3, <1>4, SMT DEF In, Holds, C
  <2> QED
    BY <2>1, HeldRead, SMT
<1>6. op \in Operation(w)
  <2>1. Operation(w) = {o \in DOMAIN QbCode : QbCode[o] = c}
    BY <1>1, <1>5, TopIs, OperationIs
  <2> QED
    BY <1>1, <2>1 DEF c
<1>7. Slot(w, "off") = <<opOffset + off>>
  <2>1. \A i \in 0 .. 7 \cup 25 .. 26 : i \in w <=> i \in A
    BY <1>2, <1>4, SMT DEF In
  <2> QED
    BY <2>1, ApartRead DEF A
<1>8. Slot(w, "x") = <<x.Value, x.Field>>
  <2>1. \A i \in 8 .. 15 : i \in w <=> i \in X
    BY <1>2, <1>4, SMT DEF In
  <2> QED
    BY <2>1, RegHeld DEF X
<1>9. Slot(w, "y") = Named(y)
  <2>1. \A i \in 16 .. 24 : i \in w <=> i \in Y
    BY <1>2, <1>4, SMT DEF In
  <2> QED
    BY <2>1, OpHeld DEF Y
<1> QED
  BY <1>6, <1>7, <1>8, <1>9 DEF QbTold

LEMMA QbaSays ==
    ASSUME opOffset \in Int, NEW off \in -512 .. 511,
           NEW w, w = Sh(15, 27) \cup Apart(off) \cup Bit(24)
    PROVE  "QBA" \in Operation(w) /\ Slot(w, "off") = <<opOffset + off>>
<1> DEFINE C == Sh(15, 27)
           A == Apart(off)
<1>1. \A i : i \in w <=> i \in C \/ i \in A \/ i = 24
  BY DEF Bit
<1>2. Fits(15, 5)
  BY NumbersFit, SMT
<1>3. /\ In(C, 27, 31)
      /\ \A i \in A : \/ i \in Int /\ 0 <= i /\ i <= 7
                      \/ i \in Int /\ 25 <= i /\ i <= 26
  <2>1. In(C, 27, 27 + 5 - 1)
    BY <1>2, PieceRead, SMT
  <2>2. In(C, 27, 31)
    BY <2>1, SMT DEF In
  <2> HIDE DEF C
  <2> QED
    BY <2>2, ApartRead
<1> HIDE DEF C, A
<1>4. Read(w, 27, 5) = 15
  <2>1. Holds(w, 27, 5, 15)
    BY <1>1, <1>2, <1>3, SMT DEF In, Holds, C
  <2> QED
    BY <2>1, HeldRead, SMT
<1>5. "QBA" \in Operation(w)
  <2>1. 15 \in 9 .. 15 \cup {25, 26}
    BY SMT
  <2>2. Operation(w) = {o \in DOMAIN QbCode : QbCode[o] = 15}
    BY <1>4, <2>1, TopIs, OperationIs
  <2> QED
    BY <2>2 DEF QbCode
<1>6. Slot(w, "off") = <<opOffset + off>>
  <2>1. \A i \in 0 .. 7 \cup 25 .. 26 : i \in w <=> i \in A
    BY <1>1, <1>3, SMT DEF In
  <2> QED
    BY <2>1, ApartRead DEF A
<1> QED
  BY <1>5, <1>6

(* A word that loads a value, or clears a register.                        *)
LEMMA LdiSays ==
    ASSUME NEW d, IsReg(d), NEW v, Fits(v, 16), NEW w, w = Ldi(d, v)
    PROVE  /\ Operation(w) = {"LDI"} /\ Slot(w, "d") = <<d.Value, d.Field>>
           /\ Slot(w, "value") = <<v>>
<1> DEFINE C == Sh(18, 25)
           D == RegBits(d, 0)
           V == Sh(v, 8)
<1>1. \A i : i \in w <=> i \in C \/ i \in D \/ i \in V
  BY CodeBits DEF Ldi
<1>2. Fits(v, 16)
  OBVIOUS
<1>3. In(C, 25, 31) /\ In(D, 0, 7) /\ In(V, 8, 23)
  <2>1. In(V, 8, 8 + 16 - 1)
    BY <1>2, PieceRead, SMT
  <2>2. In(V, 8, 23)
    BY <2>1, SMT DEF In
  <2>3. 18 \in 0 .. 127
    BY SMT
  <2> HIDE DEF V
  <2> QED
    BY <2>2, <2>3, TopHeld, RegHeld
<1> HIDE DEF C, D, V
<1>4. Read(w, 25, 7) = 18
  <2>1. \A i \in 25 .. 31 : i \in w <=> i \in C
    BY <1>1, <1>3, SMT DEF In
  <2>2. 18 \in 0 .. 127
    BY SMT
  <2> QED
    BY <2>1, <2>2, TopHeld DEF C
<1>5. Read(w, 8, 16) = v
  <2>1. Holds(w, 8, 16, v)
    BY <1>1, <1>2, <1>3, SMT DEF In, Holds, V
  <2> QED
    BY <2>1, HeldRead, SMT
<1>6. Slot(w, "d") = <<d.Value, d.Field>>
  <2>1. \A i \in 0 .. 7 : i \in w <=> i \in D
    BY <1>1, <1>3, SMT DEF In
  <2> QED
    BY <2>1, RegHeld DEF D
<1> QED
  BY <1>4, <1>5, <1>6, OperationIs, SlotIs

(* A word that moves through a pointer.                                    *)
PointerWord(m, s, d, x) ==
    Sh(22, 25) \cup Sh(m, 21) \cup Sh(s, 16) \cup RegBits(d, 0) \cup RegBits(x, 8)
Moves(s) == {<<"MVIB", "MVIW", "MVID">>[1 + s]}

LEMMA PointerSays ==
    ASSUME NEW d, IsReg(d), NEW x, IsReg(x), NEW m \in 0 .. 15, NEW s \in 0 .. 2,
           NEW w, w = PointerWord(m, s, d, x)
    PROVE  Operation(w) = Moves(s)
<1> DEFINE C == Sh(22, 25)
           M == Sh(m, 21)
           S == Sh(s, 16)
           D == RegBits(d, 0)
           X == RegBits(x, 8)
<1>1. \A i : i \in w <=> i \in C \/ i \in M \/ i \in S \/ i \in D \/ i \in X
  BY DEF PointerWord
<1>2. Fits(m, 4) /\ Fits(s, 2) /\ 22 \in 0 .. 127
  BY NumbersFit, SMT
<1>3. In(C, 25, 31) /\ In(M, 21, 24) /\ In(S, 16, 17) /\ In(D, 0, 7) /\ In(X, 8, 15)
  <2>1. In(M, 21, 21 + 4 - 1) /\ In(S, 16, 16 + 2 - 1)
    BY <1>2, PieceRead, SMT
  <2>2. In(M, 21, 24) /\ In(S, 16, 17)
    BY <2>1, SMT DEF In
  <2> HIDE DEF M, S
  <2> QED
    BY <1>2, <2>2, TopHeld, RegHeld
<1> HIDE DEF C, M, S, D, X
<1>4. Read(w, 25, 7) = 22
  <2>1. \A i \in 25 .. 31 : i \in w <=> i \in C
    BY <1>1, <1>3, SMT DEF In
  <2> QED
    BY <1>2, <2>1, TopHeld DEF C
<1>5. Read(w, 16, 2) = s
  <2>1. Holds(w, 16, 2, s)
    BY <1>1, <1>2, <1>3, SMT DEF In, Holds, S
  <2> QED
    BY <2>1, HeldRead, SMT
<1> QED
  BY <1>4, <1>5, OperationIs DEF Moves

(* The words that stop the core.                                           *)
LEMMA SleepSays ==
    /\ "HALT" \in Operation(Sh(21, 25))
    /\ \A v \in 0 .. 1 : "SLP" \in Operation(Sh(31, 25) \cup Sh(v, 23))
<1>1. 21 \in 0 .. 127 /\ 31 \in 0 .. 127
  BY SMT
<1>2. Read(Sh(21, 25), 25, 7) = 21
  BY <1>1, TopHeld
<1>3. ASSUME NEW v \in 0 .. 1 PROVE Read(Sh(31, 25) \cup Sh(v, 23), 25, 7) = 31
  <2> DEFINE V == Sh(v, 23)
  <2>1. Fits(v, 1)
    BY NumbersFit, SMT
  <2>2. In(V, 23, 23 + 1 - 1)
    BY <2>1, PieceRead, SMT
  <2> HIDE DEF V
  <2>3. \A i \in 25 .. 31 : i \in Sh(31, 25) \cup V <=> i \in Sh(31, 25)
    BY <2>2, SMT DEF In
  <2> QED
    BY <1>1, <2>3, TopHeld DEF V
<1> QED
  BY <1>2, <1>3, OperationIs

(* A word of the legacy core's transfers.                                  *)
LegacyWord(op, r, v, y) ==
    Sh(IF op = "LFC" THEN 11 ELSE 10, 28) \cup RegBits(r, 0) \cup Sh(v, 8) \cup OpBits(y)
LegacyTold(op, r, v, y, w) ==
    /\ op \in Operation(w) /\ Slot(w, "d") = <<r.Value, r.Field>>
    /\ Slot(w, "c") = <<v>> /\ Slot(w, "y") = Named(y)

LEMMA LegacySays ==
    ASSUME opCore = 0, NEW op \in {"LFC", "STC"}, NEW r, IsReg(r), NEW v \in 0 .. 255,
           NEW y, IsOp(y),
           NEW w, w = LegacyWord(op, r, v, y)
    PROVE  LegacyTold(op, r, v, y, w)
<1> DEFINE c == IF op = "LFC" THEN 11 ELSE 10
           C == Sh(c, 28)
           D == RegBits(r, 0)
           V == Sh(v, 8)
           Y == OpBits(y)
<1>1. \A i : i \in w <=> i \in C \/ i \in D \/ i \in V \/ i \in Y
  BY DEF LegacyWord
<1>2. c \in {10, 11} /\ (c = 10 <=> op = "STC")
  BY SMT
<1> HIDE DEF c
<1>3. Fits(c, 4) /\ Fits(v, 8)
  BY <1>2, NumbersFit, SMT
<1>4. In(C, 28, 31) /\ In(V, 8, 15) /\ In(D, 0, 7) /\ In(Y, 16, 24)
  <2>1. In(C, 28, 28 + 4 - 1) /\ In(V, 8, 8 + 8 - 1)
    BY <1>3, PieceRead, SMT
  <2>2. In(C, 28, 31) /\ In(V, 8, 15)
    BY <2>1, SMT DEF In
  <2> HIDE DEF C, V
  <2> QED
    BY <2>2, RegHeld, OpHeld
<1> HIDE DEF C, D, V, Y
<1>5. Read(w, 28, 4) = c
  <2>1. Holds(w, 28, 4, c)
    BY <1>1, <1>3, <1>4, SMT DEF In, Holds, C
  <2> QED
    BY <2>1, HeldRead, SMT
<1>6. op \in Operation(w)
  <2>1. Operation(w) = {IF c = 10 THEN "STC" ELSE "LFC"}
    BY <1>2, <1>5, TopIs, OperationIs
  <2> QED
    BY <1>2, <2>1
<1>7. Read(w, 8, 8) = v
  <2>1. Holds(w, 8, 8, v)
    BY <1>1, <1>3, <1>4, SMT DEF In, Holds, V
  <2> QED
    BY <2>1, HeldRead, SMT
<1>8. Slot(w, "d") = <<r.Value, r.Field>>
  <2>1. \A i \in 0 .. 7 : i \in w <=> i \in D
    BY <1>1, <1>4, SMT DEF In
  <2> QED
    BY <2>1, RegHeld DEF D
<1>9. Slot(w, "y") = Named(y)
  <2>1. \A i \in 16 .. 24 : i \in w <=> i \in Y
    BY <1>1, <1>4, SMT DEF In
  <2> QED
    BY <2>1, OpHeld DEF Y
<1> QED
  BY <1>6, <1>7, <1>8, <1>9, SlotIs DEF LegacyTold

(* A word of a loop.                                                       *)
LoopWord(op, l, y) ==
    Sh(3, 28) \cup (IF op = "ILOOP" THEN Bit(15) ELSE {}) \cup Sh(l, 0) \cup OpBits(y)
LoopTold(op, l, y, w) ==
    /\ op \in Operation(w) /\ Slot(w, "loop") = <<opOffset + l>>
    /\ Slot(w, "n") = IF y.Type = "reg" THEN Named(y) ELSE <<y.Value + 1>>

LEMMA LoopSays ==
    ASSUME NEW op \in {"LOOP", "ILOOP"}, NEW l \in 0 .. 255, NEW y, IsOp(y),
           NEW w, w = LoopWord(op, l, y)
    PROVE  LoopTold(op, l, y, w)
<1> DEFINE C == Sh(24, 25)
           S == IF op = "ILOOP" THEN Bit(15) ELSE {}
           V == Sh(l, 0)
           Y == OpBits(y)
<1>1. \A i : i \in w <=> i \in C \/ i \in S \/ i \in V \/ i \in Y
  BY CodeBits DEF LoopWord
<1>2. \A i : i \in S <=> i = 15 /\ op = "ILOOP"
  BY DEF Bit
<1>3. Fits(l, 8) /\ 24 \in 0 .. 127
  BY NumbersFit, SMT
<1>4. In(C, 25, 31) /\ In(V, 0, 7) /\ In(Y, 16, 24)
  <2>1. In(V, 0, 0 + 8 - 1)
    BY <1>3, PieceRead, SMT
  <2>2. In(V, 0, 7)
    BY <2>1, SMT DEF In
  <2> HIDE DEF V
  <2> QED
    BY <1>3, <2>2, TopHeld, OpHeld
<1> HIDE DEF C, S, V, Y
<1>5. Read(w, 25, 7) = 24
  <2>1. \A i \in 25 .. 31 : i \in w <=> i \in C
    BY <1>1, <1>2, <1>4, SMT DEF In
  <2> QED
    BY <1>3, <2>1, TopHeld DEF C
<1>6. op \in Operation(w)
  <2>1. Operation(w) = {IF 15 \in w THEN "ILOOP" ELSE "LOOP"}
    BY <1>5, OperationIs
  <2>2. 15 \in w <=> op = "ILOOP"
    BY <1>1, <1>2, <1>4, SMT DEF In
  <2> QED
    BY <2>1, <2>2
<1>7. Read(w, 0, 8) = l
  <2>1. Holds(w, 0, 8, l)
    BY <1>1, <1>2, <1>3, <1>4, SMT DEF In, Holds, V
  <2> QED
    BY <2>1, HeldRead, SMT
<1>8. /\ 24 \in w <=> y.Type # "reg"
      /\ y.Type # "reg" => Read(w, 16, 8) = y.Value
      /\ Slot(w, "y") = Named(y)
  <2>1. \A i \in 16 .. 24 : i \in w <=> i \in Y
    BY <1>1, <1>2, <1>4, SMT DEF In
  <2> QED
    BY <2>1, OpHeld DEF Y
<1> QED
  BY <1>6, <1>7, <1>8, SlotIs DEF LoopTold

(* A word of a jump: where to, and for JAL the register for the return.    *)
IsTo(a) == IF a.Type = "reg" THEN IsReg(a) ELSE Fits(a.Value, 16)

LEMMA ToHeld ==
    ASSUME NEW a, IsTo(a)
    PROVE  /\ In(ToBits(a), 8, 24)
           /\ \A w : (\A i \in 8 .. 24 : i \in w <=> i \in ToBits(a))
                     => Slot(w, "to") = Named(a)
<1>1. CASE a.Type = "reg"
  <2>1. IsOp(a) /\ ToBits(a) = OpBits(a)
    BY <1>1 DEF IsTo, IsOp, ToBits, OpBits
  <2>2. In(OpBits(a), 16, 24)
    BY <2>1, OpHeld
  <2>3. ASSUME NEW w, \A i \in 8 .. 24 : i \in w <=> i \in OpBits(a)
        PROVE  Slot(w, "to") = Named(a)
    <3>1. \A i \in 16 .. 24 : i \in w <=> i \in OpBits(a)
      BY <2>3, SMT
    <3>2. 24 \notin w /\ Slot(w, "y") = Named(a)
      BY <1>1, <2>1, <3>1, OpHeld
    <3> QED
      BY <3>2, SlotIs
  <2> QED
    BY <2>1, <2>2, <2>3, SMT DEF In
<1>2. CASE a.Type # "reg"
  <2> DEFINE V == Sh(a.Value, 8)
  <2>1. Fits(a.Value, 16)
    BY <1>2 DEF IsTo
  <2>2. In(V, 8, 8 + 16 - 1)
    BY <2>1, PieceRead, SMT
  <2>3. \A i : i \in ToBits(a) <=> i \in V \/ i = 24
    BY <1>2 DEF ToBits, Bit
  <2> HIDE DEF V
  <2>4. In(ToBits(a), 8, 24)
    BY <2>2, <2>3, SMT DEF In
  <2>5. ASSUME NEW w, \A i \in 8 .. 24 : i \in w <=> i \in ToBits(a)
        PROVE  Slot(w, "to") = Named(a)
    <3>1. Holds(w, 8, 16, a.Value)
      BY <2>1, <2>2, <2>3, <2>5, SMT DEF In, Holds, V
    <3>2. Read(w, 8, 16) = a.Value
      BY <3>1, HeldRead, SMT
    <3>3. 24 \in w
      BY <2>3, <2>5, SMT
    <3> QED
      BY <1>2, <3>2, <3>3, SlotIs DEF Named
  <2> QED
    BY <2>4, <2>5
<1> QED
  BY <1>1, <1>2

LEMMA JumpSays ==
    ASSUME NEW a, IsTo(a)
    PROVE  /\ Operation(Jmp(a)) = {"JMP", "RET"} /\ Slot(Jmp(a), "to") = Named(a)
           /\ \A d : IsReg(d) => /\ Operation(Jal(d, a)) = {"JAL", "CALL"}
                                 /\ Slot(Jal(d, a), "d") = <<d.Value, d.Field>>
                                 /\ Slot(Jal(d, a), "to") = Named(a)
<1>1. 16 \in 0 .. 127 /\ 17 \in 0 .. 127
  BY SMT
<1> DEFINE T == ToBits(a)
<1>2. In(Sh(16, 25), 25, 31) /\ In(Sh(17, 25), 25, 31) /\ In(T, 8, 24)
  BY <1>1, TopHeld, ToHeld
<1>3. Operation(Jmp(a)) = {"JMP", "RET"} /\ Slot(Jmp(a), "to") = Named(a)
  <2> DEFINE w == Jmp(a)
  <2>1. \A i : i \in w <=> i \in Sh(16, 25) \/ i \in T
    BY DEF Jmp
  <2> HIDE DEF T, w
  <2>2. \A i \in 25 .. 31 : i \in w <=> i \in Sh(16, 25)
    BY <1>2, <2>1, SMT DEF In
  <2>3. \A i \in 8 .. 24 : i \in w <=> i \in T
    BY <1>2, <2>1, SMT DEF In
  <2>4. Read(w, 25, 7) = 16
    BY <1>1, <2>2, TopHeld
  <2>5. Slot(w, "to") = Named(a)
    BY <2>3, ToHeld DEF T
  <2> QED
    BY <2>4, <2>5, OperationIs DEF w
<1>4. ASSUME NEW d, IsReg(d)
      PROVE  /\ Operation(Jal(d, a)) = {"JAL", "CALL"}
             /\ Slot(Jal(d, a), "d") = <<d.Value, d.Field>>
             /\ Slot(Jal(d, a), "to") = Named(a)
  <2> DEFINE w == Jal(d, a)
             D == RegBits(d, 0)
  <2>1. \A i : i \in w <=> i \in Sh(17, 25) \/ i \in D \/ i \in T
    BY DEF Jal
  <2>2. In(D, 0, 7)
    BY <1>4, RegHeld
  <2> HIDE DEF T, D, w
  <2>3. \A i \in 25 .. 31 : i \in w <=> i \in Sh(17, 25)
    BY <1>2, <2>1, <2>2, SMT DEF In
  <2>4. \A i \in 8 .. 24 : i \in w <=> i \in T
    BY <1>2, <2>1, <2>2, SMT DEF In
  <2>5. \A i \in 0 .. 7 : i \in w <=> i \in D
    BY <1>2, <2>1, <2>2, SMT DEF In
  <2>6. Read(w, 25, 7) = 17
    BY <1>1, <2>3, TopHeld
  <2>7. Slot(w, "to") = Named(a)
    BY <2>4, ToHeld DEF T
  <2>8. Slot(w, "d") = <<d.Value, d.Field>>
    BY <1>4, <2>5, RegHeld DEF D
  <2> QED
    BY <2>6, <2>7, <2>8, OperationIs DEF w
<1> QED
  BY <1>3, <1>4
-----------------------------------------------------------------------------
(* PasmOp: the operands                                                    *)

(* The fields of a register, one after the other.                          *)
LEMMA FieldsExist ==
    ASSUME NEW parts, NEW n \in Nat
    PROVE  \E u : u = [i \in 1 .. n |-> IF i = 1 THEN WholeRegister
                                        ELSE Narrow(u[i - 1], parts[i])]
<1> DEFINE P(u, m) == u = [i \in 1 .. m |-> IF i = 1 THEN WholeRegister
                                            ELSE Narrow(u[i - 1], parts[i])]
           without == {m \in Nat : ~ \E u : P(u, m)}
<1> SUFFICES ASSUME without # {} PROVE FALSE
  OBVIOUS
<1>1. PICK m \in without : \A k \in without : m <= k
  <2>1. without \in SUBSET Nat
    OBVIOUS
  <2> HIDE DEF without
  <2> QED
    BY <2>1, LeastOf
<1>2. CASE m = 0
  <2> DEFINE u == [i \in 1 .. 0 |-> WholeRegister]
  <2>1. 1 .. 0 = {}
    OBVIOUS
  <2>2. P(u, 0)
    BY <2>1
  <2> QED
    BY <1>1, <1>2, <2>2
<1>3. CASE m # 0
  <2>1. m \in Nat \ {0} /\ m - 1 \in Nat /\ m - 1 \notin without
    <3>1. m \in Nat \ {0} /\ m - 1 \in Nat /\ ~(m <= m - 1)
      BY <1>1, <1>3
    <3> HIDE DEF without
    <3> QED
      BY <1>1, <3>1
  <2>2. PICK u : P(u, m - 1)
    BY <2>1
  <2> DEFINE last == IF m = 1 THEN WholeRegister ELSE Narrow(u[m - 1], parts[m])
             h == [i \in 1 .. m |-> IF i = m THEN last ELSE u[i]]
  <2>3. ASSUME NEW i \in 1 .. m
        PROVE  h[i] = IF i = 1 THEN WholeRegister ELSE Narrow(h[i - 1], parts[i])
    <3>1. i # 1 => i - 1 \in 1 .. m /\ i - 1 # m /\ h[i - 1] = u[i - 1]
      BY <2>1
    <3>2. CASE i = m
      <4>1. h[i] = last
        BY <3>2
      <4> HIDE DEF h
      <4> QED
        BY <3>1, <3>2, <4>1
    <3>3. CASE i # m
      <4>1. i \in 1 .. m - 1 /\ h[i] = u[i]
        BY <2>1, <3>3
      <4> DEFINE e(k) == IF k = 1 THEN WholeRegister ELSE Narrow(u[k - 1], parts[k])
      <4>2. u[i] = e(i)
        <5>1. u = [k \in 1 .. m - 1 |-> e(k)]
          BY <2>2
        <5> HIDE DEF e
        <5> QED
          BY <4>1, <5>1
      <4> HIDE DEF h
      <4> QED
        BY <3>1, <4>1, <4>2
    <3> QED
      BY <3>2, <3>3
  <2>4. P(h, m)
    <3> DEFINE e(k) == IF k = 1 THEN WholeRegister ELSE Narrow(h[k - 1], parts[k])
    <3>1. h = [k \in 1 .. m |-> h[k]]
      OBVIOUS
    <3>2. \A k \in 1 .. m : h[k] = e(k)
      BY <2>3
    <3> HIDE DEF h, e
    <3>3. h = [k \in 1 .. m |-> e(k)]
      BY <3>1, <3>2
    <3> QED
      BY <3>3 DEF e
  <2> QED
    BY <1>1, <2>4
<1> QED
  BY <1>2, <1>3

(* A part of a register: its bytes lie within the four, its bit within it. *)
Parts == [c : Letters, n : Nat]
Within(r) ==
    /\ r \in [ok : BOOLEAN, width : {1, 2, 4}, first : Nat, bit : Int]
    /\ r.ok => r.first + r.width <= 4 /\ r.bit \in -1 .. 31

LEMMA NarrowWithin ==
    ASSUME NEW r, Within(r), NEW p \in Parts
    PROVE  Within(Narrow(r, p))
<1> DEFINE w == IF p.c = "W" THEN 2 ELSE 1
           bitOk == r.ok /\ r.bit = -1 /\ p.n < 8 * r.width
           byteOk == r.ok /\ r.bit = -1 /\ p.c \in {"W", "B"} /\ p.n + w <= r.width
           S == [ok : BOOLEAN, width : {1, 2, 4}, first : Nat, bit : Int]
<1>1. /\ r \in S /\ r.ok \in BOOLEAN /\ r.width \in {1, 2, 4} /\ r.first \in Nat
      /\ r.bit \in Int /\ p.n \in Nat /\ w \in {1, 2}
      /\ r.ok => r.first + r.width <= 4 /\ r.bit \in -1 .. 31
  BY DEF Within, Parts
<1>2. bitOk \in BOOLEAN /\ byteOk \in BOOLEAN
  BY <1>1
<1>3. /\ bitOk => r.ok /\ p.n \in 0 .. 31
      /\ byteOk => r.ok /\ (r.first + p.n) + w <= 4
  BY <1>1, SMT
<1>4. Narrow(r, p) = IF p.c = "T" THEN [r EXCEPT !.ok = bitOk, !.bit = p.n]
                     ELSE [r EXCEPT !.ok = byteOk, !.width = w, !.first = r.first + p.n]
  BY DEF Narrow
<1> HIDE DEF bitOk, byteOk, w
<1>5. ASSUME NEW t, t = [r EXCEPT !.ok = bitOk, !.bit = p.n]
      PROVE  /\ t \in S /\ t.ok = bitOk /\ t.width = r.width /\ t.first = r.first
             /\ t.bit = p.n
  <2> DEFINE n == p.n
  <2>1. n \in Int /\ t = [r EXCEPT !.ok = bitOk, !.bit = n]
    BY <1>1, <1>5
  <2> HIDE DEF n
  <2>2. t \in S
    BY <1>1, <1>2, <2>1
  <2>3. t.ok = bitOk /\ t.width = r.width /\ t.first = r.first /\ t.bit = n
    BY <1>1, <2>1
  <2> QED
    BY <2>2, <2>3 DEF n
<1>6. ASSUME NEW t, t = [r EXCEPT !.ok = byteOk, !.width = w, !.first = r.first + p.n]
      PROVE  /\ t \in S /\ t.ok = byteOk /\ t.width = w /\ t.first = r.first + p.n
             /\ t.bit = r.bit
  <2>1. r.first + p.n \in Nat /\ w \in {1, 2, 4}
    BY <1>1
  <2> QED
    BY <1>1, <1>2, <1>6, <2>1
<1> DEFINE t == Narrow(r, p)
<1>7. CASE p.c = "T"
  <2>1. /\ t \in S /\ t.ok = bitOk /\ t.width = r.width /\ t.first = r.first
        /\ t.bit = p.n
    BY <1>4, <1>5, <1>7
  <2> HIDE DEF t
  <2>2. t.ok => t.first + t.width <= 4 /\ t.bit \in -1 .. 31
    BY <1>1, <1>3, <2>1, SMT
  <2> QED
    BY <2>1, <2>2 DEF Within, t
<1>8. CASE p.c # "T"
  <2>1. /\ t \in S /\ t.ok = byteOk /\ t.width = w /\ t.first = r.first + p.n
        /\ t.bit = r.bit
    BY <1>4, <1>6, <1>8
  <2> HIDE DEF t
  <2>2. t.ok => t.first + t.width <= 4 /\ t.bit \in -1 .. 31
    BY <1>1, <1>3, <2>1, SMT
  <2> QED
    BY <2>1, <2>2 DEF Within, t
<1> QED
  BY <1>7, <1>8

LEMMA NarrowedWithin ==
    ASSUME NEW parts \in Seq(Parts), parts # <<>>
    PROVE  Within(Narrowed(parts))
<1> DEFINE n == Len(parts)
           e(u, i) == IF i = 1 THEN WholeRegister ELSE Narrow(u[i - 1], parts[i])
           fields == CHOOSE u : u = [i \in 1 .. n |-> e(u, i)]
<1>1. n \in Nat /\ n \in 1 .. n /\ \A i \in 1 .. n : parts[i] \in Parts
  OBVIOUS
<1>2. fields = [i \in 1 .. n |-> e(fields, i)]
  <2>1. \E u : u = [i \in 1 .. n |-> e(u, i)]
    BY <1>1, FieldsExist, Zenon
  <2> QED
    BY <2>1, Zenon
<1>3. Narrowed(parts) = fields[n]
  BY DEF Narrowed
<1> HIDE DEF n, fields
<1>4. \A i \in 1 .. n : fields[i] = e(fields, i)
  <2> HIDE DEF e
  <2> QED
    BY <1>2
<1> DEFINE bad == {i \in 1 .. n : ~Within(fields[i])}
<1>5. ASSUME bad # {} PROVE FALSE
  <2>1. PICK i \in bad : \A k \in bad : i <= k
    <3>1. bad \in SUBSET Nat
      BY <1>1
    <3> HIDE DEF bad
    <3> QED
      BY <1>5, <3>1, LeastOf
  <2>2. i \in 1 .. n /\ ~Within(fields[i])
    BY <2>1
  <2>3. CASE i = 1
    <3>1. fields[i] = WholeRegister
      BY <1>4, <2>2, <2>3
    <3>2. Within(WholeRegister)
      BY DEF Within, WholeRegister
    <3> QED
      BY <2>2, <3>1, <3>2
  <2>4. CASE i # 1
    <3>1. i - 1 \in 1 .. n /\ ~(i <= i - 1)
      BY <1>1, <2>2, <2>4
    <3>2. i - 1 \notin bad
      <4> HIDE DEF bad
      <4> QED
        BY <2>1, <3>1
    <3>3. Within(fields[i - 1]) /\ parts[i] \in Parts
      BY <1>1, <2>2, <3>1, <3>2
    <3>4. fields[i] = Narrow(fields[i - 1], parts[i])
      BY <1>4, <2>2, <2>4
    <3> QED
      BY <2>2, <3>3, <3>4, NarrowWithin
  <2> QED
    BY <2>3, <2>4
<1> QED
  BY <1>1, <1>3, <1>5

LEMMA FieldIs ==
    ASSUME NEW width \in {1, 2, 4}, NEW first \in Nat, first + width <= 4
    PROVE  /\ FieldOf(width, first) \in 0 .. 7
           /\ width = 4 => FieldOf(width, first) = 7
           /\ width = 2 => FieldOf(width, first) = 4 + first /\ first <= 2
           /\ width = 1 => FieldOf(width, first) = first /\ first <= 3
<1>1. CASE width = 4
  BY <1>1, SMT DEF FieldOf
<1>2. CASE width = 2
  <2>1. FieldOf(width, first) = IF first < 2 THEN 4 + first ELSE 6
    BY <1>2, SMT DEF FieldOf
  <2> QED
    BY <1>2, <2>1, SMT
<1>3. CASE width = 1
  BY <1>3, SMT DEF FieldOf
<1> QED
  BY <1>1, <1>2, <1>3

(* The registers that GetRegister builds.                                  *)
Built(o, fBitOk, strip, plus, r) ==
    /\ o.parts # <<>> /\ o.pre = strip /\ o.parts[1].c = "R" /\ IsReg(r)
    /\ r.Type = "reg" \/ (r.Type = "bit" /\ fBitOk /\ r.Bit \in 0 .. 31)
    /\ GetRegister(o, fBitOk, strip, plus) = {r}
    /\ r.Type = "reg" \/ fBitOk => GetRegister(o, TRUE, strip, plus) = {r}
    /\ r.Type = "reg" => GetRegister(o, FALSE, strip, plus) = {r}

LEMMA RegisterIs ==
    ASSUME NEW o \in Operands, NEW fBitOk \in BOOLEAN, NEW strip, NEW plus,
           NEW r \in GetRegister(o, fBitOk, strip, plus)
    PROVE  Built(o, fBitOk, strip, plus, r)
<1> DEFINE n == Narrowed(o.parts)
           built == [Type |-> IF n.bit >= 0 THEN "bit" ELSE "reg",
                     Value |-> o.parts[1].n, Field |-> FieldOf(n.width, n.first),
                     Bit |-> n.bit]
           taken == /\ o.parts # <<>> /\ o.pre = strip /\ o.inc = plus
                    /\ o.parts[1].c = "R" /\ o.parts[1].n <= 31
                    /\ n.ok /\ (opCore = 0 => Len(o.parts) <= 2)
<1>1. \A bit : GetRegister(o, bit, strip, plus)
                 = IF taken /\ (n.bit >= 0 => bit) THEN {built} ELSE {}
  BY DEF GetRegister
<1>2. taken /\ (n.bit >= 0 => fBitOk) /\ r = built
  <2> HIDE DEF taken, built, n
  <2> QED
    BY <1>1
<1>3. o.parts \in Seq(Parts) /\ o.parts # <<>> /\ o.parts[1] \in Parts
  <2>1. o.parts \in Seq(Parts) /\ o.parts # <<>>
    BY <1>2 DEF Operands, Parts
  <2> QED
    BY <2>1
<1>4. Within(n)
  BY <1>3, NarrowedWithin
<1>5. /\ n.ok \in BOOLEAN /\ n.width \in {1, 2, 4} /\ n.first \in Nat
      /\ n.bit \in -1 .. 31 /\ n.first + n.width <= 4
  <2> HIDE DEF n
  <2> QED
    BY <1>2, <1>4 DEF Within
<1>6. FieldOf(n.width, n.first) \in 0 .. 7
  BY <1>5, FieldIs
<1>7. o.parts[1].n \in 0 .. 31
  <2>1. o.parts[1].n <= 31
    BY <1>2
  <2>2. \A p \in Parts : p.n \in Nat
    BY DEF Parts
  <2> HIDE DEF n, built, taken
  <2>3. o.parts[1].n \in Nat
    BY <1>3, <2>2
  <2> QED
    BY <2>1, <2>3, SMT
<1> HIDE DEF n
<1>8. IsReg(r) /\ r.Bit = n.bit /\ r.Type = IF n.bit >= 0 THEN "bit" ELSE "reg"
  BY <1>2, <1>6, <1>7 DEF IsReg
<1>9. /\ r.Type = "bit" <=> n.bit >= 0
      /\ r.Type = "bit" \/ r.Type = "reg"
      /\ n.bit >= 0 => n.bit \in 0 .. 31
  BY <1>5, <1>8
<1>10. /\ o.parts # <<>> /\ o.pre = strip /\ o.parts[1].c = "R"
  BY <1>2
<1>11. /\ GetRegister(o, fBitOk, strip, plus) = {r}
       /\ r.Type = "reg" \/ fBitOk => GetRegister(o, TRUE, strip, plus) = {r}
       /\ r.Type = "reg" => GetRegister(o, FALSE, strip, plus) = {r}
  <2> HIDE DEF taken, built
  <2> QED
    BY <1>1, <1>2, <1>9
<1> HIDE DEF taken, built
<1> QED
  BY <1>2, <1>8, <1>9, <1>10, <1>11 DEF Built

(* The flags of an operand.                                                *)
LEMMA TokenIs ==
    ASSUME NEW o \in Operands
    PROVE  /\ o.parts = <<>> => CheckTokenType(o) = {}
           /\ CheckTokenType(o) = {"ADDR"} => o.pre = "&"
           /\ CheckTokenType(o) = {"BASE"} => o.pre = "" /\ ~o.inc
           /\ CheckTokenType(o) = {"PTR", "ADDR"} => o.pre = "*&"
           /\ "PTR" \in CheckTokenType(o) => o.pre # "" /\ o.parts # <<>>
<1> DEFINE no == o.parts = <<>> \/ (\E i \in 1 .. Len(o.parts) : o.parts[i].n > 99)
                 \/ (o.inc /\ o.pre \in {"&", "*&", "*--"})
           ptr == IF o.pre \in {"*", "*&", "*--"} THEN {"PTR"} ELSE {}
           base == IF o.pre \in {"&", "*&"} THEN {"ADDR"} ELSE {"BASE"}
           post == IF o.inc THEN {"POSTINC"} ELSE {}
           pre == IF o.pre = "*--" THEN {"PREDEC"} ELSE {}
           flags == CheckTokenType(o)
<1>1. flags = IF no THEN {} ELSE ptr \cup base \cup post \cup pre
  BY DEF CheckTokenType
<1>2. o.parts = <<>> => no
  OBVIOUS
<1> HIDE DEF no, flags
<1>3. ~no => /\ "PTR" \in flags <=> o.pre \in {"*", "*&", "*--"}
             /\ "ADDR" \in flags <=> o.pre \in {"&", "*&"}
             /\ "BASE" \in flags <=> o.pre \notin {"&", "*&"}
             /\ "POSTINC" \in flags <=> o.inc
  BY <1>1
<1>4. no => flags = {}
  BY <1>1
<1>5. o.pre \in {"", "&", "*", "*&", "*--"} /\ o.inc \in BOOLEAN
  BY DEF Operands
<1>6. flags = {"ADDR"} => o.pre = "&"
  <2> SUFFICES ASSUME flags = {"ADDR"} PROVE o.pre = "&"
    OBVIOUS
  <2>1. "ADDR" \in flags /\ "PTR" \notin flags
    OBVIOUS
  <2> QED
    BY <1>3, <1>4, <2>1
<1>7. flags = {"BASE"} => o.pre = "" /\ ~o.inc
  <2> SUFFICES ASSUME flags = {"BASE"} PROVE o.pre = "" /\ ~o.inc
    OBVIOUS
  <2>1. "BASE" \in flags /\ "PTR" \notin flags /\ "POSTINC" \notin flags
    OBVIOUS
  <2> QED
    BY <1>3, <1>4, <1>5, <2>1
<1>8. flags = {"PTR", "ADDR"} => o.pre = "*&"
  <2> SUFFICES ASSUME flags = {"PTR", "ADDR"} PROVE o.pre = "*&"
    OBVIOUS
  <2>1. "ADDR" \in flags /\ "PTR" \in flags
    OBVIOUS
  <2> QED
    BY <1>3, <1>4, <2>1
<1>9. "PTR" \in flags => o.pre # "" /\ o.parts # <<>>
  BY <1>2, <1>3, <1>4
<1> QED
  BY <1>2, <1>4, <1>6, <1>7, <1>8, <1>9 DEF flags

(* An operand that is not a bit of a register.                             *)
NoBit(o) == \A r \in GetRegBit(o) : r.Type # "bit"

LEMMA NoBitBefore ==
    ASSUME NEW o \in Operands, o.parts = <<>> \/ o.pre # "" \/ o.parts[1].c # "R"
    PROVE  GetRegBit(o) = {} /\ GetReg(o) = {} /\ NoBit(o)
BY DEF GetRegBit, GetReg, GetRegister, NoBit

(* What a register operand says.                                           *)
LEMMA RegSays ==
    ASSUME NEW o \in Operands, NEW r \in GetReg(o)
    PROVE  /\ r.Type = "reg" /\ IsReg(r) /\ NoBit(o) /\ GetRegBit(o) = {r}
           /\ o.parts # <<>> /\ o.pre = ""
           /\ Says(o, "file") = <<4 * r.Value + FirstByte(r.Field)>>
           /\ Says(o, "base") = <<r.Value>>
           /\ \A s \in {"d", "x", "y", "n", "to"} : Says(o, s) = <<r.Value, r.Field>>
<1>1. /\ o.parts # <<>> /\ o.pre = "" /\ o.parts[1].c = "R" /\ IsReg(r)
      /\ r.Type = "reg" /\ GetRegBit(o) = {r}
  <2>1. r \in GetRegister(o, FALSE, "", FALSE)
    BY DEF GetReg
  <2>2. Built(o, FALSE, "", FALSE, r)
    BY <2>1, RegisterIs
  <2> QED
    BY <2>2 DEF Built, GetRegBit
<1>2. GetConstant(o) = {} /\ GetR0offset(o) = {}
  BY <1>1 DEF GetConstant, GetR0offset, Indexed
<1>3. (CHOOSE x \in GetRegBit(o) \cup GetConstant(o) \cup GetR0offset(o) : TRUE) = r
  BY <1>1, <1>2
<1> DEFINE it == CHOOSE x \in GetRegBit(o) \cup GetConstant(o) \cup GetR0offset(o) : TRUE
<1>4. \A s : Says(o, s)
               = CASE s = "file" -> <<4 * it.Value + FirstByte(it.Field)>>
                   [] s = "base" -> <<it.Value>>
                   [] s \in {"count", "xcount"} -> <<"r0", it.Value>>
                   [] OTHER -> <<it.Value, it.Field>>
  BY <1>1 DEF Says
<1> HIDE DEF it
<1>5. it = r
  BY <1>3 DEF it
<1>6. /\ Says(o, "file") = <<4 * r.Value + FirstByte(r.Field)>>
      /\ Says(o, "base") = <<r.Value>>
  BY <1>4, <1>5
<1>7. \A s \in {"d", "x", "y", "n", "to"} : Says(o, s) = <<r.Value, r.Field>>
  BY <1>4, <1>5
<1> QED
  BY <1>1, <1>6, <1>7 DEF NoBit

(* What an expression says.                                                *)
LEMMA ImSays ==
    ASSUME NEW o \in Operands, NEW low, NEW high, NEW v \in GetImValue(o, low, high)
    PROVE  /\ v = Imm(o.val) /\ v.Type = "imm" /\ v.Value = o.val
           /\ o.val \in low .. high
           /\ NoBit(o) /\ ~IsBase(o) /\ \A s : Says(o, s) = <<o.val>>
<1> DEFINE flags == CheckTokenType(o)
<1>1. /\ ~(flags = {} /\ o.parts # <<>>) /\ flags \in {{}, {"ADDR"}}
      /\ o.val \in low .. high /\ v = Imm(o.val)
  <2>1. GetImValue(o, low, high)
          = IF (flags = {} /\ o.parts # <<>>) \/ flags \notin {{}, {"ADDR"}}
               \/ o.val \notin low .. high
            THEN {} ELSE {Imm(o.val)}
    BY DEF GetImValue
  <2> HIDE DEF flags
  <2> QED
    BY <2>1
<1>2. o.parts = <<>> \/ o.pre = "&"
  BY <1>1, TokenIs
<1>3. ~IsBase(o)
  BY <1>1 DEF IsBase
<1>4. \A s : Says(o, s) = <<o.val>>
  BY <1>2 DEF Says
<1>5. v.Type = "imm" /\ v.Value = o.val
  BY <1>1 DEF Imm
<1> QED
  BY <1>1, <1>2, <1>3, <1>4, <1>5, NoBitBefore

(* A register or an expression, and what it says.                          *)
OpTold(o, high, y) ==
    /\ IsOp(y) /\ y.Type \in {"reg", "imm"} /\ NoBit(o)
    /\ y.Type = "imm" => y.Value \in 0 .. high /\ Says(o, "n") = <<y.Value>>
    /\ Says(o, "x") = Named(y) /\ Says(o, "y") = Named(y) /\ Says(o, "n") = Named(y)
    /\ high <= 127 => IsFile(y) /\ Says(o, "file") = <<ByteOf(y)>>

LEMMA OperandSays ==
    ASSUME opBig \in BOOLEAN, NEW o \in Operands, NEW high \in 0 .. 255,
           NEW y \in RegOrIm(o, high)
    PROVE  OpTold(o, high, y)
<1>1. CASE IsBase(o)
  <2>1. y \in GetReg(o)
    BY <1>1 DEF RegOrIm
  <2>2. /\ y.Type = "reg" /\ IsReg(y) /\ NoBit(o)
        /\ Says(o, "file") = <<4 * y.Value + FirstByte(y.Field)>>
        /\ \A s \in {"d", "x", "y", "n", "to"} : Says(o, s) = <<y.Value, y.Field>>
    BY <2>1, RegSays
  <2> QED
    BY <2>2 DEF OpTold, IsOp, Named, IsFile, ByteOf
<1>2. CASE ~IsBase(o)
  <2>1. y \in GetImValue(o, 0, high)
    BY <1>2 DEF RegOrIm
  <2>2. /\ y.Type = "imm" /\ y.Value = o.val /\ o.val \in 0 .. high
        /\ NoBit(o) /\ \A s : Says(o, s) = <<o.val>>
    BY <2>1, ImSays
  <2>3. y.Value \in 0 .. 255 /\ (high <= 127 => y.Value \in 0 .. 127)
    BY <2>2, SMT
  <2> QED
    BY <2>2, <2>3 DEF OpTold, IsOp, Named, IsFile, ByteOf
<1> QED
  BY <1>1, <1>2

LEMMA ToSays ==
    ASSUME NEW o \in Operands, NEW high, \A v \in 0 .. high : Fits(v, 16),
           NEW y \in RegOrIm(o, high)
    PROVE  IsTo(y) /\ NoBit(o) /\ Says(o, "to") = Named(y)
<1>1. CASE IsBase(o)
  <2>1. y \in GetReg(o)
    BY <1>1 DEF RegOrIm
  <2>2. /\ y.Type = "reg" /\ IsReg(y) /\ NoBit(o)
        /\ \A s \in {"d", "x", "y", "n", "to"} : Says(o, s) = <<y.Value, y.Field>>
    BY <2>1, RegSays
  <2> QED
    BY <2>2 DEF IsTo, Named
<1>2. CASE ~IsBase(o)
  <2>1. y \in GetImValue(o, 0, high)
    BY <1>2 DEF RegOrIm
  <2>2. /\ y.Type = "imm" /\ y.Value = o.val /\ o.val \in 0 .. high
        /\ NoBit(o) /\ \A s : Says(o, s) = <<o.val>>
    BY <2>1, ImSays
  <2>4. Fits(y.Value, 16)
    BY <2>2
  <2> QED
    BY <2>2, <2>4 DEF IsTo, Named
<1> QED
  BY <1>1, <1>2

(* A register or a constant has a letter and a number.                     *)
LEMMA OnePart ==
    ASSUME NEW o \in Operands, Len(o.parts) = 1
    PROVE  o.parts # <<>> /\ o.parts[1].n \in Nat
<1>1. o.parts \in Seq(Parts)
  BY DEF Operands, Parts
<1> DEFINE s == o.parts
<1> HIDE DEF s
<1>2. s \in Seq(Parts) /\ Len(s) = 1
  BY <1>1 DEF s
<1>3. s[1] \in Parts /\ s # <<>>
  BY <1>2
<1>4. \A p \in Parts : p.n \in Nat
  BY DEF Parts
<1> QED
  BY <1>3, <1>4 DEF s

(* The constants C0 .. C31, and the counts in R0.b0 .. R0.b3.              *)
LEMMA ConstantSays ==
    ASSUME NEW o \in Operands, NEW c \in GetConstant(o)
    PROVE  c.Value \in 0 .. 31 /\ NoBit(o) /\ Says(o, "base") = <<c.Value>>
<1>1. /\ Len(o.parts) = 1 /\ o.pre = "" /\ o.parts[1].c = "C" /\ o.parts[1].n <= 31
      /\ c = [Type |-> "const", Value |-> o.parts[1].n, Field |-> 0, Bit |-> 0]
      /\ GetConstant(o) = {c}
  BY DEF GetConstant, Indexed
<1>2. o.parts # <<>> /\ o.parts[1].n \in Nat
  BY <1>1, OnePart
<1>3. GetRegBit(o) = {} /\ NoBit(o) /\ GetR0offset(o) = {}
  <2>1. GetRegBit(o) = {} /\ NoBit(o)
    BY <1>1, NoBitBefore
  <2> QED
    BY <1>1, <2>1 DEF GetR0offset, Indexed
<1>4. (CHOOSE x \in GetRegBit(o) \cup GetConstant(o) \cup GetR0offset(o) : TRUE) = c
  BY <1>1, <1>3
<1>5. Says(o, "base") = <<c.Value>>
  BY <1>1, <1>2, <1>4 DEF Says
<1>6. c.Value \in 0 .. 31
  <2>1. c.Value = o.parts[1].n /\ o.parts[1].n <= 31
    BY <1>1
  <2> DEFINE n == o.parts[1].n
  <2> HIDE DEF n
  <2>2. n \in Nat /\ n <= 31 /\ c.Value = n
    BY <1>2, <2>1 DEF n
  <2> QED
    BY <2>2
<1> QED
  BY <1>3, <1>5, <1>6

LEMMA R0Says ==
    ASSUME NEW o \in Operands, NEW c \in GetR0offset(o)
    PROVE  /\ c.Type = "r0" /\ c.Value \in 0 .. 3 /\ NoBit(o)
           /\ \A s \in {"count", "xcount"} : Says(o, s) = <<"r0", c.Value>>
<1>1. /\ Len(o.parts) = 1 /\ o.pre = "" /\ o.parts[1].c = "B" /\ o.parts[1].n <= 3
      /\ c = [Type |-> "r0", Value |-> o.parts[1].n, Field |-> 0, Bit |-> 0]
      /\ GetR0offset(o) = {c}
  BY DEF GetR0offset, Indexed
<1>2. o.parts # <<>> /\ o.parts[1].n \in Nat
  BY <1>1, OnePart
<1>3. GetRegBit(o) = {} /\ NoBit(o) /\ GetConstant(o) = {}
  <2>1. GetRegBit(o) = {} /\ NoBit(o)
    BY <1>1, NoBitBefore
  <2> QED
    BY <1>1, <2>1 DEF GetConstant, Indexed
<1>4. (CHOOSE x \in GetRegBit(o) \cup GetConstant(o) \cup GetR0offset(o) : TRUE) = c
  BY <1>1, <1>3
<1>5. \A s \in {"count", "xcount"} : Says(o, s) = <<"r0", c.Value>>
  BY <1>1, <1>2, <1>4 DEF Says
<1>6. c.Type = "r0" /\ c.Value \in 0 .. 3
  <2>1. c.Type = "r0" /\ c.Value = o.parts[1].n /\ o.parts[1].n <= 3
    BY <1>1
  <2> DEFINE n == o.parts[1].n
  <2> HIDE DEF n
  <2>2. n \in Nat /\ n <= 3 /\ c.Value = n
    BY <1>2, <2>1 DEF n
  <2> QED
    BY <2>1, <2>2
<1> QED
  BY <1>3, <1>5, <1>6

LEMMA CountSays ==
    ASSUME NEW o \in Operands, NEW n \in CountOrR0(o)
    PROVE  /\ BurstCount(n) \in 0 .. 127 /\ NoBit(o)
           /\ \A s \in {"count", "xcount"} : Says(o, s) = CountOf(BurstCount(n))
<1>1. CASE IsBase(o)
  <2>1. n \in GetR0offset(o)
    BY <1>1 DEF CountOrR0
  <2>2. /\ n.Type = "r0" /\ n.Value \in 0 .. 3 /\ NoBit(o)
        /\ \A s \in {"count", "xcount"} : Says(o, s) = <<"r0", n.Value>>
    BY <2>1, R0Says
  <2>3. BurstCount(n) = n.Value + 124
    BY <2>2 DEF BurstCount
  <2>4. BurstCount(n) \in 0 .. 127 /\ CountOf(BurstCount(n)) = <<"r0", n.Value>>
    BY <2>2, <2>3, SMT DEF CountOf
  <2> QED
    BY <2>2, <2>4
<1>2. CASE ~IsBase(o)
  <2>1. n \in GetImValue(o, 1, 124)
    BY <1>2 DEF CountOrR0
  <2>2. /\ n.Type = "imm" /\ n.Value = o.val /\ o.val \in 1 .. 124
        /\ NoBit(o) /\ \A s : Says(o, s) = <<o.val>>
    BY <2>1, ImSays
  <2>3. BurstCount(n) = n.Value - 1
    BY <2>2 DEF BurstCount
  <2>4. BurstCount(n) \in 0 .. 127 /\ CountOf(BurstCount(n)) = <<o.val>>
    BY <2>2, <2>3, SMT DEF CountOf
  <2> QED
    BY <2>2, <2>4
<1> QED
  BY <1>1, <1>2

(* How far a branch or a loop goes, in the second pass.                    *)
LEMMA DistanceSays ==
    ASSUME opPass = 2, opOffset \in Nat, NEW o \in Operands, NEW low, NEW high,
           NEW off \in Distance(o, low, high)
    PROVE  /\ off.Value = o.val - opOffset /\ off.Value \in low .. high
           /\ NoBit(o) /\ \A s : Says(o, s) = <<opOffset + off.Value>>
<1>1. /\ o.parts = <<>> /\ o.val - opOffset \in low .. high
      /\ off = [Imm(o.val - opOffset) EXCEPT !.Type = "offset"]
  BY DEF Distance
<1>2. off.Value = o.val - opOffset
  BY <1>1 DEF Imm
<1>3. o.val \in Int
  BY DEF Operands
<1>4. o.val = opOffset + off.Value
  BY <1>2, <1>3
<1>5. \A s : Says(o, s) = <<o.val>>
  BY <1>1 DEF Says
<1> QED
  BY <1>1, <1>2, <1>4, <1>5, NoBitBefore

(* A bit of a register.                                                    *)
LEMMA BitSays ==
    ASSUME NEW o \in Operands, NEW r \in GetRegBit(o)
    PROVE  /\ IsReg(r) /\ GetRegBit(o) = {r}
           /\ \/ r.Type = "reg" /\ r \in GetReg(o)
              \/ r.Type = "bit" /\ r.Bit \in 0 .. 31
<1>1. r \in GetRegister(o, TRUE, "", FALSE)
  BY DEF GetRegBit
<1>2. Built(o, TRUE, "", FALSE, r)
  BY <1>1, RegisterIs
<1> QED
  BY <1>2 DEF Built, GetRegBit, GetReg
-----------------------------------------------------------------------------
(* PasmOp: the instructions                                                *)

LEMMA SlotsAre ==
    /\ \A op \in BitOps \cup AluOps : Slots(op) = <<"d", "x", "y">>
    /\ \A op \in (BranchOps \cup BitTestOps) \ {"QBA", "WBC", "WBS"} :
          Slots(op) = <<"off", "x", "y">>
    /\ \A op \in BurstOps : Slots(op) = <<"file", "base", "y", "count">>
    /\ \A op \in XfrOps : Slots(op) = <<"device", "file", "xcount">>
    /\ \A op \in {"FILL", "ZERO"} : Slots(op) = <<"file", "xcount">>
    /\ \A op \in {"LOOP", "ILOOP"} : Slots(op) = <<"loop", "n">>
    /\ \A op \in {"WBS", "WBC"} : Slots(op) = <<"x", "y">>
    /\ Slots("QBA") = <<"off">> /\ Slots("LDI") = <<"d", "value">>
    /\ Slots("LFC") = <<"d", "c">> /\ Slots("STC") = <<"d", "c", "y">>
    /\ Slots("JAL") = <<"d", "to">> /\ Slots("JMP") = <<"to">>
    /\ Slots("CALL") = <<"to">>
    /\ \A op \in {"MOV", "SCAN", "RET", "HALT", "SLP"} \cup MviOps : Slots(op) = <<>>
<1> USE DEF BitOps, AluOps, NopOps, BranchOps, BitTestOps, BurstOps, XfrOps, MviOps
<1>1. /\ DOMAIN AluCode = BitOps \cup AluOps \cup {"SCAN"}
      /\ DOMAIN QbCode = BranchOps \cup BitTestOps
  BY CodesAre
<1>2. \A op \in BitOps \cup AluOps : Slots(op) = <<"d", "x", "y">>
  BY <1>1 DEF Slots
<1>3. \A op \in (BranchOps \cup BitTestOps) \ {"QBA", "WBC", "WBS"} :
          Slots(op) = <<"off", "x", "y">>
  BY <1>1 DEF Slots
<1>4. /\ \A op \in BurstOps : Slots(op) = <<"file", "base", "y", "count">>
      /\ \A op \in XfrOps : Slots(op) = <<"device", "file", "xcount">>
  BY <1>1 DEF Slots
<1>5. /\ \A op \in {"FILL", "ZERO"} : Slots(op) = <<"file", "xcount">>
      /\ \A op \in {"LOOP", "ILOOP"} : Slots(op) = <<"loop", "n">>
      /\ \A op \in {"WBS", "WBC"} : Slots(op) = <<"x", "y">>
  BY <1>1 DEF Slots
<1>6. /\ Slots("QBA") = <<"off">> /\ Slots("LDI") = <<"d", "value">>
      /\ Slots("LFC") = <<"d", "c">> /\ Slots("STC") = <<"d", "c", "y">>
  BY <1>1 DEF Slots
<1>7. /\ Slots("JAL") = <<"d", "to">> /\ Slots("JMP") = <<"to">>
      /\ Slots("CALL") = <<"to">>
  BY <1>1 DEF Slots
<1>8. \A op \in {"MOV", "SCAN", "RET", "HALT", "SLP"} \cup MviOps : Slots(op) = <<>>
  BY <1>1 DEF Slots
<1> QED
  BY <1>2, <1>3, <1>4, <1>5, <1>6, <1>7, <1>8

(* A word that does what the instruction says.                             *)
Right(op, a, w) ==
    /\ Operation(w) \cap Spelled(op) # {}
    /\ Len(a) = Len(Slots(op)) /\ "LDI" \notin Spelled(op) \ {op}
         => \A i \in 1 .. Len(a) : Slot(w, Slots(op)[i]) = Says(a[i], Slots(op)[i])
    /\ \A i \in 1 .. Len(a) : \A r \in GetRegBit(a[i]) :
          r.Type = "bit" => Slot(w, "y") = <<r.Bit>>

Running == opCore \in 0 .. 3 /\ opBig \in BOOLEAN /\ opPass = 2 /\ opOffset \in Nat

(* Three operands, none of them a bit.                                     *)
LEMMA ArgsIn ==
    ASSUME NEW a \in Seq(Operands)
    PROVE  /\ \A i \in 1 .. Len(a) : a[i] \in Operands
           /\ Len(a) = 1 => \A i \in 1 .. Len(a) : i = 1
           /\ Len(a) = 2 => \A i \in 1 .. Len(a) : i = 1 \/ i = 2
           /\ Len(a) = 3 => \A i \in 1 .. Len(a) : i = 1 \/ i = 2 \/ i = 3
           /\ Len(a) = 4 => \A i \in 1 .. Len(a) : i = 1 \/ i = 2 \/ i = 3 \/ i = 4
           /\ Len(a) \in 1 .. 4 => a[1] \in Operands
           /\ Len(a) \in 2 .. 4 => a[2] \in Operands
           /\ Len(a) \in 3 .. 4 => a[3] \in Operands
           /\ Len(a) = 4 => a[4] \in Operands
           /\ 1 \in 1 .. 4 /\ 2 \in 1 .. 4 /\ 3 \in 1 .. 4 /\ 4 \in 1 .. 4
           /\ 2 \in 2 .. 4 /\ 3 \in 2 .. 4 /\ 4 \in 2 .. 4
           /\ 3 \in 3 .. 4 /\ 4 \in 3 .. 4
<1>1. Len(a) \in Nat /\ \A i \in 1 .. Len(a) : a[i] \in Operands
  OBVIOUS
<1>2. \A i \in 1 .. Len(a) : i \in Int /\ i >= 1 /\ i <= Len(a)
  BY <1>1
<1>3. /\ Len(a) \in 1 .. 4 => 1 \in 1 .. Len(a)
      /\ Len(a) \in 2 .. 4 => 2 \in 1 .. Len(a)
      /\ Len(a) \in 3 .. 4 => 3 \in 1 .. Len(a)
      /\ Len(a) = 4 => 4 \in 1 .. Len(a)
  <2> DEFINE n == Len(a)
  <2>1. n \in Nat
    BY <1>1
  <2> HIDE DEF n
  <2>2. n \in 1 .. 4 => 1 \in 1 .. n
    BY <2>1
  <2>3. n \in 2 .. 4 => 2 \in 1 .. n
    BY <2>1
  <2>4. n \in 3 .. 4 => 3 \in 1 .. n
    BY <2>1
  <2> QED
    BY <1>1, <2>2, <2>3, <2>4 DEF n
<1>4. /\ 1 \in 1 .. 4 /\ 2 \in 1 .. 4 /\ 3 \in 1 .. 4 /\ 4 \in 1 .. 4
      /\ 2 \in 2 .. 4 /\ 3 \in 2 .. 4 /\ 4 \in 2 .. 4
      /\ 3 \in 3 .. 4 /\ 4 \in 3 .. 4
  OBVIOUS
<1> QED
  BY <1>1, <1>2, <1>3, <1>4

(* What most instructions are spelled with, and their three operands.      *)
LEMMA SpelledIs ==
    /\ \A op \in BitOps \cup AluOps \cup BranchOps \cup BitTestOps \cup BurstOps
                \cup XfrOps \cup JumpOps \cup {"HALT", "SLP", "FILL", "LFC", "STC",
                "LOOP", "ILOOP", "LDI", "SCAN"} : Spelled(op) = {op}
    /\ \A op \in BitOps \cup AluOps : Len(Slots(op)) = 3
<1>1. \A op : op \notin {"MOV", "ZERO"} \cup MviOps => Spelled(op) = {op}
  BY DEF Spelled, MviOps
<1>2. \A op \in BitOps \cup AluOps : Len(Slots(op)) = 3
  <2>1. \A op \in BitOps \cup AluOps : Slots(op) = <<"d", "x", "y">>
    BY SlotsAre
  <2>2. Len(<<"d", "x", "y">>) = 3
    OBVIOUS
  <2> QED
    BY <2>1, <2>2
<1> QED
  BY <1>1, <1>2 DEF BitOps, AluOps, NopOps, MviOps, BranchOps, BitTestOps, BurstOps, XfrOps,
                    JumpOps

LEMMA ParsedRight ==
    ASSUME Running, NEW op \in BitOps \cup AluOps, op \in NopOps => opCore # 0,
           NEW a \in Seq(Operands), Len(a) = 3, NEW ws \in Parsed(op, a)
    PROVE  Right(op, a, ws[1])
<1>1. a[1] \in Operands /\ a[2] \in Operands /\ a[3] \in Operands
  BY ArgsIn
<1>2. PICK d \in GetReg(a[1]), x \in GetReg(a[2]), y \in RegOrIm(a[3], 255) :
        ws = <<Arithmetic(op, d, x, y)>>
  BY DEF Parsed
<1> DEFINE w == Arithmetic(op, d, x, y)
<1>3. ws[1] = w
  BY <1>2
<1>4. /\ IsReg(d) /\ NoBit(a[1]) /\ Says(a[1], "d") = <<d.Value, d.Field>>
      /\ IsReg(x) /\ NoBit(a[2]) /\ Says(a[2], "x") = <<x.Value, x.Field>>
  BY <1>1, <1>2, RegSays
<1>5. IsOp(y) /\ NoBit(a[3]) /\ Says(a[3], "y") = Named(y)
  <2>1. 255 \in 0 .. 255 /\ opBig \in BOOLEAN
    BY DEF Running
  <2>2. OpTold(a[3], 255, y)
    BY <1>1, <1>2, <2>1, OperandSays
  <2> QED
    BY <2>2 DEF OpTold
<1>6. /\ op \in Operation(w) /\ Slot(w, "d") = <<d.Value, d.Field>>
      /\ Slot(w, "x") = <<x.Value, x.Field>> /\ Slot(w, "y") = Named(y)
  <2>1. op \in DOMAIN AluCode
    BY CodesAre
  <2> QED
    BY <1>4, <1>5, <2>1, ArithmeticSays
<1>7. Slots(op) = <<"d", "x", "y">> /\ Spelled(op) = {op}
  BY SlotsAre, SpelledIs
<1> HIDE DEF w
<1>8. \A i \in 1 .. Len(a) : i = 1 \/ i = 2 \/ i = 3
  BY ArgsIn
<1>9. \A i \in 1 .. Len(a) : NoBit(a[i])
  BY <1>4, <1>5, <1>8
<1>10. \A i \in 1 .. Len(a) : Slot(w, Slots(op)[i]) = Says(a[i], Slots(op)[i])
  BY <1>4, <1>5, <1>6, <1>7, <1>8
<1> QED
  BY <1>3, <1>6, <1>7, <1>9, <1>10 DEF Right, NoBit

LEMMA AluRight ==
    ASSUME Running, NEW op \in AluOps, NEW a \in Seq(Operands),
           NEW ws \in ProcessAlu(op, a)
    PROVE  Right(op, a, ws[1])
<1>1. op \in NopOps => opCore # 0
  <2> SUFFICES ASSUME op \in NopOps, opCore = 0 PROVE FALSE
    OBVIOUS
  <2>1. opCore < 3
    OBVIOUS
  <2> QED
    BY <2>1 DEF ProcessAlu
<1>2. CASE Len(a) = 3
  <2>1. ws \in Parsed(op, a)
    BY <1>2 DEF ProcessAlu
  <2> QED
    BY <1>1, <1>2, <2>1, ParsedRight
<1>3. CASE Len(a) # 3
  <2>1. /\ op = "NOT" /\ Len(a) = 2
        /\ \E d \in GetReg(a[1]), x \in GetReg(a[2]) : ws = <<Arithmetic(op, d, x, Imm(0))>>
    BY <1>3 DEF ProcessAlu
  <2>2. PICK d \in GetReg(a[1]), x \in GetReg(a[2]) :
          ws = <<Arithmetic(op, d, x, Imm(0))>>
    BY <2>1
  <2>3. a[1] \in Operands /\ a[2] \in Operands /\ \A i \in 1 .. Len(a) : i = 1 \/ i = 2
    BY <2>1, ArgsIn
  <2>4. IsReg(d) /\ NoBit(a[1]) /\ IsReg(x) /\ NoBit(a[2])
    BY <2>2, <2>3, RegSays
  <2>5. IsOp(Imm(0))
    BY DEF IsOp, Imm
  <2>6. op \in DOMAIN AluCode
    BY CodesAre
  <2>7. op \in Operation(ws[1])
    BY <1>1, <2>2, <2>4, <2>5, <2>6, ArithmeticSays
  <2>8. Spelled(op) = {op} /\ Len(Slots(op)) = 3
    BY SpelledIs
  <2>9. \A i \in 1 .. Len(a) : NoBit(a[i])
    BY <2>3, <2>4
  <2> QED
    BY <1>3, <2>7, <2>8, <2>9 DEF Right, NoBit
<1> QED
  BY <1>2, <1>3

(* A bit, as the last operand of a word.                                   *)
LEMMA BitImm ==
    ASSUME NEW b \in 0 .. 31
    PROVE  IsOp(Imm(b)) /\ Named(Imm(b)) = <<b>>
<1>1. b \in 0 .. 255
  BY SMT
<1> QED
  BY <1>1 DEF IsOp, Imm, Named

LEMMA BitRight ==
    ASSUME Running, NEW op \in BitOps, NEW a \in Seq(Operands),
           NEW ws \in ProcessBit(op, a)
    PROVE  Right(op, a, ws[1])
<1>1. /\ op \in DOMAIN AluCode /\ op \notin NopOps
      /\ Spelled(op) = {op} /\ Len(Slots(op)) = 3
  BY CodesAre, SpelledIs DEF BitOps, NopOps
<1>2. CASE Len(a) = 3
  <2>1. ws \in Parsed(op, a)
    BY <1>2 DEF ProcessBit
  <2> QED
    BY <1>1, <1>2, <2>1, ParsedRight
<1>3. CASE Len(a) = 1
  <2>1. ws \in {<<Arithmetic(op, d, d, Imm(d.Bit))>> :
                   d \in {x \in GetRegBit(a[1]) : x.Type = "bit"}}
    BY <1>3 DEF ProcessBit
  <2>2. PICK d \in GetRegBit(a[1]) :
          d.Type = "bit" /\ ws = <<Arithmetic(op, d, d, Imm(d.Bit))>>
    BY <2>1
  <2>3. a[1] \in Operands /\ \A i \in 1 .. Len(a) : i = 1
    BY <1>3, ArgsIn
  <2>4. IsReg(d) /\ GetRegBit(a[1]) = {d} /\ d.Bit \in 0 .. 31
    BY <2>2, <2>3, BitSays
  <2>5. op \in Operation(ws[1]) /\ Slot(ws[1], "y") = <<d.Bit>>
    <3>1. IsOp(Imm(d.Bit)) /\ Named(Imm(d.Bit)) = <<d.Bit>>
      BY <2>4, BitImm
    <3>2. ws[1] = Arithmetic(op, d, d, Imm(d.Bit))
      BY <2>2
    <3> QED
      BY <1>1, <2>4, <3>1, <3>2, ArithmeticSays
  <2>6. \A i \in 1 .. Len(a) : \A r \in GetRegBit(a[i]) : Slot(ws[1], "y") = <<r.Bit>>
    BY <2>3, <2>4, <2>5
  <2> QED
    BY <1>1, <1>3, <2>5, <2>6 DEF Right
<1>4. CASE Len(a) = 2
  <2> DEFINE X == IF IsBase(a[2]) THEN GetRegBit(a[2]) ELSE GetImValue(a[2], 0, 31)
             W(d, x) == <<IF x.Type = "bit" THEN Arithmetic(op, d, x, Imm(x.Bit))
                          ELSE Arithmetic(op, d, d, x)>>
  <2>1. ws \in {W(d, x) : d \in GetReg(a[1]), x \in X}
    BY <1>4 DEF ProcessBit
  <2>2. PICK d \in GetReg(a[1]), x \in X : ws = W(d, x)
    BY <2>1
  <2>3. a[1] \in Operands /\ a[2] \in Operands /\ \A i \in 1 .. Len(a) : i = 1 \/ i = 2
    BY <1>4, ArgsIn
  <2>4. IsReg(d) /\ NoBit(a[1])
    BY <2>2, <2>3, RegSays
  <2>5. CASE IsBase(a[2]) /\ x.Type = "bit"
    <3>1. IsReg(x) /\ GetRegBit(a[2]) = {x} /\ x.Bit \in 0 .. 31
      BY <2>2, <2>3, <2>5, BitSays
    <3>2. ws[1] = Arithmetic(op, d, x, Imm(x.Bit))
      BY <2>2, <2>5
    <3>3. op \in Operation(ws[1]) /\ Slot(ws[1], "y") = <<x.Bit>>
      <4>1. IsOp(Imm(x.Bit)) /\ Named(Imm(x.Bit)) = <<x.Bit>>
        BY <3>1, BitImm
      <4> QED
        BY <1>1, <2>4, <3>1, <3>2, <4>1, ArithmeticSays
    <3>4. \A i \in 1 .. Len(a) : \A r \in GetRegBit(a[i]) :
             r.Type = "bit" => Slot(ws[1], "y") = <<r.Bit>>
      BY <2>3, <2>4, <3>1, <3>3 DEF NoBit
    <3> QED
      BY <1>1, <1>4, <3>3, <3>4 DEF Right
  <2>6. CASE ~(IsBase(a[2]) /\ x.Type = "bit")
    <3>1. NoBit(a[2]) /\ IsOp(x) /\ x.Type # "bit"
      <4>1. CASE IsBase(a[2])
        <5>1. x \in GetRegBit(a[2]) /\ x.Type = "reg" /\ IsReg(x)
              /\ GetRegBit(a[2]) = {x}
          BY <2>2, <2>3, <2>6, <4>1, BitSays
        <5> QED
          BY <5>1 DEF NoBit, IsOp
      <4>2. CASE ~IsBase(a[2])
        <5> DEFINE top == 31
        <5>0. x \in GetImValue(a[2], 0, top)
          BY <2>2, <4>2
        <5>3. \A v \in 0 .. top : v \in 0 .. 255
          OBVIOUS
        <5> HIDE DEF top
        <5>1. /\ x.Type = "imm" /\ x.Value = a[2].val /\ a[2].val \in 0 .. top
              /\ NoBit(a[2])
          BY <2>3, <5>0, ImSays
        <5>2. x.Value \in 0 .. 255
          BY <5>1, <5>3
        <5> QED
          BY <5>1, <5>2 DEF IsOp
      <4> QED
        BY <4>1, <4>2
    <3>2. ws[1] = Arithmetic(op, d, d, x)
      BY <2>2, <3>1
    <3>3. op \in Operation(ws[1])
      BY <1>1, <2>4, <3>1, <3>2, ArithmeticSays
    <3>4. \A i \in 1 .. Len(a) : NoBit(a[i])
      BY <2>3, <2>4, <3>1
    <3> QED
      BY <1>1, <1>4, <3>3, <3>4 DEF Right, NoBit
  <2> QED
    BY <2>5, <2>6
<1>5. Len(a) \in 1 .. 3
  <2>1. ASSUME Len(a) # 3, Len(a) # 1, Len(a) # 2 PROVE ProcessBit(op, a) = {}
    BY <2>1 DEF ProcessBit
  <2> QED
    BY <2>1
<1> QED
  BY <1>2, <1>3, <1>4, <1>5
LEMMA BurstRight ==
    ASSUME Running, NEW op \in BurstOps, NEW a \in Seq(Operands),
           NEW ws \in ProcessBurst(op, a)
    PROVE  Right(op, a, ws[1])
<1>1. Len(a) = 4
  BY DEF ProcessBurst
<1>2. /\ a[1] \in Operands /\ a[2] \in Operands /\ a[3] \in Operands
      /\ a[4] \in Operands
      /\ \A i \in 1 .. Len(a) : i = 1 \/ i = 2 \/ i = 3 \/ i = 4
  BY <1>1, ArgsIn
<1> DEFINE X == IF op \in {"LBBO", "SBBO"} THEN {r \in GetReg(a[2]) : r.Field = 7}
                ELSE GetConstant(a[2])
<1>3. ws \in {<<BurstWord(op, d, x.Value, y, BurstCount(n))>> :
                d \in RegOrIm(a[1], 127), x \in X, y \in RegOrIm(a[3], 255),
                n \in CountOrR0(a[4])}
  BY <1>1 DEF ProcessBurst, BurstWord
<1>4. PICK d \in RegOrIm(a[1], 127), x \in X, y \in RegOrIm(a[3], 255),
           n \in CountOrR0(a[4]) : ws = <<BurstWord(op, d, x.Value, y, BurstCount(n))>>
  BY <1>3
<1>5. IsFile(d) /\ NoBit(a[1]) /\ Says(a[1], "file") = <<ByteOf(d)>>
  <2>1. 127 \in 0 .. 255 /\ 127 <= 127 /\ opBig \in BOOLEAN
    BY DEF Running
  <2>2. OpTold(a[1], 127, d)
    BY <1>2, <1>4, <2>1, OperandSays
  <2> QED
    BY <2>1, <2>2 DEF OpTold
<1>6. x.Value \in 0 .. 31 /\ NoBit(a[2]) /\ Says(a[2], "base") = <<x.Value>>
  <2>1. CASE op \in {"LBBO", "SBBO"}
    BY <1>2, <1>4, <2>1, RegSays DEF IsReg
  <2>2. CASE op \notin {"LBBO", "SBBO"}
    BY <1>2, <1>4, <2>2, ConstantSays
  <2> QED
    BY <2>1, <2>2
<1>7. IsOp(y) /\ NoBit(a[3]) /\ Says(a[3], "y") = Named(y)
  <2>1. 255 \in 0 .. 255 /\ opBig \in BOOLEAN
    BY DEF Running
  <2>2. OpTold(a[3], 255, y)
    BY <1>2, <1>4, <2>1, OperandSays
  <2> QED
    BY <2>2 DEF OpTold
<1>8. /\ BurstCount(n) \in 0 .. 127 /\ NoBit(a[4])
      /\ Says(a[4], "count") = CountOf(BurstCount(n))
  BY <1>2, <1>4, CountSays
<1> DEFINE w == ws[1]
<1>9. w = BurstWord(op, d, x.Value, y, BurstCount(n))
  BY <1>4
<1> HIDE DEF w
<1>10. /\ op \in Operation(w) /\ Slot(w, "file") = <<ByteOf(d)>>
       /\ Slot(w, "base") = <<x.Value>> /\ Slot(w, "y") = Named(y)
       /\ Slot(w, "count") = CountOf(BurstCount(n))
  <2>1. opBig \in BOOLEAN
    BY DEF Running
  <2>2. PICK b \in 0 .. 31, c \in 0 .. 127 : b = x.Value /\ c = BurstCount(n)
    BY <1>6, <1>8
  <2>3. w = BurstWord(op, d, b, y, c)
    BY <1>9, <2>2
  <2>4. BurstTold(op, d, b, y, c, w)
    BY <1>5, <1>7, <2>1, <2>3, BurstSays
  <2> QED
    BY <2>2, <2>4 DEF BurstTold
<1>11. Slots(op) = <<"file", "base", "y", "count">> /\ Spelled(op) = {op}
  BY SlotsAre, SpelledIs
<1>12. \A i \in 1 .. Len(a) : NoBit(a[i])
  BY <1>2, <1>5, <1>6, <1>7, <1>8
<1>13. \A i \in 1 .. Len(a) : Slot(w, Slots(op)[i]) = Says(a[i], Slots(op)[i])
  BY <1>2, <1>5, <1>6, <1>7, <1>8, <1>10, <1>11
<1> QED
  BY <1>10, <1>11, <1>12, <1>13 DEF Right, NoBit, w

LEMMA XfrRight ==
    ASSUME Running, NEW op \in XfrOps, NEW a \in Seq(Operands),
           NEW ws \in ProcessXfr(op, a)
    PROVE  Right(op, a, ws[1])
<1> DEFINE top == 253
           D == {x \in RegOrIm(a[2], 123) : ~(IsBase(a[2]) /\ x.Value = 31)}
<1>0. \A v \in 0 .. top : v \in 0 .. 255 /\ v < 254
  OBVIOUS
<1>1. /\ Len(a) = 3
      /\ ws \in {<<Xfr(op, i.Value, d, BurstCount(n))>> :
                   i \in GetImValue(a[1], 0, top), d \in D, n \in CountOrR0(a[3])}
  BY DEF ProcessXfr
<1> HIDE DEF top
<1>2. /\ a[1] \in Operands /\ a[2] \in Operands /\ a[3] \in Operands
      /\ \A i \in 1 .. Len(a) : i = 1 \/ i = 2 \/ i = 3
  BY <1>1, ArgsIn
<1>3. PICK v \in GetImValue(a[1], 0, top), d \in D, n \in CountOrR0(a[3]) :
        ws = <<Xfr(op, v.Value, d, BurstCount(n))>>
  BY <1>1
<1>4. /\ v.Value \in 0 .. 255 /\ v.Value < 254 /\ NoBit(a[1])
      /\ Says(a[1], "device") = <<v.Value>>
  <2>1. /\ v.Value = a[1].val /\ a[1].val \in 0 .. top /\ NoBit(a[1])
        /\ Says(a[1], "device") = <<a[1].val>>
    BY <1>2, <1>3, ImSays
  <2> QED
    BY <1>0, <2>1
<1>5. IsFile(d) /\ NoBit(a[2]) /\ Says(a[2], "file") = <<ByteOf(d)>>
  <2>1. 123 \in 0 .. 255 /\ 123 <= 127 /\ opBig \in BOOLEAN
    BY DEF Running
  <2>2. OpTold(a[2], 123, d)
    BY <1>2, <1>3, <2>1, OperandSays
  <2> QED
    BY <2>1, <2>2 DEF OpTold
<1>6. /\ BurstCount(n) \in 0 .. 127 /\ NoBit(a[3])
      /\ Says(a[3], "xcount") = CountOf(BurstCount(n))
  BY <1>2, <1>3, CountSays
<1> DEFINE w == ws[1]
<1>7. w = Xfr(op, v.Value, d, BurstCount(n))
  BY <1>3
<1> HIDE DEF w
<1>8. /\ op \in Operation(w) /\ Slot(w, "device") = <<v.Value>>
      /\ Slot(w, "file") = <<ByteOf(d)>>
      /\ Slot(w, "xcount") = CountOf(BurstCount(n))
  <2>1. opBig \in BOOLEAN
    BY DEF Running
  <2>2. PICK k \in 0 .. 255, c \in 0 .. 127 : k = v.Value /\ c = BurstCount(n)
    BY <1>4, <1>6
  <2>3. w = Xfr(op, k, d, c) /\ k < 254
    BY <1>4, <1>7, <2>2
  <2>4. XfrTold(op, k, d, c, w)
    BY <1>5, <2>1, <2>3, XfrSays
  <2> QED
    BY <2>2, <2>3, <2>4 DEF XfrTold
<1>9. Slots(op) = <<"device", "file", "xcount">> /\ Spelled(op) = {op}
  BY SlotsAre, SpelledIs
<1>10. \A i \in 1 .. Len(a) : NoBit(a[i])
  BY <1>2, <1>4, <1>5, <1>6
<1>11. \A i \in 1 .. Len(a) : Slot(w, Slots(op)[i]) = Says(a[i], Slots(op)[i])
  BY <1>2, <1>4, <1>5, <1>6, <1>8, <1>9
<1> QED
  BY <1>8, <1>9, <1>10, <1>11 DEF Right, NoBit, w

(* Where a branch goes.                                                    *)
LEMMA JmpOffsetSays ==
    ASSUME Running, NEW o \in Operands, NEW off \in GetJmpOffset(o)
    PROVE  /\ off.Value \in -512 .. 511 /\ opOffset \in Int /\ NoBit(o)
           /\ Says(o, "off") = <<opOffset + off.Value>>
<1> DEFINE low == -512
           high == 511
<1>1. off \in Distance(o, low, high)
  BY DEF GetJmpOffset
<1>2. \A v \in low .. high : v \in -512 .. 511
  OBVIOUS
<1> HIDE DEF low, high
<1>3. /\ off.Value \in low .. high /\ NoBit(o)
      /\ Says(o, "off") = <<opOffset + off.Value>>
  BY <1>1, DistanceSays DEF Running
<1>4. off.Value \in -512 .. 511
  BY <1>2, <1>3
<1>5. opOffset \in Int
  BY DEF Running
<1> QED
  BY <1>3, <1>4, <1>5

LEMMA BranchRight ==
    ASSUME Running, NEW op \in BranchOps, NEW a \in Seq(Operands),
           NEW ws \in ProcessBranch(op, a)
    PROVE  Right(op, a, ws[1])
<1>0. op \in BranchOps \cup BitTestOps /\ Spelled(op) = {op}
  BY SpelledIs
<1>1. CASE op = "QBA"
  <2>1. Len(a) = 1
    BY <1>1 DEF ProcessBranch
  <2>2. PICK off \in GetJmpOffset(a[1]) :
          ws = <<Sh(15, 27) \cup Apart(off.Value) \cup Bit(24)>>
    BY <1>1, <2>1 DEF ProcessBranch
  <2>3. a[1] \in Operands /\ \A i \in 1 .. Len(a) : i = 1
    BY <2>1, ArgsIn
  <2>4. /\ off.Value \in -512 .. 511 /\ opOffset \in Int /\ NoBit(a[1])
        /\ Says(a[1], "off") = <<opOffset + off.Value>>
    BY <2>2, <2>3, JmpOffsetSays
  <2>5. PICK k \in -512 .. 511 : k = off.Value
    BY <2>4
  <2> DEFINE w == ws[1]
  <2>6. w = Sh(15, 27) \cup Apart(k) \cup Bit(24)
    BY <2>2, <2>5
  <2> HIDE DEF w
  <2>7. "QBA" \in Operation(w) /\ Slot(w, "off") = <<opOffset + k>>
    BY <2>4, <2>6, QbaSays
  <2>8. Slots("QBA") = <<"off">>
    BY SlotsAre
  <2>9. \A i \in 1 .. Len(a) : Slot(w, Slots(op)[i]) = Says(a[i], Slots(op)[i])
    BY <1>1, <2>3, <2>4, <2>5, <2>7, <2>8
  <2>10. \A i \in 1 .. Len(a) : NoBit(a[i])
    BY <2>3, <2>4
  <2> QED
    BY <1>0, <1>1, <2>7, <2>9, <2>10 DEF Right, NoBit, w
<1>2. CASE op # "QBA"
  <2>1. Len(a) = 3
    BY <1>2 DEF ProcessBranch
  <2>2. PICK off \in GetJmpOffset(a[1]), x \in GetReg(a[2]), y \in RegOrIm(a[3], 255) :
          ws = <<Qb(op, off.Value, x, y)>>
    BY <1>2, <2>1 DEF ProcessBranch
  <2>3. /\ a[1] \in Operands /\ a[2] \in Operands /\ a[3] \in Operands
        /\ \A i \in 1 .. Len(a) : i = 1 \/ i = 2 \/ i = 3
    BY <2>1, ArgsIn
  <2>4. /\ off.Value \in -512 .. 511 /\ opOffset \in Int /\ NoBit(a[1])
        /\ Says(a[1], "off") = <<opOffset + off.Value>>
    BY <2>2, <2>3, JmpOffsetSays
  <2>5. PICK k \in -512 .. 511 : k = off.Value
    BY <2>4
  <2>6. IsReg(x) /\ NoBit(a[2]) /\ Says(a[2], "x") = <<x.Value, x.Field>>
    BY <2>2, <2>3, RegSays
  <2>7. IsOp(y) /\ NoBit(a[3]) /\ Says(a[3], "y") = Named(y)
    <3>1. 255 \in 0 .. 255 /\ opBig \in BOOLEAN
      BY DEF Running
    <3>2. OpTold(a[3], 255, y)
      BY <2>2, <2>3, <3>1, OperandSays
    <3> QED
      BY <3>2 DEF OpTold
  <2> DEFINE w == ws[1]
  <2>8. w = Qb(op, k, x, y)
    BY <2>2, <2>5
  <2> HIDE DEF w
  <2>9. QbTold(op, k, x, y, w)
    BY <1>0, <2>4, <2>6, <2>7, <2>8, QbSays
  <2>10. Slots(op) = <<"off", "x", "y">>
    <3>1. op \notin {"QBA", "WBC", "WBS"}
      BY <1>2 DEF BranchOps
    <3> QED
      BY <1>0, <3>1, SlotsAre
  <2>11. \A i \in 1 .. Len(a) : Slot(w, Slots(op)[i]) = Says(a[i], Slots(op)[i])
    BY <2>3, <2>4, <2>5, <2>6, <2>7, <2>9, <2>10 DEF QbTold
  <2>12. \A i \in 1 .. Len(a) : NoBit(a[i])
    BY <2>3, <2>4, <2>6, <2>7
  <2> QED
    BY <1>0, <2>9, <2>11, <2>12 DEF Right, NoBit, QbTold, w
<1> QED
  BY <1>1, <1>2

(* The bit that a test names, with its register or as the next operand.    *)
LEMMA TestedSays ==
    ASSUME Running, NEW b \in Seq(Operands), Len(b) \in 1 .. 2, NEW t \in Tested(b)
    PROVE  /\ IsReg(t[1]) /\ IsOp(t[2])
           /\ \A i \in 1 .. Len(b) : \A r \in GetRegBit(b[i]) :
                 r.Type = "bit" => Named(t[2]) = <<r.Bit>>
           /\ Len(b) = 2 => /\ Says(b[1], "x") = <<t[1].Value, t[1].Field>>
                            /\ Says(b[2], "y") = Named(t[2])
<1>1. CASE Len(b) = 1
  <2>1. PICK x \in GetRegBit(b[1]) : x.Type = "bit" /\ t = <<x, Imm(x.Bit)>>
    BY <1>1 DEF Tested
  <2>2. b[1] \in Operands /\ \A i \in 1 .. Len(b) : i = 1
    BY <1>1, ArgsIn
  <2>3. IsReg(x) /\ GetRegBit(b[1]) = {x} /\ x.Bit \in 0 .. 31
    BY <2>1, <2>2, BitSays
  <2>4. IsOp(Imm(x.Bit)) /\ Named(Imm(x.Bit)) = <<x.Bit>>
    BY <2>3, BitImm
  <2> QED
    BY <1>1, <2>1, <2>2, <2>3, <2>4
<1>2. CASE Len(b) = 2
  <2>1. PICK x \in GetRegBit(b[1]), y \in RegOrIm(b[2], 31) :
          x.Type = "reg" /\ t = <<x, y>>
    BY <1>2 DEF Tested
  <2>2. /\ b[1] \in Operands /\ b[2] \in Operands
        /\ \A i \in 1 .. Len(b) : i = 1 \/ i = 2
    BY <1>2, ArgsIn
  <2>3. x \in GetReg(b[1])
    BY <2>1, <2>2, BitSays
  <2>4. IsReg(x) /\ NoBit(b[1]) /\ Says(b[1], "x") = <<x.Value, x.Field>>
    BY <2>2, <2>3, RegSays
  <2>5. IsOp(y) /\ NoBit(b[2]) /\ Says(b[2], "y") = Named(y)
    <3>1. 31 \in 0 .. 255 /\ opBig \in BOOLEAN
      BY DEF Running
    <3>2. OpTold(b[2], 31, y)
      BY <2>1, <2>2, <3>1, OperandSays
    <3> QED
      BY <3>2 DEF OpTold
  <2> QED
    BY <1>2, <2>1, <2>2, <2>4, <2>5 DEF NoBit
<1> QED
  BY <1>1, <1>2

LEMMA BitTestRight ==
    ASSUME Running, NEW op \in BitTestOps, NEW a \in Seq(Operands),
           NEW ws \in ProcessBitTest(op, a)
    PROVE  Right(op, a, ws[1])
<1>0. /\ op \in BranchOps \cup BitTestOps /\ Spelled(op) = {op} /\ opOffset \in Int
      /\ op \in {"QBBS", "QBBC"} \/ op \in {"WBS", "WBC"}
  BY SpelledIs DEF Running, BitTestOps
<1> DEFINE w == ws[1]
<1>1. CASE op \in {"QBBS", "QBBC"}
  <2> DEFINE b == Tail(a)
  <2>1. Len(a) \in 2 .. 3
    BY <1>1 DEF ProcessBitTest
  <2>2. PICK off \in GetJmpOffset(a[1]), t \in Tested(b) :
          ws = <<Qb(op, off.Value, t[1], t[2])>>
    BY <1>1, <2>1 DEF ProcessBitTest
  <2>3. /\ a[1] \in Operands /\ b \in Seq(Operands) /\ Len(b) = Len(a) - 1
        /\ \A i \in 1 .. Len(b) : b[i] = a[i + 1]
    BY <2>1, ArgsIn
  <2>4. Len(b) \in 1 .. 2 /\ (Len(a) = 3 => Len(b) = 2)
    BY <2>1, <2>3
  <2> HIDE DEF b
  <2>5. /\ off.Value \in -512 .. 511 /\ NoBit(a[1])
        /\ Says(a[1], "off") = <<opOffset + off.Value>>
    BY <2>2, <2>3, JmpOffsetSays
  <2>6. PICK k \in -512 .. 511 : k = off.Value
    BY <2>5
  <2>7. /\ IsReg(t[1]) /\ IsOp(t[2])
        /\ \A i \in 1 .. Len(b) : \A r \in GetRegBit(b[i]) :
              r.Type = "bit" => Named(t[2]) = <<r.Bit>>
        /\ Len(b) = 2 => /\ Says(b[1], "x") = <<t[1].Value, t[1].Field>>
                         /\ Says(b[2], "y") = Named(t[2])
    BY <2>2, <2>3, <2>4, TestedSays
  <2>8. w = Qb(op, k, t[1], t[2])
    BY <2>2, <2>6
  <2> HIDE DEF w
  <2>9. QbTold(op, k, t[1], t[2], w)
    BY <1>0, <2>7, <2>8, QbSays
  <2>10. Slots(op) = <<"off", "x", "y">>
    <3>1. op \notin {"QBA", "WBC", "WBS"}
      BY <1>1
    <3> QED
      BY <1>0, <3>1, SlotsAre
  <2>11. ASSUME Len(a) = 3, NEW i \in 1 .. Len(a)
         PROVE  Slot(w, Slots(op)[i]) = Says(a[i], Slots(op)[i])
    <3>1. (i = 1 \/ i = 2 \/ i = 3) /\ a[2] = b[1] /\ a[3] = b[2]
      BY <2>3, <2>4, <2>11
    <3> QED
      BY <2>4, <2>5, <2>6, <2>7, <2>9, <2>10, <2>11, <3>1 DEF QbTold
  <2>12. ASSUME NEW i \in 1 .. Len(a), NEW r \in GetRegBit(a[i]), r.Type = "bit"
         PROVE  Slot(w, "y") = <<r.Bit>>
    <3>1. i # 1
      BY <2>5, <2>12 DEF NoBit
    <3>2. i - 1 \in 1 .. Len(b) /\ a[i] = b[i - 1]
      BY <2>3, <3>1
    <3> QED
      BY <2>7, <2>9, <2>12, <3>2 DEF QbTold
  <2>13. Len(a) = Len(Slots(op)) => Len(a) = 3
    BY <2>10
  <2> QED
    BY <1>0, <2>9, <2>11, <2>12, <2>13 DEF Right, QbTold, w
<1>2. CASE op \in {"WBS", "WBC"}
  <2>1. Len(a) \in 1 .. 2
    BY <1>2 DEF ProcessBitTest
  <2>2. PICK t \in Tested(a) : ws = <<Qb(op, 0, t[1], t[2])>>
    BY <1>2, <2>1 DEF ProcessBitTest
  <2>3. /\ IsReg(t[1]) /\ IsOp(t[2])
        /\ \A i \in 1 .. Len(a) : \A r \in GetRegBit(a[i]) :
              r.Type = "bit" => Named(t[2]) = <<r.Bit>>
        /\ Len(a) = 2 => /\ Says(a[1], "x") = <<t[1].Value, t[1].Field>>
                         /\ Says(a[2], "y") = Named(t[2])
    BY <2>1, <2>2, TestedSays
  <2>4. w = Qb(op, 0, t[1], t[2])
    BY <2>2
  <2> HIDE DEF w
  <2>5. QbTold(op, 0, t[1], t[2], w)
    <3>1. 0 \in -512 .. 511
      OBVIOUS
    <3> QED
      BY <1>0, <2>3, <2>4, <3>1, QbSays
  <2>6. Slots(op) = <<"x", "y">>
    BY <1>2, SlotsAre
  <2>7. Len(a) = Len(Slots(op)) => Len(a) = 2
    BY <2>6
  <2>8. ASSUME Len(a) = 2, NEW i \in 1 .. Len(a)
        PROVE  Slot(w, Slots(op)[i]) = Says(a[i], Slots(op)[i])
    <3>1. i = 1 \/ i = 2
      BY <2>8
    <3> QED
      BY <2>3, <2>5, <2>6, <2>8, <3>1 DEF QbTold
  <2> QED
    BY <1>0, <2>3, <2>5, <2>7, <2>8 DEF Right, QbTold, w
<1> QED
  BY <1>0, <1>1, <1>2

LEMMA LoopRight ==
    ASSUME Running, NEW op \in {"LOOP", "ILOOP"}, NEW a \in Seq(Operands),
           NEW ws \in ProcessLoop(op, a)
    PROVE  Right(op, a, ws[1])
<1> DEFINE high == 255
           top == 256
           N == IF IsBase(a[2]) THEN GetReg(a[2]) ELSE GetImValue(a[2], 1, top)
           Y(n) == IF n.Type = "imm" THEN Imm(n.Value - 1) ELSE n
           w == ws[1]
<1>1. /\ \A k \in 2 .. high : k \in 0 .. 255 /\ k % 256 = k
      /\ \A k \in 1 .. top : k - 1 \in 0 .. 255 /\ (k - 1) + 1 = k
  OBVIOUS
<1>2. /\ Len(a) = 2
      /\ \E l \in Distance(a[1], 2, high), n \in N : ws = <<LoopWord(op, l.Value % 256, Y(n))>>
  BY DEF ProcessLoop, GetLoopOffset, LoopWord
<1> HIDE DEF high, top
<1>3. PICK l \in Distance(a[1], 2, high), n \in N : ws = <<LoopWord(op, l.Value % 256, Y(n))>>
  BY <1>2
<1>4. a[1] \in Operands /\ a[2] \in Operands /\ \A i \in 1 .. Len(a) : i = 1 \/ i = 2
  BY <1>2, ArgsIn
<1>5. /\ l.Value \in 2 .. high /\ NoBit(a[1])
      /\ Says(a[1], "loop") = <<opOffset + l.Value>>
  BY <1>3, <1>4, DistanceSays DEF Running
<1>6. PICK k \in 0 .. 255 : k = l.Value % 256 /\ k = l.Value
  BY <1>1, <1>5
<1>7. /\ IsOp(Y(n)) /\ NoBit(a[2])
      /\ Says(a[2], "n") = IF Y(n).Type = "reg" THEN Named(Y(n))
                           ELSE <<Y(n).Value + 1>>
  <2>1. CASE IsBase(a[2])
    <3>1. n \in GetReg(a[2])
      BY <1>3, <2>1
    <3>2. /\ n.Type = "reg" /\ IsReg(n) /\ NoBit(a[2])
          /\ Says(a[2], "n") = <<n.Value, n.Field>>
      BY <1>4, <3>1, RegSays
    <3>3. Y(n) = n
      BY <3>2
    <3> QED
      BY <3>2, <3>3 DEF IsOp, Named
  <2>2. CASE ~IsBase(a[2])
    <3>1. n \in GetImValue(a[2], 1, top)
      BY <1>3, <2>2
    <3>2. /\ n.Type = "imm" /\ n.Value = a[2].val /\ a[2].val \in 1 .. top
          /\ NoBit(a[2]) /\ Says(a[2], "n") = <<a[2].val>>
      BY <1>4, <3>1, ImSays
    <3>3. Y(n) = Imm(n.Value - 1)
      BY <3>2
    <3>4. Y(n).Type = "imm" /\ Y(n).Value = n.Value - 1
      BY <3>3 DEF Imm
    <3>5. n.Value - 1 \in 0 .. 255 /\ (n.Value - 1) + 1 = n.Value
      BY <1>1, <3>2
    <3> HIDE DEF Y
    <3> QED
      BY <3>2, <3>4, <3>5 DEF IsOp
  <2> QED
    BY <2>1, <2>2
<1> DEFINE y == Y(n)
<1>8. w = LoopWord(op, k, y)
  BY <1>3, <1>6
<1> HIDE DEF y, Y, w
<1>9. LoopTold(op, k, y, w)
  BY <1>7, <1>8, LoopSays DEF y
<1>10. Slots(op) = <<"loop", "n">> /\ Spelled(op) = {op}
  BY SlotsAre, SpelledIs
<1>11. \A i \in 1 .. Len(a) : Slot(w, Slots(op)[i]) = Says(a[i], Slots(op)[i])
  BY <1>4, <1>5, <1>6, <1>7, <1>9, <1>10 DEF y, LoopTold
<1>12. \A i \in 1 .. Len(a) : NoBit(a[i])
  BY <1>4, <1>5, <1>7
<1> QED
  BY <1>9, <1>10, <1>11, <1>12 DEF Right, NoBit, LoopTold, w

LEMMA SleepRight ==
    ASSUME Running, NEW op \in {"HALT", "SLP"}, NEW a \in Seq(Operands),
           NEW ws \in ProcessSleep(op, a)
    PROVE  Right(op, a, ws[1])
<1>1. Spelled(op) = {op} /\ Len(Slots(op)) = 0
  BY SlotsAre, SpelledIs
<1>2. CASE op = "HALT"
  <2>1. a = <<>> /\ ws = <<Sh(21, 25)>>
    BY <1>2 DEF ProcessSleep
  <2>2. \A i \in 1 .. Len(a) : FALSE
    BY <2>1
  <2>3. ws[1] = Sh(21, 25)
    BY <2>1
  <2> QED
    BY <1>1, <1>2, <2>2, <2>3, SleepSays DEF Right
<1>3. CASE op = "SLP"
  <2>1. Len(a) = 1
    BY <1>3 DEF ProcessSleep
  <2> DEFINE top == 1
             S(v) == Sh(31, 25) \cup Sh(v, 23)
             R == IF opCore < 3 THEN <<Sh(8, 25)>> ELSE <<>>
  <2>2. PICK v \in GetImValue(a[1], 0, top) : ws = <<S(v.Value)>> \o R
    BY <1>3, <2>1 DEF ProcessSleep
  <2>3. R = <<>> \/ \E r : R = <<r>>
    OBVIOUS
  <2> HIDE DEF R, S
  <2>4. ws[1] = S(v.Value)
    BY <2>2, <2>3
  <2> HIDE DEF top
  <2>5. a[1] \in Operands /\ \A i \in 1 .. Len(a) : i = 1
    BY <2>1, ArgsIn
  <2>6. v.Value = a[1].val /\ a[1].val \in 0 .. top /\ NoBit(a[1])
    BY <2>2, <2>5, ImSays
  <2>7. v.Value \in 0 .. 1
    BY <2>6 DEF top
  <2>8. op \in Operation(ws[1])
    BY <1>3, <2>4, <2>7, SleepSays DEF S
  <2> QED
    BY <1>1, <2>1, <2>5, <2>6, <2>8 DEF Right, NoBit
<1> QED
  BY <1>2, <1>3

(* The record of a register.                                               *)
LEMMA RegRecord ==
    ASSUME NEW o, NEW r \in GetReg(o)
    PROVE  \E t, v, g, b : r = [Type |-> t, Value |-> v, Field |-> g, Bit |-> b]
BY DEF GetReg, GetRegister

LEMMA LegacyRight ==
    ASSUME Running, NEW op \in {"LFC", "STC"}, NEW a \in Seq(Operands),
           NEW ws \in ProcessLegacy(op, a)
    PROVE  Right(op, a, ws[1])
<1> DEFINE top == 255
           Y == IF Len(a) = 3 THEN RegOrIm(a[3], 255)
                ELSE IF op = "LFC" THEN {Imm(0)}
                ELSE {IF r2.Field = 7 THEN [r2 EXCEPT !.Field = 3] ELSE Imm(0)
                      : r2 \in GetReg(a[1])}
           w == ws[1]
<1>1. /\ opCore = 0 /\ Len(a) \in (IF op = "LFC" THEN {2} ELSE {2, 3})
      /\ \E r \in GetReg(a[1]), v \in GetImValue(a[2], 0, top), y \in Y :
            ws = <<LegacyWord(op, r, v.Value, y)>>
  <2>1. opCore = 0 /\ Len(a) \in (IF op = "LFC" THEN {2} ELSE {2, 3})
    BY DEF ProcessLegacy
  <2>2. ws \in {<<LegacyWord(op, r, v.Value, y)>> :
                  r \in GetReg(a[1]), v \in GetImValue(a[2], 0, top), y \in Y}
    BY <2>1 DEF ProcessLegacy, LegacyWord
  <2> QED
    BY <2>1, <2>2
<1>2. PICK r \in GetReg(a[1]), v \in GetImValue(a[2], 0, top), y \in Y :
            ws = <<LegacyWord(op, r, v.Value, y)>>
  BY <1>1
<1>3. \A k \in 0 .. top : k \in 0 .. 255
  OBVIOUS
<1> HIDE DEF top, Y
<1>4. /\ a[1] \in Operands /\ a[2] \in Operands /\ (Len(a) = 3 => a[3] \in Operands)
      /\ Len(a) = 2 => \A i \in 1 .. Len(a) : i = 1 \/ i = 2
      /\ Len(a) = 3 => \A i \in 1 .. Len(a) : i = 1 \/ i = 2 \/ i = 3
  BY <1>1, ArgsIn
<1>5. /\ r.Type = "reg" /\ IsReg(r) /\ NoBit(a[1])
      /\ Says(a[1], "d") = <<r.Value, r.Field>>
  BY <1>2, <1>4, RegSays
<1>6. /\ v.Value = a[2].val /\ a[2].val \in 0 .. top /\ NoBit(a[2])
      /\ Says(a[2], "c") = <<a[2].val>>
  BY <1>2, <1>4, ImSays
<1>7. PICK k \in 0 .. 255 : k = v.Value
  BY <1>3, <1>6
<1>8. IsOp(y) /\ (Len(a) = 3 => NoBit(a[3]) /\ Says(a[3], "y") = Named(y))
  <2>1. CASE Len(a) = 3
    <3>1. 255 \in 0 .. 255 /\ opBig \in BOOLEAN /\ y \in RegOrIm(a[3], 255)
      BY <1>2, <2>1 DEF Running, Y
    <3>2. OpTold(a[3], 255, y)
      BY <1>4, <2>1, <3>1, OperandSays
    <3> QED
      BY <3>2 DEF OpTold
  <2>2. CASE Len(a) # 3 /\ y = Imm(0)
    BY <2>2 DEF IsOp, Imm
  <2>3. CASE Len(a) # 3 /\ y # Imm(0)
    <3>1. PICK r2 \in GetReg(a[1]) : y = [r2 EXCEPT !.Field = 3]
      BY <1>2, <2>3 DEF Y
    <3>2. r2.Type = "reg" /\ IsReg(r2)
      BY <1>4, <3>1, RegSays
    <3>3. y.Field = 3 /\ y.Value = r2.Value /\ y.Type = "reg"
      <4>2. \E t, u, g, b : r2 = [Type |-> t, Value |-> u, Field |-> g, Bit |-> b]
        BY <3>1, RegRecord
      <4>3. PICK t, u, g, b : r2 = [Type |-> t, Value |-> u, Field |-> g, Bit |-> b]
        BY <4>2
      <4>4. y = [Type |-> t, Value |-> u, Field |-> 3, Bit |-> b]
        BY <3>1, <4>3
      <4> QED
        BY <3>2, <4>3, <4>4
    <3> QED
      BY <2>3, <3>2, <3>3 DEF IsOp, IsReg
  <2> QED
    BY <2>1, <2>2, <2>3
<1>9. w = LegacyWord(op, r, k, y)
  BY <1>2, <1>7
<1> HIDE DEF w
<1>10. LegacyTold(op, r, k, y, w)
  BY <1>1, <1>5, <1>8, <1>9, LegacySays
<1>11. Slots("LFC") = <<"d", "c">> /\ Slots("STC") = <<"d", "c", "y">>
       /\ Spelled(op) = {op}
  BY SlotsAre, SpelledIs
<1>12. ASSUME Len(a) = Len(Slots(op)), NEW i \in 1 .. Len(a)
       PROVE  Slot(w, Slots(op)[i]) = Says(a[i], Slots(op)[i])
  <2>1. CASE op = "LFC"
    <3>1. Len(a) = 2
      BY <1>11, <1>12, <2>1
    <3> QED
      BY <1>4, <1>5, <1>6, <1>7, <1>10, <1>11, <1>12, <2>1, <3>1
         DEF LegacyTold
  <2>2. CASE op = "STC"
    <3>1. Len(a) = 3
      BY <1>11, <1>12, <2>2
    <3> QED
      BY <1>4, <1>5, <1>6, <1>7, <1>8, <1>10, <1>11, <1>12, <2>2, <3>1
         DEF LegacyTold
  <2> QED
    BY <2>1, <2>2
<1>13. \A i \in 1 .. Len(a) : NoBit(a[i])
  BY <1>1, <1>4, <1>5, <1>6, <1>8
<1> QED
  BY <1>10, <1>11, <1>12, <1>13 DEF Right, NoBit, LegacyTold, w

(* A number of up to 16 bits has its place in a word.                      *)
LEMMA FitsTop ==
    ASSUME NEW high \in Nat, high < 65536
    PROVE  \A v \in 0 .. high : Fits(v, 16)
<1>1. \A v \in 0 .. high : v \in Nat /\ v < 65536
  BY SMT
<1>2. \A v \in Nat : v < 65536 => Fits(v, 16)
  BY NumbersFit, SMT
<1> QED
  BY <1>1, <1>2, SMT

LEMMA JumpRight ==
    ASSUME Running, NEW op \in JumpOps, NEW a \in Seq(Operands),
           NEW ws \in ProcessJump(op, a)
    PROVE  Right(op, a, ws[1])
<1> DEFINE top == 65535
           w == ws[1]
<1>1. \/ op = "JAL" /\ Len(a) = 2
         /\ \E d \in GetReg(a[1]), to \in RegOrIm(a[2], top) : ws = <<Jal(d, to)>>
      \/ op = "CALL" /\ Len(a) = 1
         /\ \E to \in RegOrIm(a[1], top) : ws = <<Jal(RetReg, to)>>
      \/ op = "JMP" /\ Len(a) = 1 /\ \E to \in RegOrIm(a[1], top) : ws = <<Jmp(to)>>
      \/ op = "RET" /\ Len(a) = 0 /\ ws = <<Jmp(RetReg)>>
  BY SMT DEF ProcessJump, JumpOps
<1>2. top \in Nat /\ top < 65536
  BY SMT
<1> HIDE DEF top
<1>8. \A v \in 0 .. top : Fits(v, 16)
  BY <1>2, FitsTop, SMT
<1>3. IsReg(RetReg) /\ IsTo(RetReg)
  BY SMT DEF RetReg, Reg, IsReg, IsTo
<1>4. /\ Spelled(op) = {op} /\ Slots("JAL") = <<"d", "to">> /\ Slots("CALL") = <<"to">>
      /\ Slots("JMP") = <<"to">>
  BY SlotsAre, SpelledIs
<1>5. CASE op = "JAL"
  <2>1. Len(a) = 2
        /\ \E d \in GetReg(a[1]), to \in RegOrIm(a[2], top) : ws = <<Jal(d, to)>>
    BY <1>1, <1>5
  <2>2. PICK d \in GetReg(a[1]), to \in RegOrIm(a[2], top) : ws = <<Jal(d, to)>>
    BY <2>1
  <2>3. a[1] \in Operands /\ a[2] \in Operands /\ \A i \in 1 .. Len(a) : i = 1 \/ i = 2
    BY <2>1, ArgsIn
  <2>4. IsReg(d) /\ NoBit(a[1]) /\ Says(a[1], "d") = <<d.Value, d.Field>>
    BY <2>2, <2>3, RegSays
  <2>5. IsTo(to) /\ NoBit(a[2]) /\ Says(a[2], "to") = Named(to)
    BY <1>8, <2>2, <2>3, ToSays
  <2>6. w = Jal(d, to)
    BY <2>2
  <2> HIDE DEF w
  <2>7. /\ Operation(w) = {"JAL", "CALL"} /\ Slot(w, "d") = <<d.Value, d.Field>>
        /\ Slot(w, "to") = Named(to)
    BY <2>4, <2>5, <2>6, JumpSays
  <2>8. \A i \in 1 .. Len(a) : Slot(w, Slots(op)[i]) = Says(a[i], Slots(op)[i])
    BY <1>4, <1>5, <2>3, <2>4, <2>5, <2>7
  <2>9. \A i \in 1 .. Len(a) : NoBit(a[i])
    BY <2>3, <2>4, <2>5
  <2> QED
    BY <1>4, <1>5, <2>7, <2>8, <2>9 DEF Right, NoBit, w
<1>6. CASE op \in {"CALL", "JMP"}
  <2>1. /\ Len(a) = 1
        /\ \E to \in RegOrIm(a[1], top) :
              ws = IF op = "JMP" THEN <<Jmp(to)>> ELSE <<Jal(RetReg, to)>>
    BY <1>1, <1>6
  <2>2. PICK to \in RegOrIm(a[1], top) :
              ws = IF op = "JMP" THEN <<Jmp(to)>> ELSE <<Jal(RetReg, to)>>
    BY <2>1
  <2>3. a[1] \in Operands /\ \A i \in 1 .. Len(a) : i = 1
    BY <2>1, ArgsIn
  <2>4. IsTo(to) /\ NoBit(a[1]) /\ Says(a[1], "to") = Named(to)
    BY <1>8, <2>2, <2>3, ToSays
  <2>5. w = IF op = "JMP" THEN Jmp(to) ELSE Jal(RetReg, to)
    BY <2>2
  <2> HIDE DEF w
  <2>6. op \in Operation(w) /\ Slot(w, "to") = Named(to)
    <3>1. Operation(Jmp(to)) = {"JMP", "RET"} /\ Slot(Jmp(to), "to") = Named(to)
      BY <2>4, JumpSays
    <3>2. /\ Operation(Jal(RetReg, to)) = {"JAL", "CALL"}
          /\ Slot(Jal(RetReg, to), "to") = Named(to)
      BY <1>3, <2>4, JumpSays
    <3> QED
      BY <1>6, <2>5, <3>1, <3>2
  <2>7. \A i \in 1 .. Len(a) : Slot(w, Slots(op)[i]) = Says(a[i], Slots(op)[i])
    BY <1>4, <1>6, <2>3, <2>4, <2>6
  <2>8. \A i \in 1 .. Len(a) : NoBit(a[i])
    BY <2>3, <2>4
  <2> QED
    BY <1>4, <2>6, <2>7, <2>8 DEF Right, NoBit, w
<1>7. CASE op = "RET"
  <2>1. Len(a) = 0 /\ w = Jmp(RetReg)
    BY <1>1, <1>7
  <2>2. \A i \in 1 .. Len(a) : FALSE
    BY <2>1
  <2> HIDE DEF w
  <2>3. "RET" \in Operation(w)
    BY <1>3, <2>1, JumpSays
  <2> QED
    BY <1>4, <1>7, <2>2, <2>3 DEF Right, w
<1> QED
  BY <1>5, <1>6, <1>7 DEF JumpOps

(* The words of a move of a value: what each loads, and where.             *)
Loads(d, v, ws) ==
    IF Len(ws) = 1
    THEN ws[1] = Ldi(d, v) /\ Fits(v, 16)
    ELSE \E d1, d2, hi, lo :
            /\ Len(ws) = 2 /\ d.Field = 7
            /\ ws[1] = Ldi(d1, hi) /\ ws[2] = Ldi(d2, lo)
            /\ IsReg(d1) /\ d1.Value = d.Value /\ d1.Field = 6 /\ Fits(hi, 16)
            /\ IsReg(d2) /\ d2.Value = d.Value /\ d2.Field = 4 /\ Fits(lo, 16)
            /\ hi * 65536 + lo = v

LEMMA MostFits ==
    ASSUME NEW d, IsReg(d), NEW v \in 0 .. Most(d), d.Field = 7 => v < 65536
    PROVE  v \in Nat /\ Fits(v, 16)
<1>1. Most(d) \in Nat
  BY SMT DEF Most
<1>2. v \in Nat /\ v <= Most(d)
  BY <1>1, SMT
<1>3. CASE d.Field = 7
  BY <1>2, <1>3, NumbersFit, SMT
<1>4. CASE d.Field # 7
  <2>1. FieldWidth(d.Field) \in 1 .. 2
    BY <1>4, SMT DEF IsReg, FieldWidth
  <2>2. Most(d) <= 65535
    BY <2>1, SMT DEF Most
  <2>3. v < 65536
    BY <1>1, <1>2, <2>2, SMT
  <2> QED
    BY <1>2, <2>3, NumbersFit, SMT
<1> QED
  BY <1>3, <1>4

LEMMA MovImmediateLoads ==
    ASSUME NEW o \in Operands, NEW d \in GetReg(o), NEW v \in 0 .. Most(d),
           NEW ws, ws = MovImmediate(d, v)
    PROVE  Loads(d, v, ws)
<1>1. IsReg(d) /\ d.Type = "reg"
  BY RegSays
<1>2. CASE ~(d.Field = 7 /\ v > 65535)
  <2>1. ws = <<Ldi(d, v)>>
    BY <1>2, SMT DEF MovImmediate
  <2>2. Most(d) \in Nat
    BY SMT DEF Most
  <2>3. v \in Nat
    BY <2>2, SMT
  <2>4. d.Field = 7 => v < 65536
    BY <1>2, <2>3, SMT
  <2>5. Fits(v, 16)
    BY <1>1, <2>4, MostFits
  <2>6. Len(ws) = 1 /\ ws[1] = Ldi(d, v)
    BY <2>1
  <2> QED
    BY <2>5, <2>6, SMT DEF Loads
<1>3. CASE d.Field = 7 /\ v > 65535
  <2> DEFINE d1 == [d EXCEPT !.Field = 6]
             d2 == [d EXCEPT !.Field = 4]
             hi == v \div 65536
             lo == v % 65536
  <2>1. ws = <<Ldi(d1, hi), Ldi(d2, lo)>>
    BY <1>3, SMT DEF MovImmediate
  <2>2. FieldWidth(7) = 4
    BY SMT DEF FieldWidth
  <2>3. Most(d) <= 2147483647
    BY <1>3, <2>2, SMT DEF Most
  <2>4. /\ v \in Nat /\ hi \in Nat /\ hi < 65536 /\ lo \in Nat /\ lo < 65536
        /\ hi * 65536 + lo = v
    <3>1. Most(d) \in Nat
      BY SMT DEF Most
    <3>2. v \in Nat /\ v <= Most(d)
      BY <3>1, SMT
    <3>3. v <= 2147483647
      BY <2>3, <3>1, <3>2, SMT
    <3> QED
      BY <3>2, <3>3, SMT
  <2>5. \E t, u, g, b : d = [Type |-> t, Value |-> u, Field |-> g, Bit |-> b]
    BY RegRecord
  <2>6. /\ d1.Value = d.Value /\ d1.Field = 6 /\ d2.Value = d.Value /\ d2.Field = 4
    BY <2>5, SMT
  <2>7. IsReg(d1) /\ IsReg(d2)
    BY <1>1, <2>6, SMT DEF IsReg
  <2>8. Fits(hi, 16) /\ Fits(lo, 16)
    BY <2>4, NumbersFit, SMT
  <2> HIDE DEF d1, d2, hi, lo
  <2>9. Len(ws) = 2 /\ ws[1] = Ldi(d1, hi) /\ ws[2] = Ldi(d2, lo) /\ Len(ws) # 1
    BY <2>1, SMT
  <2> QED
    BY <1>3, <2>4, <2>6, <2>7, <2>8, <2>9, SMT DEF Loads
<1> QED
  BY <1>2, <1>3

(* What the words of a move of a value load, as the run states it.         *)
MoveLoaded(a, ws) ==
    LET value(w) == Slot(w, "value")[1]
        d == Says(a[1], "d")
    IN  IF Len(ws) = 1
        THEN value(ws[1]) = a[2].val /\ Slot(ws[1], "d") = d
        ELSE /\ value(ws[1]) * 65536 + value(ws[2]) = a[2].val
             /\ d[2] = 7 /\ Slot(ws[1], "d") = <<d[1], 6>>
             /\ Slot(ws[2], "d") = <<d[1], 4>>

LEMMA LoadsSay ==
    ASSUME NEW a \in Seq(Operands), NEW d, IsReg(d),
           Says(a[1], "d") = <<d.Value, d.Field>>, NEW ws, Loads(d, a[2].val, ws)
    PROVE  /\ MoveLoaded(a, ws)
           /\ Len(ws) = 1 => Operation(ws[1]) = {"LDI"}
               /\ Slot(ws[1], "value") = <<a[2].val>>
<1> DEFINE v == a[2].val
           s == Says(a[1], "d")
<1>1. s[1] = d.Value /\ s[2] = d.Field
  OBVIOUS
<1>2. CASE Len(ws) = 1
  <2>1. ws[1] = Ldi(d, v) /\ Fits(v, 16)
    BY <1>2, SMT DEF Loads
  <2>2. /\ Operation(ws[1]) = {"LDI"} /\ Slot(ws[1], "d") = <<d.Value, d.Field>>
        /\ Slot(ws[1], "value") = <<v>>
    BY <2>1, LdiSays
  <2> HIDE DEF v
  <2>3. Slot(ws[1], "value")[1] = v
    BY <2>2
  <2>4. MoveLoaded(a, ws)
    BY <1>2, <2>2, <2>3, SMT DEF MoveLoaded, v
  <2> QED
    BY <2>2, <2>4 DEF v
<1>3. CASE Len(ws) # 1
  <2>1. PICK d1, d2, hi, lo :
            /\ Len(ws) = 2 /\ d.Field = 7
            /\ ws[1] = Ldi(d1, hi) /\ ws[2] = Ldi(d2, lo)
            /\ IsReg(d1) /\ d1.Value = d.Value /\ d1.Field = 6 /\ Fits(hi, 16)
            /\ IsReg(d2) /\ d2.Value = d.Value /\ d2.Field = 4 /\ Fits(lo, 16)
            /\ hi * 65536 + lo = v
    BY <1>3, SMT DEF Loads
  <2>2. /\ Slot(ws[1], "d") = <<d1.Value, d1.Field>> /\ Slot(ws[1], "value") = <<hi>>
    BY <2>1, LdiSays, SMT
  <2>3. /\ Slot(ws[2], "d") = <<d2.Value, d2.Field>> /\ Slot(ws[2], "value") = <<lo>>
    BY <2>1, LdiSays, SMT
  <2>4. Slot(ws[1], "value")[1] = hi /\ Slot(ws[2], "value")[1] = lo
    BY <2>2, <2>3, SMT
  <2>5. /\ Slot(ws[1], "d") = <<s[1], 6>> /\ Slot(ws[2], "d") = <<s[1], 4>> /\ s[2] = 7
    BY <1>1, <2>1, <2>2, <2>3, SMT
  <2> QED
    BY <1>3, <2>1, <2>4, <2>5, SMT DEF MoveLoaded
<1> QED
  BY <1>2, <1>3

LEMMA MoveRight ==
    ASSUME Running, NEW op \in MoveOps, NEW a \in Seq(Operands),
           NEW ws \in ProcessMove(op, a)
    PROVE  /\ Len(ws) = 1 => Right(op, a, ws[1])
           /\ op = "MOV" /\ a[2].parts = <<>> => MoveLoaded(a, ws)
<1>1. Len(a) = 2
  BY SMT DEF ProcessMove
<1>2. a[1] \in Operands /\ a[2] \in Operands /\ \A i \in 1 .. Len(a) : i = 1 \/ i = 2
  BY <1>1, ArgsIn
<1>3. /\ Spelled("MOV") = {"AND", "LDI"} /\ Spelled("LDI") = {"LDI"}
      /\ Spelled("SCAN") = {"SCAN"} /\ Slots("LDI") = <<"d", "value">>
      /\ Len(Slots("MOV")) = 0 /\ Len(Slots("SCAN")) = 0
  BY SlotsAre, SpelledIs DEF Spelled
<1>4. {"AND", "SCAN"} \subseteq DOMAIN AluCode /\ {"AND", "SCAN"} \cap NopOps = {}
  BY CodesAre DEF AluOps, NopOps
<1>5. CASE op = "LDI"
  <2> DEFINE top == 65535
  <2>1. ws \in {<<Ldi(d, v.Value)>> : d \in GetReg(a[1]), v \in GetImValue(a[2], 0, top)}
    BY <1>1, <1>5, SMT DEF ProcessMove
  <2>2. top \in Nat /\ top < 65536
    BY SMT
  <2> HIDE DEF top
  <2>3. PICK d \in GetReg(a[1]), v \in GetImValue(a[2], 0, top) : ws = <<Ldi(d, v.Value)>>
    BY <2>1
  <2>4. IsReg(d) /\ NoBit(a[1]) /\ Says(a[1], "d") = <<d.Value, d.Field>>
    BY <1>2, <2>3, RegSays
  <2>5. /\ v.Value = a[2].val /\ a[2].val \in 0 .. top /\ NoBit(a[2])
        /\ Says(a[2], "value") = <<a[2].val>>
    BY <1>2, <2>3, ImSays
  <2>6. Fits(a[2].val, 16)
    BY <2>2, <2>5, FitsTop, SMT
  <2>7. Len(ws) = 1 /\ ws[1] = Ldi(d, a[2].val)
    BY <2>3, <2>5
  <2>8. /\ Operation(ws[1]) = {"LDI"} /\ Slot(ws[1], "d") = <<d.Value, d.Field>>
        /\ Slot(ws[1], "value") = <<a[2].val>>
    BY <2>4, <2>6, <2>7, LdiSays
  <2>9. \A i \in 1 .. Len(a) : Slot(ws[1], Slots(op)[i]) = Says(a[i], Slots(op)[i])
    BY <1>2, <1>3, <1>5, <2>4, <2>5, <2>8
  <2>10. \A i \in 1 .. Len(a) : NoBit(a[i])
    BY <1>2, <2>4, <2>5
  <2>11. Right(op, a, ws[1])
    BY <1>3, <1>5, <2>8, <2>9, <2>10 DEF Right, NoBit
  <2> QED
    BY <1>5, <2>11
<1>6. CASE op = "MOV" /\ ~IsBase(a[2])
  <2>1. ws \in UNION {{MovImmediate(d, v.Value) : v \in GetImValue(a[2], 0, Most(d))}
                      : d \in GetReg(a[1])}
    BY <1>1, <1>6, SMT DEF ProcessMove
  <2>0. PICK d \in GetReg(a[1]) :
            ws \in {MovImmediate(d, v.Value) : v \in GetImValue(a[2], 0, Most(d))}
    BY <2>1
  <2>2. PICK v \in GetImValue(a[2], 0, Most(d)) : ws = MovImmediate(d, v.Value)
    BY <2>0
  <2>3. IsReg(d) /\ NoBit(a[1]) /\ Says(a[1], "d") = <<d.Value, d.Field>>
    BY <1>2, <2>2, RegSays
  <2>4. v.Value = a[2].val /\ a[2].val \in 0 .. Most(d) /\ NoBit(a[2])
    BY <1>2, <2>2, ImSays
  <2>5. Loads(d, a[2].val, ws)
    BY <1>2, <2>2, <2>4, MovImmediateLoads
  <2>6. /\ MoveLoaded(a, ws) /\ (Len(ws) = 1 => Operation(ws[1]) = {"LDI"})
    BY <2>3, <2>5, LoadsSay
  <2>7. \A i \in 1 .. Len(a) : NoBit(a[i])
    BY <1>2, <2>3, <2>4
  <2> QED
    BY <1>1, <1>3, <1>6, <2>6, <2>7 DEF Right, NoBit
<1>7. CASE op = "MOV" /\ IsBase(a[2])
  <2>1. ws \in {<<Arithmetic("AND", d, x, x)>> : d \in GetReg(a[1]), x \in GetReg(a[2])}
    BY <1>1, <1>7, SMT DEF ProcessMove
  <2>2. PICK d \in GetReg(a[1]), x \in GetReg(a[2]) : ws = <<Arithmetic("AND", d, x, x)>>
    BY <2>1
  <2>3. IsReg(d) /\ NoBit(a[1]) /\ x.Type = "reg" /\ IsReg(x) /\ NoBit(a[2])
    BY <1>2, <2>2, RegSays
  <2>4. IsOp(x)
    BY <2>3 DEF IsOp
  <2>5. ws[1] = Arithmetic("AND", d, x, x)
    BY <2>2
  <2>6. "AND" \in Operation(ws[1])
    BY <1>4, <2>3, <2>4, <2>5, ArithmeticSays
  <2>7. \A i \in 1 .. Len(a) : NoBit(a[i])
    BY <1>2, <2>3
  <2>8. Right(op, a, ws[1])
    BY <1>1, <1>3, <1>7, <2>6, <2>7 DEF Right, NoBit
  <2>9. a[2].parts # <<>>
    BY <1>2, <1>7, TokenIs DEF IsBase
  <2> QED
    BY <2>8, <2>9
<1>8. CASE op = "SCAN"
  <2>1. ws \in {<<Arithmetic(op, d, d, y)>> : d \in {x \in GetReg(a[1]) : x.Field = 7},
                                              y \in RegOrIm(a[2], 255)}
    BY <1>1, <1>8, SMT DEF ProcessMove
  <2>2. PICK d \in GetReg(a[1]), y \in RegOrIm(a[2], 255) :
            ws = <<Arithmetic(op, d, d, y)>>
    BY <2>1
  <2>3. IsReg(d) /\ NoBit(a[1])
    BY <1>2, <2>2, RegSays
  <2>4. IsOp(y) /\ NoBit(a[2])
    <3>1. 255 \in 0 .. 255 /\ opBig \in BOOLEAN
      BY DEF Running
    <3>2. OpTold(a[2], 255, y)
      BY <1>2, <2>2, <3>1, OperandSays
    <3> QED
      BY <3>2 DEF OpTold
  <2>5. ws[1] = Arithmetic(op, d, d, y)
    BY <2>2
  <2>6. op \in Operation(ws[1])
    BY <1>4, <1>8, <2>3, <2>4, <2>5, ArithmeticSays
  <2>7. \A i \in 1 .. Len(a) : NoBit(a[i])
    BY <1>2, <2>3, <2>4
  <2> QED
    BY <1>1, <1>3, <1>8, <2>6, <2>7 DEF Right, NoBit
<1> QED
  BY <1>5, <1>6, <1>7, <1>8 DEF MoveOps

(* The register of MVIx, and the part of it that MVIx moves.               *)
LEMMA ImIn ==
    ASSUME NEW o, NEW high \in Nat, NEW v \in GetImValue(o, 0, high)
    PROVE  v.Value \in 0 .. high
BY DEF GetImValue, Imm

LEMMA FieldForIs ==
    ASSUME opBig \in BOOLEAN, NEW addr \in Nat, NEW size \in {1, 2, 4},
           (addr % 4) + size <= 4
    PROVE  /\ FieldFor(addr, size) \in 0 .. 7
           /\ FieldWidth(FieldFor(addr, size)) = size
           /\ FirstByte(FieldFor(addr, size)) = addr % 4
<1> DEFINE m == addr % 4
           first == IF opBig THEN 4 - m - size ELSE m
           f == FieldFor(addr, size)
<1>1. m \in 0 .. 3 /\ m + size <= 4
  OBVIOUS
<1>2. f = FieldOf(size, first)
  BY Zenon DEF FieldFor
<1> HIDE DEF m
<1>3. first = IF opBig THEN 4 - m - size ELSE m
  OBVIOUS
<1>7. first \in Nat /\ first + size <= 4
  <2>1. size \in Nat /\ size > 0
    OBVIOUS
  <2> QED
    BY <1>1, <2>1, SMT
<1> HIDE DEF first
<1>4. /\ f \in 0 .. 7
      /\ size = 4 => f = 7
      /\ size = 2 => f = 4 + first /\ first <= 2
      /\ size = 1 => f = first /\ first <= 3
  BY <1>2, <1>7, FieldIs
<1> HIDE DEF f
<1>5. FieldWidth(f) = size
  <2>1. CASE size = 4
    BY <1>4, <2>1, SMT DEF FieldWidth
  <2>2. CASE size = 2
    BY <1>4, <1>7, <2>2, SMT DEF FieldWidth
  <2>3. CASE size = 1
    BY <1>4, <1>7, <2>3, SMT DEF FieldWidth
  <2> QED
    BY <2>1, <2>2, <2>3
<1>6. FirstByte(f) = m
  BY <1>1, <1>3, <1>4, <1>5, <1>7, SMT DEF FirstByte
<1> QED
  BY <1>4, <1>5, <1>6 DEF f, m

LEMMA OffsetSays ==
    ASSUME opBig \in BOOLEAN, NEW addr \in 0 .. 127, NEW size \in {1, 2, 4},
           NEW r \in Offset2Reg(addr, size)
    PROVE  IsReg(r) /\ r.Type = "reg"
<1>1. /\ addr + size <= 128 /\ (addr % 4) + size <= 4 /\ addr \in Nat
      /\ r = Reg(addr \div 4, FieldFor(addr, size))
  BY DEF Offset2Reg
<1>2. FieldFor(addr, size) \in 0 .. 7
  BY <1>1, FieldForIs
<1>3. addr \div 4 \in 0 .. 31
  OBVIOUS
<1> QED
  BY <1>1, <1>2, <1>3 DEF Reg, IsReg

LEMMA MviSays ==
    ASSUME Running, NEW o \in Operands, NEW size \in {1, 2, 4},
           NEW r \in MviOperand(o, size)
    PROVE  /\ r.Type = "reg" /\ IsReg(r) /\ NoBit(o)
           /\ \E t, v, g, b : r = [Type |-> t, Value |-> v, Field |-> g, Bit |-> b]
           /\ CheckTokenType(o) = {"BASE"} => r \in GetReg(o)
<1>1. CASE CheckTokenType(o) = {"PTR", "ADDR"}
  <2>1. PICK v \in GetImValue([o EXCEPT !.pre = "&"], 0, 127) :
          r \in Offset2Reg(v.Value, size)
    BY <1>1 DEF MviOperand
  <2>2. v.Value \in 0 .. 127
    <3>1. 127 \in Nat
      OBVIOUS
    <3> QED
      BY <2>1, <3>1, ImIn
  <2>3. IsReg(r) /\ r.Type = "reg"
    BY <2>1, <2>2, OffsetSays DEF Running
  <2>4. NoBit(o)
    BY <1>1, TokenIs, NoBitBefore
  <2>5. \E t, u, g, b : r = [Type |-> t, Value |-> u, Field |-> g, Bit |-> b]
    BY <2>1 DEF Offset2Reg, Reg
  <2>6. CheckTokenType(o) # {"BASE"}
    BY <1>1
  <2> QED
    BY <2>3, <2>4, <2>5, <2>6
<1>2. CASE CheckTokenType(o) # {"PTR", "ADDR"} /\ Mode(o) = 0
  <2>1. r \in GetReg(o)
    BY <1>2 DEF MviOperand, GetReg
  <2>2. r.Type = "reg" /\ IsReg(r) /\ NoBit(o)
    BY <2>1, RegSays
  <2>3. \E t, v, g, b : r = [Type |-> t, Value |-> v, Field |-> g, Bit |-> b]
    BY <2>1, RegRecord
  <2> QED
    BY <2>1, <2>2, <2>3
<1>3. CASE CheckTokenType(o) # {"PTR", "ADDR"} /\ Mode(o) # 0
  <2> DEFINE plus == Mode(o) # 0 /\ o.inc
  <2>1. r \in GetRegister(o, FALSE, o.pre, plus)
    BY <1>3 DEF MviOperand
  <2> HIDE DEF plus
  <2>2. Built(o, FALSE, o.pre, plus, r)
    BY <2>1, RegisterIs
  <2>3. IsReg(r) /\ r.Type = "reg"
    BY <2>2 DEF Built
  <2>4. \E t, v, g, b : r = [Type |-> t, Value |-> v, Field |-> g, Bit |-> b]
    BY <2>1 DEF GetRegister
  <2>5. "PTR" \in CheckTokenType(o) /\ CheckTokenType(o) # {"BASE"}
    BY <1>3 DEF Mode
  <2>6. NoBit(o)
    BY <2>5, TokenIs, NoBitBefore
  <2> QED
    BY <2>3, <2>4, <2>5, <2>6
<1> QED
  BY <1>1, <1>2, <1>3

LEMMA ShrinkIs ==
    ASSUME NEW x, IsReg(x), NEW size \in {1, 2, 4},
           \E t, v, g, b : x = [Type |-> t, Value |-> v, Field |-> g, Bit |-> b],
           NEW s, s = Shrink(size, x)
    PROVE  /\ IsReg(s) /\ s.Type = x.Type
           /\ FieldWidth(s.Field) <= size \/ (size = 1 /\ x.Field = 5)
<1>1. PICK t, v, g, b : x = [Type |-> t, Value |-> v, Field |-> g, Bit |-> b]
  OBVIOUS
<1>2. v \in 0 .. 31 /\ g \in 0 .. 7 /\ x.Field = g /\ x.Type = t
  BY <1>1 DEF IsReg
<1> DEFINE h == CASE size = 1 /\ g \in {4, 7} -> 0
                  [] size = 1 /\ g = 6 -> 2
                  [] size = 2 /\ g = 7 -> 4
                  [] OTHER -> g
<1>3. s = [Type |-> t, Value |-> v, Field |-> h, Bit |-> b]
  BY <1>1 DEF Shrink
<1>4. /\ size = 1 => h = IF g \in {4, 7} THEN 0 ELSE IF g = 6 THEN 2 ELSE g
      /\ size = 2 => h = IF g = 7 THEN 4 ELSE g
      /\ size = 4 => h = g
  OBVIOUS
<1> HIDE DEF h
<1>5. h \in 0 .. 7
  BY <1>2, <1>4, SMT
<1>6. FieldWidth(h) <= size \/ (size = 1 /\ g = 5)
  <2>1. CASE size = 1
    BY <1>2, <1>4, <2>1, SMT DEF FieldWidth
  <2>2. CASE size = 2
    BY <1>2, <1>4, <2>2, SMT DEF FieldWidth
  <2>3. CASE size = 4
    BY <1>2, <1>4, <2>3, SMT DEF FieldWidth
  <2> QED
    BY <2>1, <2>2, <2>3
<1>7. s.Type = t /\ s.Value = v /\ s.Field = h
  BY <1>3
<1> QED
  BY <1>2, <1>5, <1>6, <1>7 DEF IsReg

Sized(op, size) == \/ op = "MVIB" /\ size = 1
                   \/ op = "MVIW" /\ size = 2
                   \/ op = "MVID" /\ size = 4

(* A plain move reads at most the bytes it moves.                          *)
ReadsItsSize(size, a, w) ==
    /\ \A i \in 1 .. 2 : CheckTokenType(a[i]) = {"BASE"}
    /\ ~(size = 1 /\ Says(a[2], "x")[2] = 5)
    => FieldWidth(Slot(w, "x")[2]) <= size

LEMMA ModeIs ==
    ASSUME NEW o
    PROVE  /\ Mode(o) \in 0 .. 3 /\ (CheckTokenType(o) = {"BASE"} => IsPlain(o))
BY DEF Mode, IsPlain

LEMMA MviRight ==
    ASSUME Running, NEW op \in MviOps, NEW size, Sized(op, size),
           NEW a \in Seq(Operands), NEW ws \in ProcessMvi(size, a)
    PROVE  Right(op, a, ws[1]) /\ ReadsItsSize(size, a, ws[1])
<1>1. Len(a) = 2 /\ size \in {1, 2, 4}
  BY DEF ProcessMvi, Sized
<1>2. a[1] \in Operands /\ a[2] \in Operands /\ \A i \in 1 .. Len(a) : i = 1 \/ i = 2
  BY <1>1, ArgsIn
<1>3. Spelled(op) = {op, "AND"} /\ Len(Slots(op)) = 0
  BY SlotsAre DEF Spelled, MviOps
<1> DEFINE w == ws[1]
<1>4. CASE IsPlain(a[1]) /\ IsPlain(a[2])
  <2>1. ws \in {<<Arithmetic("AND", d, Shrink(size, x), Shrink(size, x))>> :
                  d \in MviOperand(a[1], size), x \in MviOperand(a[2], size)}
    BY <1>4 DEF ProcessMvi
  <2>2. PICK d \in MviOperand(a[1], size), x \in MviOperand(a[2], size) :
          ws = <<Arithmetic("AND", d, Shrink(size, x), Shrink(size, x))>>
    BY <2>1
  <2>3. IsReg(d) /\ NoBit(a[1])
    BY <1>1, <1>2, <2>2, MviSays
  <2>4. /\ x.Type = "reg" /\ IsReg(x) /\ NoBit(a[2])
        /\ \E t, v, g, b : x = [Type |-> t, Value |-> v, Field |-> g, Bit |-> b]
        /\ CheckTokenType(a[2]) = {"BASE"} => x \in GetReg(a[2])
    BY <1>1, <1>2, <2>2, MviSays
  <2> DEFINE s == Shrink(size, x)
  <2>5. /\ IsReg(s) /\ s.Type = "reg"
        /\ FieldWidth(s.Field) <= size \/ (size = 1 /\ x.Field = 5)
    BY <1>1, <2>4, ShrinkIs
  <2>6. w = Arithmetic("AND", d, s, s)
    BY <2>2
  <2> HIDE DEF s, w
  <2>7. "AND" \in Operation(w) /\ Slot(w, "x") = <<s.Value, s.Field>>
    <3>1. "AND" \in DOMAIN AluCode /\ "AND" \notin NopOps
      BY CodesAre DEF AluOps, NopOps
    <3>2. IsOp(s)
      BY <2>5 DEF IsOp
    <3> QED
      BY <2>3, <2>5, <2>6, <3>1, <3>2, ArithmeticSays
  <2>8. \A i \in 1 .. Len(a) : NoBit(a[i])
    BY <1>2, <2>3, <2>4
  <2>9. Right(op, a, w)
    BY <1>1, <1>3, <2>7, <2>8 DEF Right, NoBit
  <2>10. ReadsItsSize(size, a, w)
    <3>1. SUFFICES ASSUME CheckTokenType(a[2]) = {"BASE"},
                          ~(size = 1 /\ Says(a[2], "x")[2] = 5)
                   PROVE  FieldWidth(Slot(w, "x")[2]) <= size
      <4>1. 2 \in 1 .. 2
        OBVIOUS
      <4> QED
        BY <4>1 DEF ReadsItsSize
    <3>2. Says(a[2], "x") = <<x.Value, x.Field>>
      BY <1>2, <2>4, <3>1, RegSays
    <3>3. ~(size = 1 /\ x.Field = 5) /\ Slot(w, "x")[2] = s.Field
      BY <2>7, <3>1, <3>2
    <3> QED
      BY <2>5, <3>3
  <2> QED
    BY <2>9, <2>10 DEF w
<1>5. CASE ~(IsPlain(a[1]) /\ IsPlain(a[2]))
  <2> DEFINE m == 4 * Mode(a[1]) + Mode(a[2])
             h == size \div 2
             D == {r \in MviOperand(a[1], size) : PointerOk(a[1], r)}
             X == {r \in MviOperand(a[2], size) : PointerOk(a[2], r)}
  <2>1. ws \in {<<PointerWord(m, h, d, x)>> : d \in D, x \in X}
    BY <1>5 DEF ProcessMvi, PointerWord
  <2>2. m \in 0 .. 15 /\ h \in 0 .. 2
    BY <1>1, ModeIs
  <2> HIDE DEF m, h
  <2>3. PICK d \in D, x \in X :
          ws = <<PointerWord(m, h, d, x)>>
    BY <2>1
  <2>4. IsReg(d) /\ NoBit(a[1])
    BY <1>1, <1>2, <2>3, MviSays
  <2>5. IsReg(x) /\ NoBit(a[2])
    BY <1>1, <1>2, <2>3, MviSays
  <2>6. w = PointerWord(m, h, d, x)
    BY <2>3
  <2> HIDE DEF w
  <2>7. Operation(w) = Moves(h)
    BY <2>2, <2>4, <2>5, <2>6, PointerSays
  <2>8. op \in Operation(w)
    BY <2>7 DEF Sized, Moves, h
  <2>9. \A i \in 1 .. Len(a) : NoBit(a[i])
    BY <1>2, <2>4, <2>5
  <2>10. Right(op, a, w)
    BY <1>1, <1>3, <2>8, <2>9 DEF Right, NoBit
  <2>11. ReadsItsSize(size, a, w)
    BY <1>5, ModeIs DEF ReadsItsSize
  <2> QED
    BY <2>10, <2>11 DEF w
<1> QED
  BY <1>4, <1>5

LEMMA FillRight ==
    ASSUME Running, NEW op \in {"FILL", "ZERO"}, NEW a \in Seq(Operands),
           ~(op = "ZERO" /\ opCore < 2), NEW ws \in ProcessFill(op, a)
    PROVE  Right(op, a, ws[1])
<1> DEFINE top == 123
           high == 124
           P == {q \in GetImValue(a[1], 0, top) \X GetImValue(a[2], 0, high) :
                   q[1].Value + q[2].Value <= 124 /\ q[2].Value > 0}
           device == IF op = "FILL" THEN 254 ELSE 255
           w == ws[1]
<1>1. /\ Len(a) = 2
      /\ ws \in {<<Xfr("XIN", device, p[1], p[2].Value - 1)>> : p \in P}
  BY DEF ProcessFill
<1>2. /\ \A v \in 0 .. top : v \in 0 .. 127
      /\ \A v \in 0 .. high : v > 0 => v - 1 \in 0 .. 127 /\ v - 1 < 124
          /\ (v - 1) + 1 = v
  OBVIOUS
<1>3. a[1] \in Operands /\ a[2] \in Operands /\ \A i \in 1 .. Len(a) : i = 1 \/ i = 2
  BY <1>1, ArgsIn
<1> HIDE DEF top, high
<1>4. PICK p \in P : ws = <<Xfr("XIN", device, p[1], p[2].Value - 1)>>
  BY <1>1
<1> DEFINE d == p[1]
           v == p[2]
<1>5. d \in GetImValue(a[1], 0, top) /\ v \in GetImValue(a[2], 0, high) /\ v.Value > 0
  BY <1>4
<1> HIDE DEF P, d, v
<1>6. /\ d.Type = "imm" /\ d.Value = a[1].val /\ a[1].val \in 0 .. top
      /\ NoBit(a[1]) /\ Says(a[1], "file") = <<a[1].val>>
  BY <1>3, <1>5, ImSays
<1>7. /\ v.Value = a[2].val /\ a[2].val \in 0 .. high
      /\ NoBit(a[2]) /\ Says(a[2], "xcount") = <<a[2].val>>
  BY <1>3, <1>5, ImSays
<1>8. IsFile(d) /\ ByteOf(d) = a[1].val
  BY <1>2, <1>6 DEF IsFile, ByteOf
<1>9. PICK k \in 0 .. 127 : k = v.Value - 1 /\ CountOf(k) = <<a[2].val>>
  BY <1>2, <1>5, <1>7 DEF CountOf
<1>10. w = Xfr("XIN", device, d, k)
  BY <1>4, <1>9 DEF d, v
<1>11. device \in 0 .. 255 /\ device >= 254 /\ "XIN" \in XfrOps
  BY DEF XfrOps
<1> HIDE DEF device, w
<1>12. XfrTold("XIN", device, d, k, w)
  BY <1>8, <1>10, <1>11, XfrSays DEF Running
<1>13. /\ Operation(w) = {"FILL", "ZERO"} /\ Slot(w, "file") = <<a[1].val>>
       /\ Slot(w, "xcount") = <<a[2].val>>
  BY <1>8, <1>9, <1>11, <1>12 DEF XfrTold
<1>14. Slots(op) = <<"file", "xcount">> /\ Spelled(op) = {op}
  BY SlotsAre DEF Spelled
<1>15. \A i \in 1 .. Len(a) : Slot(w, Slots(op)[i]) = Says(a[i], Slots(op)[i])
  BY <1>3, <1>6, <1>7, <1>13, <1>14
<1>16. \A i \in 1 .. Len(a) : NoBit(a[i])
  BY <1>3, <1>6, <1>7
<1> QED
  BY <1>13, <1>14, <1>15, <1>16 DEF Right, NoBit, w

-----------------------------------------------------------------------------
(* PasmOp: ZERO before V2                                                  *)

(* The moves for each number of bytes left.                                *)
MovesTo(u, n, move, then) ==
    u = [l \in 0 .. n |-> IF l = 0 THEN <<>> ELSE <<move[l]>> \o u[then[l]]]

LEMMA MovesExist ==
    ASSUME NEW n \in Nat, NEW move, NEW then,
           \A l \in 1 .. n : then[l] \in 0 .. l - 1
    PROVE  \E u : MovesTo(u, n, move, then)
<1> DEFINE e(u, l) == IF l = 0 THEN <<>> ELSE <<move[l]>> \o u[then[l]]
           P(u, m) == u = [l \in 0 .. m |-> e(u, l)]
           without == {m \in 0 .. n : ~ \E u : P(u, m)}
<1> SUFFICES ASSUME without # {} PROVE FALSE
  <2>1. n \in 0 .. n
    OBVIOUS
  <2>2. \E u : P(u, n)
    BY <2>1
  <2> QED
    BY <2>2 DEF MovesTo
<1>1. PICK m \in without : \A k \in without : m <= k
  <2>1. without \in SUBSET Nat
    OBVIOUS
  <2> HIDE DEF without
  <2> QED
    BY <2>1, LeastOf
<1>2. m \in 0 .. n /\ ~ \E u : P(u, m)
  BY <1>1
<1>3. CASE m = 0
  <2> DEFINE u == [l \in 0 .. 0 |-> <<>>]
  <2>1. \A l \in 0 .. 0 : l = 0
    OBVIOUS
  <2>2. P(u, 0)
    BY <2>1
  <2> QED
    BY <1>2, <1>3, <2>2
<1>4. CASE m # 0
  <2>1. m \in 1 .. n /\ m - 1 \in 0 .. n /\ m - 1 \notin without
    <3>1. m \in 1 .. n /\ m - 1 \in 0 .. n /\ ~(m <= m - 1)
      BY <1>2, <1>4
    <3> HIDE DEF without
    <3> QED
      BY <1>1, <3>1
  <2>2. PICK u : P(u, m - 1)
    BY <2>1
  <2> DEFINE h == [l \in 0 .. m |-> IF l = m THEN <<move[m]>> \o u[then[m]] ELSE u[l]]
  <2>3. ASSUME NEW l \in 0 .. m PROVE h[l] = e(h, l)
    <3>1. l # 0 => /\ then[l] \in 0 .. l - 1 /\ then[l] \in 0 .. m /\ then[l] # m
                   /\ h[then[l]] = u[then[l]]
      <4>1. l # 0 => then[l] \in 0 .. l - 1
        BY <2>1
      <4>2. \A k \in 0 .. l - 1 : k \in 0 .. m /\ k # m
        BY <2>1
      <4>3. \A k \in 0 .. m : k # m => h[k] = u[k]
        OBVIOUS
      <4> HIDE DEF h
      <4> QED
        BY <4>1, <4>2, <4>3
    <3>2. CASE l = m
      <4>1. h[l] = <<move[l]>> \o u[then[l]] /\ l # 0
        BY <2>1, <3>2
      <4> HIDE DEF h
      <4> QED
        BY <3>1, <4>1
    <3>3. CASE l # m
      <4>1. l \in 0 .. m - 1 /\ h[l] = u[l]
        BY <2>1, <3>3
      <4>2. u[l] = e(u, l)
        <5>1. u = [k \in 0 .. m - 1 |-> e(u, k)]
          BY <2>2
        <5> HIDE DEF e
        <5> QED
          BY <4>1, <5>1
      <4> HIDE DEF h
      <4> QED
        BY <3>1, <4>1, <4>2
    <3> QED
      BY <3>2, <3>3
  <2>4. P(h, m)
    <3>1. h = [k \in 0 .. m |-> h[k]]
      OBVIOUS
    <3>2. \A k \in 0 .. m : h[k] = e(h, k)
      BY <2>3
    <3> HIDE DEF h, e
    <3> QED
      BY <3>1, <3>2
  <2> QED
    BY <1>2, <2>4
<1> QED
  BY <1>3, <1>4

(* The bytes that one move clears.                                         *)
ClearsBytes(w, b, size) ==
    /\ Operation(w) = {"LDI"} /\ w \in SUBSET (0 .. 31)
    /\ \A x : x \in BytesCleared(w) <=> x \in Int /\ b <= x /\ x < b + size

LEMMA MoveClears ==
    ASSUME opBig \in BOOLEAN, NEW b \in 0 .. 127, NEW size \in {1, 2, 4},
           (b % 4) + size <= 4, NEW w, w = Ldi(Reg(b \div 4, FieldFor(b, size)), 0)
    PROVE  ClearsBytes(w, b, size)
<1> DEFINE f == FieldFor(b, size)
           d == Reg(b \div 4, f)
           m == b % 4
           q == b \div 4
<1>1. f \in 0 .. 7 /\ FieldWidth(f) = size /\ FirstByte(f) = m
  BY FieldForIs
<1>2. q \in 0 .. 31 /\ m \in 0 .. 3 /\ 4 * q + m = b
  OBVIOUS
<1>3. d.Value = q /\ d.Field = f
  BY DEF Reg
<1>4. w = Ldi(d, 0)
  OBVIOUS
<1> HIDE DEF f, d, m, q
<1>5. IsReg(d) /\ Fits(0, 16)
  BY <1>1, <1>2, <1>3, NumbersFit, SMT DEF IsReg
<1>6. Operation(w) = {"LDI"} /\ Slot(w, "d") = <<q, f>>
  BY <1>3, <1>4, <1>5, LdiSays
<1>7. Read(w, 0, 5) = q /\ Read(w, 5, 3) = f
  BY <1>6, SlotIs
<1>8. BytesCleared(w) = {b + k : k \in 0 .. size - 1}
  BY <1>1, <1>2, <1>7 DEF BytesCleared
<1>9. \A x : x \in {b + k : k \in 0 .. size - 1} <=> x \in Int /\ b <= x /\ x < b + size
  <2>1. \A x \in Int : b <= x /\ x < b + size => x - b \in 0 .. size - 1
                       /\ x = b + (x - b)
    OBVIOUS
  <2> QED
    BY <2>1
<1>10. w \in SUBSET (0 .. 31)
  BY <1>4 DEF Ldi, RegBits, Sh
<1> QED
  BY <1>6, <1>8, <1>9, <1>10 DEF ClearsBytes

(* The words of u clear the bytes from a up to e, each once.               *)
Clears(u, a, e) ==
    /\ u \in Seq(SUBSET (0 .. 31))
    /\ \A i \in 1 .. Len(u) : Operation(u[i]) = {"LDI"}
    /\ \A x : (\E i \in 1 .. Len(u) : x \in BytesCleared(u[i]))
              <=> x \in Int /\ a <= x /\ x < e
    /\ \A i, j \in 1 .. Len(u) :
          i # j => \A x : ~(x \in BytesCleared(u[i]) /\ x \in BytesCleared(u[j]))

LEMMA ClearsMore ==
    ASSUME NEW a \in Nat, NEW size \in Nat \ {0}, NEW e \in Nat, a + size <= e,
           NEW u, Clears(u, a + size, e),
           NEW w, ClearsBytes(w, a, size)
    PROVE  Clears(<<w>> \o u, a, e)
<1> DEFINE v == <<w>> \o u
<1>0. /\ Operation(w) = {"LDI"} /\ w \in SUBSET (0 .. 31)
      /\ \A x : x \in BytesCleared(w) <=> x \in Int /\ a <= x /\ x < a + size
  BY DEF ClearsBytes
<1>1. /\ u \in Seq(SUBSET (0 .. 31)) /\ Len(u) \in Nat
      /\ \A i \in 1 .. Len(u) : Operation(u[i]) = {"LDI"}
      /\ \A x : (\E i \in 1 .. Len(u) : x \in BytesCleared(u[i]))
                <=> x \in Int /\ a + size <= x /\ x < e
      /\ \A i, j \in 1 .. Len(u) :
            i # j => \A x : ~(x \in BytesCleared(u[i]) /\ x \in BytesCleared(u[j]))
  <2>1. u \in Seq(SUBSET (0 .. 31))
    BY DEF Clears
  <2>2. Len(u) \in Nat
    BY <2>1
  <2> QED
    BY <2>1, <2>2, Zenon DEF Clears
<1>2. /\ v \in Seq(SUBSET (0 .. 31)) /\ Len(v) = Len(u) + 1 /\ v[1] = w
      /\ \A i \in 1 .. Len(u) : v[i + 1] = u[i]
  BY <1>0, <1>1
<1> HIDE DEF v
<1>3. /\ 1 \in 1 .. Len(v)
      /\ \A i \in 1 .. Len(u) : i + 1 \in 1 .. Len(v)
      /\ \A i \in 1 .. Len(v) : i = 1 \/ (i - 1 \in 1 .. Len(u) /\ i = (i - 1) + 1)
  BY <1>1, <1>2
<1>4. \A i \in 1 .. Len(v) : i # 1 => i - 1 \in 1 .. Len(u) /\ v[i] = u[i - 1]
  BY <1>2, <1>3
<1>5. \A i \in 1 .. Len(v) : Operation(v[i]) = {"LDI"}
  <2> SUFFICES ASSUME NEW i \in 1 .. Len(v) PROVE Operation(v[i]) = {"LDI"}
    OBVIOUS
  <2>1. CASE i = 1
    BY <1>0, <1>2, <2>1
  <2>2. CASE i # 1
    <3>1. i - 1 \in 1 .. Len(u) /\ v[i] = u[i - 1]
      BY <1>4, <2>2
    <3>2. Operation(u[i - 1]) = {"LDI"}
      BY <1>1, <3>1
    <3> QED
      BY <3>1, <3>2
  <2> QED
    BY <2>1, <2>2
<1>6. \A x : (\E i \in 1 .. Len(v) : x \in BytesCleared(v[i]))
             <=> x \in Int /\ a <= x /\ x < e
  <2>1. \A x : (\E i \in 1 .. Len(v) : x \in BytesCleared(v[i]))
               <=> x \in BytesCleared(w)
                   \/ \E i \in 1 .. Len(u) : x \in BytesCleared(u[i])
    <3>1. ASSUME NEW x, NEW i \in 1 .. Len(v), x \in BytesCleared(v[i])
          PROVE  x \in BytesCleared(w)
                 \/ \E k \in 1 .. Len(u) : x \in BytesCleared(u[k])
      BY <1>2, <1>4, <3>1
    <3>2. ASSUME NEW x, NEW i \in 1 .. Len(u), x \in BytesCleared(u[i])
          PROVE  \E k \in 1 .. Len(v) : x \in BytesCleared(v[k])
      BY <1>2, <1>3, <3>2
    <3>3. ASSUME NEW x, x \in BytesCleared(w)
          PROVE  \E k \in 1 .. Len(v) : x \in BytesCleared(v[k])
      BY <1>2, <1>3, <3>3
    <3> QED
      BY <3>1, <3>2, <3>3
  <2>2. \A x \in Int : (a <= x /\ x < a + size) \/ (a + size <= x /\ x < e)
                       <=> a <= x /\ x < e
    BY SMT
  <2> QED
    BY <1>0, <1>1, <2>1, <2>2
<1>7. ASSUME NEW i \in 1 .. Len(v), NEW j \in 1 .. Len(v), i # j, NEW x,
             x \in BytesCleared(v[i]), x \in BytesCleared(v[j])
      PROVE  FALSE
  <2>1. ASSUME NEW k \in 1 .. Len(u), x \in BytesCleared(u[k]), x \in BytesCleared(w)
        PROVE  FALSE
    <3>1. x \in Int /\ a + size <= x /\ x < a + size
      BY <1>0, <1>1, <2>1
    <3> QED
      BY <3>1, SMT
  <2>2. CASE i = 1
    <3>1. j # 1
      BY <1>7, <2>2
    <3> QED
      BY <1>2, <1>4, <1>7, <2>1, <2>2, <3>1
  <2>3. CASE j = 1
    <3>1. i # 1
      BY <1>7, <2>3
    <3> QED
      BY <1>2, <1>4, <1>7, <2>1, <2>3, <3>1
  <2>4. CASE i # 1 /\ j # 1
    <3>1. i - 1 \in 1 .. Len(u) /\ j - 1 \in 1 .. Len(u) /\ i - 1 # j - 1
      BY <1>4, <1>7, <2>4
    <3> QED
      BY <1>1, <1>4, <1>7, <2>4, <3>1
  <2> QED
    BY <2>2, <2>3, <2>4
<1> QED
  BY <1>2, <1>5, <1>6, <1>7 DEF Clears, v

LEMMA ClearSizeIs ==
    ASSUME NEW b \in Nat, NEW left \in Nat \ {0}, NEW size, size = ClearSize(b, left)
    PROVE  size \in {1, 2, 4} /\ size <= left /\ (b % 4) + size <= 4
<1> DEFINE m == b % 4
<1>1. m \in 0 .. 3
  OBVIOUS
<1>2. size = IF m = 0 /\ left >= 4 THEN 4 ELSE IF m < 3 /\ left >= 2 THEN 2 ELSE 1
  BY DEF ClearSize
<1> HIDE DEF m
<1>3. size \in {1, 2, 4} /\ size <= left /\ m + size <= 4
  BY <1>1, <1>2, SMT
<1> QED
  BY <1>3 DEF m

(* ZERO clears the bytes it names, each once.                              *)
LEMMA ZeroMovesClear ==
    ASSUME opBig \in BOOLEAN, NEW addr \in Nat, NEW len \in Nat, addr + len <= 128
    PROVE  Clears(ZeroMoves(addr, len), addr, addr + len)
<1> DEFINE end == addr + len
           at(l) == addr + len - l
           size(l) == ClearSize(at(l), l)
           word(l) == Ldi(Reg(at(l) \div 4, FieldFor(at(l), size(l))), 0)
           move == [l \in 1 .. len |-> word(l)]
           then == [l \in 1 .. len |-> l - size(l)]
           e(u, l) == IF l = 0 THEN <<>> ELSE <<word(l)>> \o u[l - size(l)]
           moves == CHOOSE u : u = [l \in 0 .. len |-> e(u, l)]
<1>1. ASSUME NEW l \in 1 .. len
      PROVE  /\ at(l) \in 0 .. 127 /\ at(l) \in Nat /\ l \in Nat \ {0} /\ l \in 0 .. len
             /\ at(l) = end - l /\ end \in Nat
             /\ size(l) \in {1, 2, 4} /\ size(l) <= l /\ (at(l) % 4) + size(l) <= 4
             /\ l - size(l) \in 0 .. l - 1 /\ l - size(l) \in 0 .. len
             /\ at(l) + size(l) = end - (l - size(l)) /\ at(l) + size(l) <= end
  <2>1. at(l) \in 0 .. 127 /\ at(l) \in Nat /\ l \in Nat \ {0} /\ end \in Nat
    OBVIOUS
  <2> DEFINE s == size(l)
  <2>2. s \in {1, 2, 4} /\ s <= l /\ (at(l) % 4) + s <= 4
    BY <2>1, ClearSizeIs
  <2> HIDE DEF s
  <2>3. s \in Nat /\ s >= 1
    BY <2>2
  <2>4. /\ l - s \in 0 .. l - 1 /\ l - s \in 0 .. len
        /\ at(l) + s = end - (l - s) /\ at(l) + s <= end
    BY <2>1, <2>2, <2>3
  <2> QED
    BY <2>1, <2>2, <2>4 DEF s
<1>2. moves = [l \in 0 .. len |-> e(moves, l)]
  <2> DEFINE g(u, l) == IF l = 0 THEN <<>> ELSE <<move[l]>> \o u[then[l]]
  <2>1. \E u : u = [l \in 0 .. len |-> g(u, l)]
    <3>1. \A l \in 1 .. len : then[l] \in 0 .. l - 1
      BY <1>1
    <3> HIDE DEF move, then
    <3>2. \E u : MovesTo(u, len, move, then)
      BY <3>1, MovesExist
    <3> QED
      BY <3>2 DEF MovesTo
  <2>2. \A u : \A l \in 0 .. len : g(u, l) = e(u, l)
    <3>1. \A l \in 1 .. len : move[l] = word(l) /\ then[l] = l - size(l)
      OBVIOUS
    <3>2. \A l \in 0 .. len : l # 0 => l \in 1 .. len
      OBVIOUS
    <3> HIDE DEF move, then, word, size
    <3> QED
      BY <3>1, <3>2
  <2> HIDE DEF g, e
  <2>3. \A u : [l \in 0 .. len |-> g(u, l)] = [l \in 0 .. len |-> e(u, l)]
    BY <2>2
  <2>4. \E u : u = [l \in 0 .. len |-> e(u, l)]
    BY <2>1, <2>3
  <2> QED
    BY <2>4, Zenon
<1>3. ZeroMoves(addr, len) = moves[len]
  BY DEF ZeroMoves
<1> HIDE DEF moves
<1>4. \A l \in 0 .. len : moves[l] = e(moves, l)
  <2> HIDE DEF e
  <2> QED
    BY <1>2
<1> DEFINE bad == {l \in 0 .. len : ~Clears(moves[l], end - l, end)}
<1>5. ASSUME bad # {} PROVE FALSE
  <2>1. PICK l \in bad : \A k \in bad : l <= k
    <3>1. bad \in SUBSET Nat
      OBVIOUS
    <3> HIDE DEF bad
    <3> QED
      BY <1>5, <3>1, LeastOf
  <2>2. l \in 0 .. len /\ ~Clears(moves[l], end - l, end)
    BY <2>1
  <2>3. CASE l = 0
    <3>1. moves[l] = <<>> /\ end - l = end /\ end \in Int
      <4>1. moves[l] = <<>>
        <5> HIDE DEF word, size
        <5> QED
          BY <1>4, <2>2, <2>3
      <4> QED
        BY <2>3, <4>1
    <3>2. Clears(<<>>, end, end)
      <4>1. \A x \in Int : ~(end <= x /\ x < end)
        BY <3>1
      <4>2. /\ <<>> \in Seq(SUBSET (0 .. 31)) /\ Len(<<>>) = 0 /\ 1 .. 0 = {}
        OBVIOUS
      <4> HIDE DEF end
      <4> QED
        BY <4>1, <4>2 DEF Clears
    <3> QED
      BY <2>2, <3>1, <3>2
  <2>4. CASE l # 0
    <3> DEFINE b == at(l)
               s == size(l)
               k == l - s
    <3>1. /\ l \in 1 .. len /\ b \in 0 .. 127 /\ b \in Nat /\ b = end - l /\ end \in Nat
          /\ s \in {1, 2, 4} /\ (b % 4) + s <= 4
          /\ k \in 0 .. l - 1 /\ k \in 0 .. len /\ b + s = end - k /\ b + s <= end
      <4>1. l \in 1 .. len
        BY <2>2, <2>4
      <4> QED
        BY <1>1, <4>1
    <3>2. k \notin bad
      <4>1. ~(l <= k)
        BY <3>1
      <4> HIDE DEF bad
      <4> QED
        BY <2>1, <4>1
    <3>3. Clears(moves[k], b + s, end)
      BY <3>1, <3>2
    <3> DEFINE w == Ldi(Reg(b \div 4, FieldFor(b, s)), 0)
    <3>4. moves[l] = <<w>> \o moves[k]
      BY <1>4, <2>2, <2>4
    <3> HIDE DEF b, s, k, end
    <3>5. ClearsBytes(w, b, s)
      BY <3>1, MoveClears
    <3> HIDE DEF w
    <3>6. Clears(<<w>> \o moves[k], b, end)
      <4>1. s \in Nat \ {0}
        BY <3>1
      <4> QED
        BY <3>1, <3>3, <3>5, <4>1, ClearsMore
    <3> QED
      BY <2>2, <3>1, <3>4, <3>6
  <2> QED
    BY <2>3, <2>4
<1>6. len \in 0 .. len /\ end - len = addr
  OBVIOUS
<1>7. Clears(moves[len], end - len, end)
  BY <1>5, <1>6
<1> QED
  BY <1>3, <1>6, <1>7

LEMMA ZeroRight ==
    ASSUME Running, opCore < 2, NEW a \in Seq(Operands), NEW ws \in ProcessFill("ZERO", a)
    PROVE  /\ Len(ws) = 1 => Right("ZERO", a, ws[1])
           /\ Clears(ws, a[1].val, a[1].val + a[2].val)
<1> DEFINE top == 123
           high == 124
           P == {q \in GetImValue(a[1], 0, top) \X GetImValue(a[2], 0, high) :
                   q[1].Value + q[2].Value <= 124 /\ q[2].Value > 0}
<1>1. /\ Len(a) = 2
      /\ ws \in {ZeroMoves(p[1].Value, p[2].Value) : p \in P}
  BY DEF ProcessFill
<1>0. (\A k \in 0 .. top : k \in Nat) /\ (\A k \in 0 .. high : k \in Nat)
  OBVIOUS
<1> HIDE DEF top, high
<1>2. a[1] \in Operands /\ a[2] \in Operands /\ \A i \in 1 .. Len(a) : i = 1 \/ i = 2
  BY <1>1, ArgsIn
<1>3. PICK p \in P : ws = ZeroMoves(p[1].Value, p[2].Value)
  BY <1>1
<1> DEFINE d == p[1]
           v == p[2]
<1>4. /\ d \in GetImValue(a[1], 0, top) /\ v \in GetImValue(a[2], 0, high)
      /\ d.Value + v.Value <= 124 /\ ws = ZeroMoves(d.Value, v.Value)
  BY <1>3
<1> HIDE DEF P, d, v
<1>5. d.Value = a[1].val /\ a[1].val \in 0 .. top /\ NoBit(a[1])
  BY <1>2, <1>4, ImSays
<1>6. v.Value = a[2].val /\ a[2].val \in 0 .. high /\ NoBit(a[2])
  BY <1>2, <1>4, ImSays
<1>7. PICK addr \in Nat, len \in Nat : addr = a[1].val /\ len = a[2].val
      /\ addr + len <= 128
  <2>1. a[1].val \in Nat /\ a[2].val \in Nat
    BY <1>0, <1>5, <1>6
  <2>2. a[1].val + a[2].val <= 124
    BY <1>4, <1>5, <1>6
  <2> QED
    BY <2>1, <2>2
<1>8. Clears(ws, addr, addr + len)
  BY <1>4, <1>5, <1>6, <1>7, ZeroMovesClear DEF Running
<1>9. ASSUME Len(ws) = 1 PROVE Right("ZERO", a, ws[1])
  <2>1. Operation(ws[1]) = {"LDI"}
    BY <1>8, <1>9 DEF Clears
  <2>2. Spelled("ZERO") = {"LDI"}
    BY DEF Spelled
  <2>3. \A i \in 1 .. Len(a) : NoBit(a[i])
    BY <1>2, <1>5, <1>6
  <2> QED
    BY <2>1, <2>2, <2>3 DEF Right, NoBit
<1> QED
  BY <1>7, <1>8, <1>9

-----------------------------------------------------------------------------
(* PasmOp: what every instruction is assembled to                          *)

(* The words ws do what op says of the operands a.                         *)
Done(op, a, ws) ==
    /\ Len(ws) = 1 => Right(op, a, ws[1])
    /\ op = "ZERO" /\ opCore < 2
         => Len(a) = 2 /\ Clears(ws, a[1].val, a[1].val + a[2].val)
    /\ op = "MOV" /\ a[2].parts = <<>> => MoveLoaded(a, ws)
    /\ \A size : Sized(op, size) => ReadsItsSize(size, a, ws[1])

LEMMA ProcessOpIs ==
    ASSUME NEW a
    PROVE  /\ \A op \in BitOps : ProcessOp(op, a) = ProcessBit(op, a)
           /\ \A op \in MoveOps : ProcessOp(op, a) = ProcessMove(op, a)
           /\ \A op \in AluOps : ProcessOp(op, a) = ProcessAlu(op, a)
           /\ \A op, size : Sized(op, size) => ProcessOp(op, a) = ProcessMvi(size, a)
           /\ \A op \in {"HALT", "SLP"} : ProcessOp(op, a) = ProcessSleep(op, a)
           /\ \A op \in BurstOps : ProcessOp(op, a) = ProcessBurst(op, a)
           /\ \A op \in XfrOps : ProcessOp(op, a) = ProcessXfr(op, a)
           /\ \A op \in {"FILL", "ZERO"} : ProcessOp(op, a) = ProcessFill(op, a)
           /\ \A op \in {"LFC", "STC"} : ProcessOp(op, a) = ProcessLegacy(op, a)
           /\ \A op \in JumpOps : ProcessOp(op, a) = ProcessJump(op, a)
           /\ \A op \in {"LOOP", "ILOOP"} : ProcessOp(op, a) = ProcessLoop(op, a)
           /\ \A op \in BitTestOps : ProcessOp(op, a) = ProcessBitTest(op, a)
           /\ \A op \in BranchOps : ProcessOp(op, a) = ProcessBranch(op, a)
<1> USE DEF BitOps, MoveOps, AluOps, NopOps, BurstOps, XfrOps, JumpOps, BranchOps, BitTestOps
<1>1. \A op \in BitOps : ProcessOp(op, a) = ProcessBit(op, a)
  BY DEF ProcessOp
<1>2. \A op \in MoveOps : ProcessOp(op, a) = ProcessMove(op, a)
  BY DEF ProcessOp
<1>3. \A op \in AluOps : ProcessOp(op, a) = ProcessAlu(op, a)
  BY DEF ProcessOp
<1>4. \A op, size : Sized(op, size) => ProcessOp(op, a) = ProcessMvi(size, a)
  BY DEF ProcessOp, Sized
<1>5. \A op \in {"HALT", "SLP"} : ProcessOp(op, a) = ProcessSleep(op, a)
  BY DEF ProcessOp
<1>6. \A op \in BurstOps : ProcessOp(op, a) = ProcessBurst(op, a)
  BY DEF ProcessOp
<1>7. \A op \in XfrOps : ProcessOp(op, a) = ProcessXfr(op, a)
  BY DEF ProcessOp
<1>8. \A op \in {"FILL", "ZERO"} : ProcessOp(op, a) = ProcessFill(op, a)
  BY DEF ProcessOp
<1>9. \A op \in {"LFC", "STC"} : ProcessOp(op, a) = ProcessLegacy(op, a)
  BY DEF ProcessOp
<1>10. \A op \in JumpOps : ProcessOp(op, a) = ProcessJump(op, a)
  BY DEF ProcessOp
<1>11. \A op \in {"LOOP", "ILOOP"} : ProcessOp(op, a) = ProcessLoop(op, a)
  BY DEF ProcessOp
<1>12. \A op \in BitTestOps : ProcessOp(op, a) = ProcessBitTest(op, a)
  BY DEF ProcessOp
<1>13. \A op \in BranchOps : ProcessOp(op, a) = ProcessBranch(op, a)
  BY DEF ProcessOp
<1> QED
  BY <1>1, <1>2, <1>3, <1>4, <1>5, <1>6, <1>7, <1>8, <1>9, <1>10, <1>11, <1>12, <1>13

LEMMA OpsAre ==
    ASSUME NEW op
    PROVE  /\ op \in BitOps \cup AluOps \cup {"HALT", "SLP"} \cup BurstOps \cup XfrOps
                     \cup {"LFC", "STC"} \cup JumpOps \cup {"LOOP", "ILOOP"}
                     \cup BitTestOps \cup BranchOps
                => op \notin {"ZERO", "MOV", "MVIB", "MVIW", "MVID"}
           /\ op \in MoveOps => op \notin {"ZERO", "MVIB", "MVIW", "MVID"}
           /\ op \in OpCodes =>
                \/ op \in BitOps \cup AluOps \cup {"HALT", "SLP"} \cup BurstOps \cup XfrOps
                          \cup {"LFC", "STC"} \cup JumpOps \cup {"LOOP", "ILOOP"}
                          \cup BitTestOps \cup BranchOps
                \/ op \in MoveOps \/ op \in MviOps \/ op \in {"FILL", "ZERO"}
<1>1. op \in BitOps \cup AluOps \cup {"HALT", "SLP"} \cup BurstOps \cup XfrOps
             \cup {"LFC", "STC"} \cup JumpOps \cup {"LOOP", "ILOOP"}
             \cup BitTestOps \cup BranchOps
      => op \notin {"ZERO", "MOV", "MVIB", "MVIW", "MVID"}
  BY DEF BitOps, AluOps, NopOps, BurstOps, XfrOps, JumpOps, BranchOps, BitTestOps
<1>2. op \in MoveOps => op \notin {"ZERO", "MVIB", "MVIW", "MVID"}
  BY DEF MoveOps
<1> QED
  BY <1>1, <1>2 DEF OpCodes

LEMMA ProcessOpDone ==
    ASSUME Running, NEW op \in OpCodes, NEW a \in Seq(Operands), NEW ws \in ProcessOp(op, a)
    PROVE  Done(op, a, ws)
<1> DEFINE Plain == BitOps \cup AluOps \cup {"HALT", "SLP"} \cup BurstOps \cup XfrOps
                    \cup {"LFC", "STC"} \cup JumpOps \cup {"LOOP", "ILOOP"}
                    \cup BitTestOps \cup BranchOps
<1>1. CASE op \in Plain
  <2>1. op \notin {"ZERO", "MOV", "MVIB", "MVIW", "MVID"}
    BY <1>1, OpsAre
  <2>2. Right(op, a, ws[1])
    <3>1. CASE op \in BitOps
      BY <3>1, ProcessOpIs, BitRight
    <3>2. CASE op \in AluOps
      BY <3>2, ProcessOpIs, AluRight
    <3>3. CASE op \in {"HALT", "SLP"}
      BY <3>3, ProcessOpIs, SleepRight
    <3>4. CASE op \in BurstOps
      BY <3>4, ProcessOpIs, BurstRight
    <3>5. CASE op \in XfrOps
      BY <3>5, ProcessOpIs, XfrRight
    <3>6. CASE op \in {"LFC", "STC"}
      BY <3>6, ProcessOpIs, LegacyRight
    <3>7. CASE op \in JumpOps
      BY <3>7, ProcessOpIs, JumpRight
    <3>8. CASE op \in {"LOOP", "ILOOP"}
      BY <3>8, ProcessOpIs, LoopRight
    <3>9. CASE op \in BitTestOps
      BY <3>9, ProcessOpIs, BitTestRight
    <3>10. CASE op \in BranchOps
      BY <3>10, ProcessOpIs, BranchRight
    <3> QED
      BY <1>1, <3>1, <3>2, <3>3, <3>4, <3>5, <3>6, <3>7, <3>8, <3>9, <3>10
  <2> HIDE DEF Plain
  <2> QED
    BY <2>1, <2>2 DEF Done, Sized
<1>2. CASE op \in MoveOps
  <2>1. op \notin {"ZERO", "MVIB", "MVIW", "MVID"}
    BY <1>2, OpsAre
  <2>2. ws \in ProcessMove(op, a)
    BY <1>2, ProcessOpIs
  <2>3. /\ Len(ws) = 1 => Right(op, a, ws[1])
        /\ op = "MOV" /\ a[2].parts = <<>> => MoveLoaded(a, ws)
    BY <1>2, <2>2, MoveRight
  <2> QED
    BY <2>1, <2>3 DEF Done, Sized
<1>3. CASE op \in MviOps
  <2>1. op \in {"MVIB", "MVIW", "MVID"}
    BY <1>3 DEF MviOps
  <2>2. PICK size : Sized(op, size)
    BY <2>1 DEF Sized
  <2>3. ws \in ProcessMvi(size, a)
    BY <2>2, ProcessOpIs
  <2>4. Right(op, a, ws[1]) /\ ReadsItsSize(size, a, ws[1])
    BY <1>3, <2>2, <2>3, MviRight
  <2>5. \A s : Sized(op, s) => s = size
    BY <2>1, <2>2 DEF Sized
  <2> QED
    BY <2>1, <2>4, <2>5 DEF Done
<1>4. CASE op \in {"FILL", "ZERO"}
  <2>1. ws \in ProcessFill(op, a)
    BY <1>4, ProcessOpIs
  <2>2. CASE op = "ZERO" /\ opCore < 2
    <3>1. Len(ws) = 1 => Right(op, a, ws[1])
      BY <2>1, <2>2, ZeroRight
    <3>2. Clears(ws, a[1].val, a[1].val + a[2].val)
      BY <2>1, <2>2, ZeroRight
    <3>3. Len(a) = 2
      BY <2>1 DEF ProcessFill
    <3> QED
      BY <2>2, <3>1, <3>2, <3>3 DEF Done, Sized
  <2>3. CASE ~(op = "ZERO" /\ opCore < 2)
    <3>1. Right(op, a, ws[1])
      BY <1>4, <2>1, <2>3, FillRight
    <3> QED
      BY <1>4, <2>3, <3>1 DEF Done, Sized
  <2> QED
    BY <2>2, <2>3
<1> QED
  BY <1>1, <1>2, <1>3, <1>4, OpsAre

-----------------------------------------------------------------------------
(* PasmOp: the words do what the instruction says (WordsDoInstruction)     *)

(* What a word says depends on no variable but these.                      *)
Same == UNCHANGED <<opCore, opBig, opPass, opOffset>>

LEMMA ReadingKept ==
    ASSUME Same
    PROVE  /\ \A w : Operation(w)' = Operation(w)
           /\ \A w, name : Slot(w, name)' = Slot(w, name)
           /\ \A op : Spelled(op)' = Spelled(op)
           /\ \A o : GetRegBit(o)' = GetRegBit(o)
           /\ \A o, name : Says(o, name)' = Says(o, name)
           /\ \A w : BytesCleared(w)' = BytesCleared(w)
<1>1. /\ \A f : FirstByte(f)' = FirstByte(f)
      /\ \A o, b, s, p : GetRegister(o, b, s, p)' = GetRegister(o, b, s, p)
  BY DEF Same, FirstByte, GetRegister
<1>2. \A o : GetRegBit(o)' = GetRegBit(o)
  BY <1>1 DEF GetRegBit
<1>3. \A w : Operation(w)' = Operation(w)
  BY DEF Same, Operation
<1>4. \A w, name : Slot(w, name)' = Slot(w, name)
  BY DEF Same, Slot
<1>5. \A op : Spelled(op)' = Spelled(op)
  BY DEF Same, Spelled
<1>6. \A o, name : Says(o, name)' = Says(o, name)
  <2> TAKE o, name
  <2> DEFINE found == GetRegBit(o) \cup GetConstant(o) \cup GetR0offset(o)
  <2>1. found' = found
    BY <1>2 DEF GetConstant, GetR0offset, Indexed
  <2>2. (CHOOSE x \in found : TRUE)' = CHOOSE x \in found : TRUE
    BY <2>1
  <2> HIDE DEF found
  <2> DEFINE r == CHOOSE x \in found : TRUE
             read == CASE name = "file" -> <<4 * r.Value + FirstByte(r.Field)>>
                       [] name = "base" -> <<r.Value>>
                       [] name \in {"count", "xcount"} -> <<"r0", r.Value>>
                       [] OTHER -> <<r.Value, r.Field>>
  <2>3. read' = read
    <3>1. r' = r
      BY <2>2
    <3> HIDE DEF r
    <3> QED
      BY <1>1, <3>1
  <2>4. Says(o, name) = IF o.parts = <<>> \/ o.pre = "&" THEN <<o.val>> ELSE read
    BY DEF Says, found
  <2>5. Says(o, name)' = IF o.parts = <<>> \/ o.pre = "&" THEN <<o.val>> ELSE read'
    BY DEF Says, found
  <2> QED
    BY <2>3, <2>4, <2>5
<1>7. \A w : BytesCleared(w)' = BytesCleared(w)
  BY <1>1 DEF BytesCleared
<1> QED
  BY <1>2, <1>3, <1>4, <1>5, <1>6, <1>7

LEMMA DoneKept ==
    ASSUME Same, NEW op, NEW a, NEW ws, Done(op, a, ws)
    PROVE  Done(op, a, ws)'
<1>1. ASSUME NEW w, Right(op, a, w)
      PROVE  Right(op, a, w)'
  BY <1>1, ReadingKept DEF Right
<1>2. ASSUME NEW lo, NEW hi, Clears(ws, lo, hi)
      PROVE  Clears(ws, lo, hi)'
  <2>1. \A i : /\ BytesCleared(ws[i])' = BytesCleared(ws[i])
              /\ Operation(ws[i])' = Operation(ws[i])
    BY ReadingKept
  <2>2. ws \in Seq(SUBSET (0 .. 31))
        /\ \A i \in 1 .. Len(ws) : Operation(ws[i])' = {"LDI"}
    BY <1>2, <2>1 DEF Clears
  <2>3. \A x : (\E i \in 1 .. Len(ws) : x \in BytesCleared(ws[i])')
              <=> x \in Int /\ lo <= x /\ x < hi
    BY <1>2, <2>1 DEF Clears
  <2>4. \A i, j \in 1 .. Len(ws) :
            i # j => \A x : ~(x \in BytesCleared(ws[i])' /\ x \in BytesCleared(ws[j])')
    BY <1>2, <2>1 DEF Clears
  <2> QED
    BY <2>2, <2>3, <2>4 DEF Clears
<1>3. MoveLoaded(a, ws) => MoveLoaded(a, ws)'
  BY ReadingKept DEF MoveLoaded
<1>4. ASSUME NEW size, NEW w, ReadsItsSize(size, a, w)
      PROVE  ReadsItsSize(size, a, w)'
  BY <1>4, ReadingKept DEF ReadsItsSize
<1> QED
  BY <1>1, <1>2, <1>3, <1>4 DEF Done, Same

(* The invariant: what has been assembled in pass 2 is done.               *)
OpInv ==
    /\ opCore \in 0 .. 3 /\ opBig \in BOOLEAN /\ opPass \in 1 .. 2 /\ opOffset \in Nat
    /\ answer # "none" => inst \in Instructions
    /\ Assembled => \A op, a, ws : inst.op = op /\ inst.args = a /\ words = ws
                                   => Done(op, a, ws)

LEMMA OpInvKept ==
    OpInv /\ [OpNext]_opVars => OpInv'
<1> SUFFICES ASSUME OpInv, [OpNext]_opVars
             PROVE  OpInv'
  OBVIOUS
<1>1. ASSUME NEW i \in Instructions, NEW core \in 0 .. 3, NEW big \in BOOLEAN,
             NEW pass \in 1 .. 2, NEW offset \in OpOffsets,
             Parse(i, core, big, pass, offset)
      PROVE  OpInv'
  BY <1>1, OpAssumption DEF OpInv, Parse, Assembled
<1>2. CASE Assemble
  <2>1. Same /\ UNCHANGED inst /\ answer = "read" /\ inst \in Instructions
    BY <1>2 DEF Assemble, Same, OpInv
  <2>2. inst.op \in OpCodes /\ inst.args \in Seq(Operands)
    BY <2>1, OpAssumption
  <2>3. ASSUME Assembled', NEW op, NEW a, NEW ws,
               inst'.op = op, inst'.args = a, words' = ws
        PROVE  Done(op, a, ws)'
    <3>1. op = inst.op /\ a = inst.args
      BY <2>1, <2>3
    <3>2. Running
      BY <2>1, <2>3 DEF Running, OpInv, Assembled, Same
    <3>3. ws \in ProcessOp(op, a)
      BY <1>2, <2>3, <3>1 DEF Assemble, Assembled
    <3>4. Done(op, a, ws)
      BY <2>2, <3>1, <3>2, <3>3, ProcessOpDone
    <3> QED
      BY <2>1, <3>4, DoneKept
  <2> QED
    BY <2>1, <2>3 DEF OpInv, Same
<1>3. CASE UNCHANGED opVars
  <2>1. Same /\ UNCHANGED <<inst, answer, words>>
    BY <1>3 DEF opVars, Same
  <2>2. ASSUME Assembled', NEW op, NEW a, NEW ws,
               inst'.op = op, inst'.args = a, words' = ws
        PROVE  Done(op, a, ws)'
    <3>1. Assembled /\ inst.op = op /\ inst.args = a /\ words = ws
      BY <2>1, <2>2 DEF Assembled, Same
    <3>2. Done(op, a, ws)
      BY <3>1 DEF OpInv
    <3> QED
      BY <2>1, <3>2, DoneKept
  <2> QED
    BY <2>1, <2>2 DEF OpInv, Same
<1> QED
  BY <1>1, <1>2, <1>3 DEF OpNext

LEMMA OpInvSays ==
    OpInv => WordsDoInstruction
<1> SUFFICES ASSUME OpInv
             PROVE  WordsDoInstruction
  OBVIOUS
<1>1. Assembled => Done(inst.op, inst.args, words)
  BY DEF OpInv
<1>2. Assembled => inst \in Instructions
  BY DEF OpInv, Assembled
<1>3. WordsSayInstruction
  BY <1>1 DEF WordsSayInstruction, Done, Right
<1>4. BitOperandsKept
  BY <1>1 DEF BitOperandsKept, Done, Right
<1>5. ZeroClearsItsBytes
  <2> SUFFICES ASSUME Assembled, inst.op = "ZERO", opCore < 2
               PROVE  LET addr == inst.args[1].val len == inst.args[2].val
                      IN  /\ UNION {BytesCleared(words[i]) : i \in DOMAIN words}
                             = addr .. addr + len - 1
                          /\ \A i, j \in DOMAIN words :
                                i # j => BytesCleared(words[i])
                                         \cap BytesCleared(words[j]) = {}
    BY DEF ZeroClearsItsBytes
  <2> DEFINE addr == inst.args[1].val
             len == inst.args[2].val
             cleared == UNION {BytesCleared(words[i]) : i \in DOMAIN words}
  <2>1. Clears(words, addr, addr + len)
    BY <1>1 DEF Done
  <2>2. DOMAIN words = 1 .. Len(words)
    BY <2>1 DEF Clears
  <2>3. \A x : x \in cleared <=> x \in Int /\ addr <= x /\ x < addr + len
    BY <2>1, <2>2 DEF Clears
  <2>4. addr \in Int /\ len \in Int
    <3>1. inst.args \in Seq(Operands) /\ Len(inst.args) = 2
      BY <1>1, <1>2, OpAssumption DEF Done
    <3>2. inst.args[1] \in Operands /\ inst.args[2] \in Operands
      BY <3>1
    <3> QED
      BY <3>2 DEF Operands
  <2>5. cleared = addr .. addr + len - 1
    BY <2>3, <2>4
  <2>6. \A i, j \in DOMAIN words :
            i # j => BytesCleared(words[i]) \cap BytesCleared(words[j]) = {}
    BY <2>1, <2>2 DEF Clears
  <2> QED
    BY <2>5, <2>6
<1>6. MoveLoadsValue
  BY <1>1 DEF MoveLoadsValue, Done, MoveLoaded
<1>7. MoveReadsItsSize
  <2>1. inst.op \in {"MVIB", "MVIW", "MVID"} => Sized(inst.op, MoveSize)
    BY DEF Sized, MoveSize
  <2>2. MoveSize = 1 <=> inst.op = "MVIB"
    BY DEF MoveSize
  <2> QED
    BY <1>1, <2>1, <2>2 DEF MoveReadsItsSize, PlainMove, Done, ReadsItsSize
<1> QED
  BY <1>3, <1>4, <1>5, <1>6, <1>7 DEF WordsDoInstruction

(* Whatever the instruction, the core, the endianness and the place in the *)
(* program (pasmop.c, ProcessOp), the words assembled in pass 2 are read by*)
(* the core as what the instruction says: its operation and operands, the  *)
(* bit of Rnn.Tbb, the bytes a ZERO names and no others, the whole value of*)
(* a MOV, and no more bytes than an MVIx moves.                            *)
THEOREM WordsSaid == OpSpec => []WordsDoInstruction
<1>1. ASSUME OpInit
      PROVE  OpInv
  <2>1. opCore \in 0 .. 3 /\ opPass \in 1 .. 2 /\ opOffset \in Nat
    BY <1>1 DEF OpInit
  <2>2. opBig \in BOOLEAN /\ answer = "none"
    BY <1>1 DEF OpInit
  <2> QED
    BY <2>1, <2>2 DEF OpInv, Assembled
<1> QED
  BY <1>1, OpInvKept, OpInvSays, PTL DEF OpSpec
=============================================================================
