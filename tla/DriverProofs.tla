---------------------------- MODULE DriverProofs ----------------------------
(***************************************************************************)
(* Proofs about PruDriver, for any settings of the interrupt controller,   *)
(* any files and blocks, any processes and any of the two PRUs.  What is   *)
(* to do is part of the state, so the invariant says of the stores that    *)
(* are left what they will have made of the registers when the last one is *)
(* done.  And about Lifecycle, for any number of starts: a process that    *)
(* ends by itself has stopped its PRUs, and one that found them halted     *)
(* answers no interrupt but its own.                                       *)
(***************************************************************************)
EXTENDS PruDriver, Lifecycle, SequenceTheorems, TLAPS

-----------------------------------------------------------------------------
(* The invariant                                                           *)

(* The structure prussdrv.                                                 *)
Fields == {"fd", "mmap_fd", "version", "dataram", "extram", "mapsize", "extsize", "intc_data"}

(* s is a sequence.                                                        *)
Sound(s) == Len(s) \in Nat /\ s = [i \in 1 .. Len(s) |-> s[i]]

(* What prussdrv_exec_code_at is given: files that are not too long, and   *)
(* blocks.                                                                 *)
Executable(name) ==
    /\ name \in DOMAIN Files \union DOMAIN Blocks
    /\ name \in DOMAIN Files => Files[name] \in 1 .. PRUSS_MAX_IRAM_SIZE

(* What it does with one.                                                  *)
Exec(n, name, addr) == prussdrv_exec_code_at(n, name, SizeOf(name), addr)

(* Its stores.                                                             *)
Off(n) == [to |-> "control", n |-> n, v |-> 1]
Program(n, name, done) == [to |-> "iram", n |-> n, v |-> Part(0, name, SizeOf(name), done)]
On(n, addr) == [to |-> "control", n |-> n, v |-> (addr \div 4) * 65536 + 2]

(* The words that the memory of a device holds of it.                      *)
Words(name) == (SizeOf(name) + 3) \div 4
Held(name, hw) == IF 4 * Words(name) <= IramSize[hw] THEN Words(name) ELSE IramSize[hw] \div 4

(* Stores among which no instruction is written and no PRU is enabled.     *)
Quiet(s) ==
    \A p \in 1 .. Len(s) :
       s[p].to # "iram" /\ (s[p].to = "control" => s[p].v \in {0, 1})

(* Stores of blocks into the instruction memory of PRU n.                  *)
Patching(s, n) ==
    \A p \in 1 .. Len(s) :
       /\ s[p].to = "iram" /\ s[p].n = n
       /\ \E block \in DOMAIN Blocks, at \in Nat, done \in BOOLEAN :
             s[p].v = Part(at, block, Blocks[block], done)

(* Types, as far as the proofs need them.                                  *)
DrvTypeOK ==
    /\ device \in Devices
    /\ DOMAIN prussdrv = Fields
    /\ mapped \in BOOLEAN /\ alive \in BOOLEAN
    /\ Sound(todo)
    /\ DOMAIN cmr = Listed /\ DOMAIN hmr = 0 .. 9
    /\ DOMAIN control = Numbers /\ DOMAIN iram = Numbers
    /\ \A n \in Numbers : DOMAIN iram[n] = {"name", "words", "whole"}
    /\ last \in {NoData} \union IntcData

(* A process that stores has the windows, and they are where uio_pruss     *)
(* put them, at the addresses of the version that was detected; the        *)
(* external memory is mapped, or not yet, or its mmap failed.              *)
WindowsInv ==
    /\ todo # <<>> => alive /\ mapped
    /\ ~alive => ~mapped
    /\ mapped => /\ prussdrv.version = __pruss_detect_hw_version
                 /\ prussdrv.dataram = PruVirtual /\ prussdrv.mapsize = PruSize
    /\ <<prussdrv.extram, prussdrv.extsize>> \in
          {<<0, 0>>, <<ExtVirtual, ExtSize>>, <<-1, ExtSize>>}

(* Where a call is: it has nothing to do with programs; it patches one, or *)
(* enables a PRU, by hand or at the end of prussdrv_exec_code_at; or that  *)
(* is under way, in order: the PRU is disabled, then the whole program is  *)
(* written, then the PRU is enabled.                                       *)
Doing(s, hands) ==
    \/ Quiet(s)
    \/ \E n \in Numbers :
          \/ n \in hands /\ Patching(s, n)
          \/ \E addr \in Entries : s = <<On(n, addr)>> /\ (Known => iram[n].whole \/ n \in hands)
          \/ \E name : \E addr \in Entries :
                /\ Executable(name)
                /\ \/ s = Exec(n, name, addr)
                   \/ /\ control[n] = 1
                      /\ s = Tail(Exec(n, name, addr)) \/ s = Tail(Tail(Exec(n, name, addr)))

(* What is whole is a file or a block, as much as the memory holds of it.  *)
ProgramInv ==
    /\ ~Known => \A n \in Numbers : control[n] = 1
    /\ \A n \in Numbers : iram[n].whole =>
          Executable(iram[n].name) /\ iram[n].words = Held(iram[n].name, device)
    /\ Doing(todo, own)

(* Store k leaves the entry x of map r alone.                              *)
Spares(s, k, r, x) == s[k].to = r => s[k].v # -1 /\ s[k].n # x

(* When the stores before p have been made, entry x of map r, which is     *)
(* reg now, is v.                                                          *)
WillBe(s, p, r, reg, x, v) ==
    \/ \E q \in 1 .. p - 1 : /\ s[q].to = r /\ s[q].n = x /\ s[q].v = v
                             /\ \A k \in q + 1 .. p - 1 : Spares(s, k, r, x)
    \/ reg[x] = v /\ \A k \in 1 .. p - 1 : Spares(s, k, r, x)

(* The same for all the pairs of a list.                                   *)
AllWillBe(s, p, r, reg, map) == \A i \in DOMAIN map : WillBe(s, p, r, reg, map[i][1], map[i][2])

(* When all stores have been made, the controller has the maps of d.       *)
MapInv(s, d) ==
    /\ AllWillBe(s, Len(s) + 1, "cmr", cmr, d.sysevt_to_channel_map)
    /\ AllWillBe(s, Len(s) + 1, "hmr", hmr, d.channel_to_host_map)

(* The last store copies d, if its events are accepted and it has not been *)
(* copied.                                                                 *)
Accepted == {NoData} \union {d \in IntcData : ~OutOfRange(d)}
CopyInv(s, d) ==
    /\ prussdrv.intc_data \in Accepted
    /\ \A p \in 1 .. Len(s) : s[p].to = "copy" => p = Len(s) /\ s[p].v = d /\ d \in Accepted
    /\ ~OutOfRange(d) => prussdrv.intc_data = d \/ \E p \in 1 .. Len(s) : s[p].to = "copy"

(* Together, with the property that is about the present state.            *)
DrvInv == /\ DrvTypeOK /\ WindowsInv /\ ProgramInv
          /\ CopyInv(todo, last) /\ (Known => MapInv(todo, last))
          /\ RunsWholeProgram

-----------------------------------------------------------------------------
(* Addresses                                                               *)

(* Where the two windows are: they do not overlap.                         *)
LEMMA Layout ==
    /\ PruSize \in Nat \ {0} /\ ExtSize \in Nat \ {0}
    /\ PruVirtual \in Nat \ {0} /\ ExtVirtual \in Nat /\ ExtPhys \in Nat
    /\ ExtSize < PruVirtual /\ PruVirtual + PruSize < ExtVirtual
  BY SMT DEF PruSize, ExtSize, ExtPhys, PruVirtual, ExtVirtual

(* The regions of the AM335x lie within 256 KB, apart from the external    *)
(* memory.                                                                 *)
LEMMA TableAM33XX ==
    /\ "dataram0" \in DOMAIN AM33XX /\ AM33XX["dataram0"] \in Nat
    /\ \A r \in DOMAIN AM33XX :
          AM33XX[r] \in AM33XX["dataram0"] .. AM33XX["dataram0"] + PruSize - 1
    /\ ExtPhys + ExtSize < AM33XX["dataram0"]
  BY SMT DEF AM33XX, Regions, PruSize, ExtSize, ExtPhys

(* So do those of the AM18xx.                                              *)
LEMMA TableAM18XX ==
    /\ "dataram0" \in DOMAIN AM18XX /\ AM18XX["dataram0"] \in Nat
    /\ \A r \in DOMAIN AM18XX :
          AM18XX[r] \in AM18XX["dataram0"] .. AM18XX["dataram0"] + PruSize - 1
    /\ AM18XX["dataram0"] + PruSize < ExtPhys
  BY SMT DEF AM18XX, Regions, PruSize, ExtPhys

(* Every region is found at its physical address and back, because the     *)
(* windows are where they are.                                             *)
LEMMA AddressesInv == DrvTypeOK /\ WindowsInv => AddressesAgree
<1> SUFFICES ASSUME DrvTypeOK, WindowsInv, mapped, Known
             PROVE  AddressesAgree
  BY DEF AddressesAgree
<1> DEFINE base == Table["dataram0"]
           x == prussdrv.extram
           n == prussdrv.extsize
<1>1. /\ device \in {"AM18XX", "AM33XX"}
      /\ prussdrv.version = IF device = "AM18XX" THEN 1 ELSE 2
      /\ prussdrv.dataram = PruVirtual /\ prussdrv.mapsize = PruSize
  BY DriverAssumption DEF Known, DrvTypeOK, WindowsInv, __pruss_detect_hw_version,
     PRUSS_V1, PRUSS_V2
<1>2. /\ base \in Nat /\ "dataram0" \in DOMAIN Table
      /\ \A r \in DOMAIN Table : Table[r] \in base .. base + PruSize - 1
      /\ ExtPhys + ExtSize < base \/ base + PruSize < ExtPhys
  BY <1>1, TableAM33XX, TableAM18XX DEF Table
<1>3. \A r \in DOMAIN Table : Phys(r) = Table[r]
  BY <1>1 DEF Phys, Table, PRUSS_V1, PRUSS_V2
<1>4. Phys("dataram0") = base
  BY <1>2, <1>3
<1>5. \A r \in DOMAIN Table : BaseOf(r) = PruVirtual + Table[r] - base
  BY <1>1, <1>3, <1>4 DEF BaseOf, Table, PRUSS_V2
<1>6. \/ x = 0 /\ n = 0
      \/ x = ExtVirtual /\ n = ExtSize
      \/ x = -1 /\ n = ExtSize
  BY DEF WindowsInv
<1> DEFINE phys(a) == CASE a >= PruVirtual /\ a < PruVirtual + PruSize -> a - PruVirtual + base
                        [] a >= x /\ a < x + n -> a - x + ExtPhys
                        [] OTHER -> 0
           virt(p) == CASE p >= base /\ p < base + PruSize -> PruVirtual + p - base
                        [] p >= ExtPhys /\ p < ExtPhys + n -> x + p - ExtPhys
                        [] OTHER -> 0
<1>7. \A a : prussdrv_get_phys_addr(a) = phys(a) /\ prussdrv_get_virt_addr(a) = virt(a)
  BY <1>1, <1>4 DEF prussdrv_get_phys_addr, prussdrv_get_virt_addr
<1> HIDE DEF base, x, n
<1>8. ASSUME NEW r \in DOMAIN Table
      PROVE  phys(BaseOf(r)) = Table[r] /\ virt(Table[r]) = BaseOf(r)
  <2>1. Table[r] \in base .. base + PruSize - 1 /\ BaseOf(r) = PruVirtual + Table[r] - base
    BY <1>2, <1>5
  <2> DEFINE t == Table[r]
  <2>2. t \in base .. base + PruSize - 1 /\ BaseOf(r) = PruVirtual + t - base
    BY <2>1
  <2> HIDE DEF t
  <2>3. phys(PruVirtual + t - base) = t
    <3> DEFINE a == PruVirtual + t - base
    <3>1. a \in Int /\ a >= PruVirtual /\ a < PruVirtual + PruSize /\ a - PruVirtual + base = t
      BY <2>2, <1>2, Layout
    <3> HIDE DEF a
    <3>2. phys(a) = t
      BY <3>1, <1>6, Layout
    <3> QED BY <3>2 DEF a
  <2>4. virt(t) = PruVirtual + t - base
    BY <2>2, <1>2, <1>6, Layout
  <2> HIDE DEF phys, virt
  <2> QED BY <2>2, <2>3, <2>4 DEF t
<1>9. phys(PruVirtual + PruSize) = 0
  BY <1>6, Layout
<1>10. ASSUME x > 0, NEW a \in {x, x + n - 1} PROVE virt(phys(a)) = a
  <2>1. x = ExtVirtual /\ n = ExtSize /\ a \in ExtVirtual .. ExtVirtual + ExtSize - 1
    BY <1>6, <1>10, Layout
  <2>2. phys(a) = a - x + ExtPhys
    BY <2>1, Layout
  <2> HIDE DEF phys
  <2> QED BY <2>1, <2>2, <1>2, Layout
<1> HIDE DEF phys, virt
<1> QED BY <1>1, <1>7, <1>8, <1>9, <1>10 DEF AddressesAgree, x, n

-----------------------------------------------------------------------------
(* Sequences of stores                                                     *)

(* Head and tail of a sequence.                                            *)
LEMMA Sounds ==
    ASSUME NEW s
    PROVE  /\ Sound(s) => s \in Seq({s[i] : i \in 1 .. Len(s)})
           /\ Sound(s) /\ s # <<>> =>
                 /\ Head(s) = s[1] /\ Sound(Tail(s)) /\ Len(Tail(s)) = Len(s) - 1
                 /\ Len(s) \in Nat \ {0}
                 /\ \A i \in 1 .. Len(s) - 1 : Tail(s)[i] = s[i + 1]
<1> DEFINE S == {s[i] : i \in 1 .. Len(s)}
<1>1. ASSUME Sound(s) PROVE s \in Seq(S)
  <2>1. Len(s) \in Nat /\ s = [i \in 1 .. Len(s) |-> s[i]]
    BY <1>1 DEF Sound
  <2>2. \A i \in 1 .. Len(s) : s[i] \in S
    OBVIOUS
  <2> HIDE DEF S
  <2>3. s \in [1 .. Len(s) -> S]
    BY <2>1, <2>2
  <2> QED BY <2>1, <2>3
<1> HIDE DEF S
<1>2. ASSUME Sound(s), s # <<>>
      PROVE  /\ Head(s) = s[1] /\ Sound(Tail(s)) /\ Len(Tail(s)) = Len(s) - 1
             /\ Len(s) \in Nat \ {0}
             /\ \A i \in 1 .. Len(s) - 1 : Tail(s)[i] = s[i + 1]
  <2>1. s \in Seq(S)
    BY <1>1, <1>2
  <2>2. Len(s) \in Nat \ {0}
    BY <2>1, <1>2, EmptySeq
  <2>3. Head(s) = s[1] /\ Tail(s) \in Seq(S) /\ Len(Tail(s)) = Len(s) - 1
        /\ \A i \in 1 .. Len(Tail(s)) : Tail(s)[i] = s[i + 1]
    BY <2>1, <1>2, HeadTailProperties
  <2>4. Sound(Tail(s))
    BY <2>3, LenProperties DEF Sound
  <2> QED BY <2>2, <2>3, <2>4
<1> QED BY <1>1, <1>2 DEF S

(* Members of Seq are sequences.                                           *)
LEMMA SoundIs ==
    ASSUME NEW S, NEW s \in Seq(S) PROVE Sound(s)
  BY LenProperties DEF Sound

(* Two sequences in one.                                                   *)
LEMMA Concat ==
    ASSUME NEW s, NEW t, Sound(s), Sound(t)
    PROVE  /\ Sound(s \o t) /\ Len(s \o t) = Len(s) + Len(t)
           /\ Len(s) \in Nat /\ Len(t) \in Nat
           /\ \A i \in 1 .. Len(s) : (s \o t)[i] = s[i]
           /\ \A i \in 1 .. Len(t) : (s \o t)[Len(s) + i] = t[i]
<1> DEFINE S == {s[i] : i \in 1 .. Len(s)} \union {t[i] : i \in 1 .. Len(t)}
<1>1. Len(s) \in Nat /\ Len(t) \in Nat
  BY DEF Sound
<1>2. s = [i \in 1 .. Len(s) |-> s[i]] /\ t = [i \in 1 .. Len(t) |-> t[i]]
  BY DEF Sound
<1>3. (\A i \in 1 .. Len(s) : s[i] \in S) /\ (\A i \in 1 .. Len(t) : t[i] \in S)
  OBVIOUS
<1> HIDE DEF S
<1>4. s \in [1 .. Len(s) -> S] /\ t \in [1 .. Len(t) -> S]
  BY <1>2, <1>3
<1>5. s \in Seq(S) /\ t \in Seq(S)
  BY <1>1, <1>4
<1>6. /\ s \o t \in Seq(S) /\ Len(s \o t) = Len(s) + Len(t)
      /\ \A i \in 1 .. Len(s) + Len(t) : (s \o t)[i] = IF i <= Len(s) THEN s[i] ELSE t[i - Len(s)]
  BY <1>5, ConcatProperties
<1>7. ASSUME NEW i \in 1 .. Len(t) PROVE (s \o t)[Len(s) + i] = t[i]
  <2> DEFINE k == Len(s) + i
  <2>1. k \in 1 .. Len(s) + Len(t) /\ ~(k <= Len(s)) /\ k - Len(s) = i
    BY <1>1
  <2> HIDE DEF k
  <2>2. (s \o t)[k] = t[i]
    BY <1>6, <2>1
  <2> QED BY <2>2 DEF k
<1>8. ASSUME NEW i \in 1 .. Len(s) PROVE (s \o t)[i] = s[i]
  BY <1>1, <1>6
<1> QED BY <1>1, <1>6, <1>7, <1>8, SoundIs

(* A store as a sequence.                                                  *)
LEMMA OneStore ==
    ASSUME NEW r, NEW n, NEW v
    PROVE  /\ Sound(Store(r, n, v)) /\ Len(Store(r, n, v)) = 1
           /\ Store(r, n, v)[1] = [to |-> r, n |-> n, v |-> v]
<1> DEFINE e == [to |-> r, n |-> n, v |-> v]
<1>1. Store(r, n, v) = <<e>>
  BY DEF Store
<1> HIDE DEF e
<1>2. <<e>> \in Seq({e}) /\ Len(<<e>>) = 1 /\ <<e>>[1] = e
  OBVIOUS
<1> QED BY <1>1, <1>2, SoundIs DEF e

(* A store for each of a list of pairs.                                    *)
LEMMA EachStore ==
    ASSUME NEW r, NEW X, NEW pairs \in Seq(X)
    PROVE  /\ Sound(StoreEach(r, pairs)) /\ Len(StoreEach(r, pairs)) = Len(pairs)
           /\ DOMAIN pairs = 1 .. Len(pairs) /\ Len(pairs) \in Nat
           /\ \A i \in 1 .. Len(pairs) :
                 StoreEach(r, pairs)[i] = [to |-> r, n |-> pairs[i][1], v |-> pairs[i][2]]
<1> DEFINE at(i) == [to |-> r, n |-> pairs[i][1], v |-> pairs[i][2]]
           S == {at(i) : i \in 1 .. Len(pairs)}
           s == StoreEach(r, pairs)
<1>1. DOMAIN pairs = 1 .. Len(pairs) /\ Len(pairs) \in Nat
  BY LenProperties
<1>2. s = [i \in 1 .. Len(pairs) |-> at(i)]
  BY <1>1 DEF StoreEach
<1> HIDE DEF at, s
<1>3. s \in [1 .. Len(pairs) -> S]
  BY <1>2
<1> HIDE DEF S
<1>4. s \in Seq(S)
  BY <1>1, <1>3
<1>5. Len(s) = Len(pairs)
  BY <1>1, <1>2, <1>4, LenProperties
<1>6. \A i \in 1 .. Len(pairs) : s[i] = at(i)
  BY <1>2
<1> QED BY <1>1, <1>4, <1>5, <1>6, SoundIs DEF s, at

(* Stores that touch neither programs nor maps.                            *)
Plain(s) ==
    /\ Sound(s)
    /\ \A p \in 1 .. Len(s) :
          /\ s[p].to \notin {"iram", "cmr", "hmr", "copy"}
          /\ s[p].to = "control" => s[p].v \in {0, 1}

(* One such store.                                                         *)
LEMMA PlainStore ==
    ASSUME NEW r, NEW n, NEW v, r \notin {"iram", "cmr", "hmr", "copy"},
           r = "control" => v \in {0, 1}
    PROVE  Plain(Store(r, n, v))
<1> DEFINE s == Store(r, n, v)
<1>0. Sound(s) /\ Len(s) = 1 /\ s[1] = [to |-> r, n |-> n, v |-> v]
  BY OneStore
<1> HIDE DEF s
<1>1. Sound(s) /\ Len(s) = 1 /\ s[1].to = r /\ s[1].v = v
  BY <1>0
<1>2. Plain(s)
  BY <1>1 DEF Plain
<1> QED BY <1>2 DEF s

(* Two lists of them.                                                      *)
LEMMA PlainConcat ==
    ASSUME NEW s, NEW t, Plain(s), Plain(t) PROVE Plain(s \o t)
<1>1. /\ Sound(s \o t) /\ Len(s \o t) = Len(s) + Len(t)
      /\ Len(s) \in Nat /\ Len(t) \in Nat
      /\ \A i \in 1 .. Len(s) : (s \o t)[i] = s[i]
      /\ \A i \in 1 .. Len(t) : (s \o t)[Len(s) + i] = t[i]
  BY Concat DEF Plain
<1>2. ASSUME NEW p \in 1 .. Len(s) + Len(t)
      PROVE  \/ p \in 1 .. Len(s) /\ (s \o t)[p] = s[p]
             \/ \E i \in 1 .. Len(t) : (s \o t)[p] = t[i]
  <2>1. CASE p <= Len(s)
    BY <1>1, <2>1
  <2>2. CASE p > Len(s)
    <3>1. p - Len(s) \in 1 .. Len(t) /\ Len(s) + (p - Len(s)) = p
      BY <1>1, <2>2
    <3> QED BY <1>1, <3>1
  <2> QED BY <1>1, <2>1, <2>2
<1> QED BY <1>1, <1>2 DEF Plain

(* One more element.                                                       *)
LEMMA Appended ==
    ASSUME NEW s, NEW t, Sound(s), Sound(t)
    PROVE  Len(t) = 1 =>
           /\ Sound(s \o t) /\ Len(s \o t) = Len(s) + 1
           /\ \A i \in 1 .. Len(s) : (s \o t)[i] = s[i]
           /\ (s \o t)[Len(s) + 1] = t[1]
<1>1. /\ Sound(s \o t) /\ Len(s \o t) = Len(s) + Len(t)
      /\ Len(s) \in Nat /\ Len(t) \in Nat
      /\ \A i \in 1 .. Len(s) : (s \o t)[i] = s[i]
      /\ \A i \in 1 .. Len(t) : (s \o t)[Len(s) + i] = t[i]
  BY Concat
<1>2. Len(t) = 1 => 1 \in 1 .. Len(t)
  OBVIOUS
<1> QED BY <1>1, <1>2

(* Four elements in one sequence.                                          *)
LEMMA FourStores ==
    ASSUME NEW a, NEW b, NEW c, NEW d
    PROVE  <<a>> \o (<<b>> \o <<c>>) \o <<d>> = <<a, b, c, d>>
<1> DEFINE S == {a, b, c, d}
<1>1. <<a>> \in Seq(S) /\ <<b>> \in Seq(S) /\ <<c>> \in Seq(S) /\ <<d>> \in Seq(S)
  OBVIOUS
<1>2. <<a, b, c, d>> \in Seq(S) /\ Len(<<a, b, c, d>>) = 4
      /\ <<a, b, c, d>>[1] = a /\ <<a, b, c, d>>[2] = b
      /\ <<a, b, c, d>>[3] = c /\ <<a, b, c, d>>[4] = d
  OBVIOUS
<1>3. Sound(<<a>>) /\ Sound(<<b>>) /\ Sound(<<c>>) /\ Sound(<<d>>)
      /\ Len(<<a>>) = 1 /\ Len(<<b>>) = 1 /\ Len(<<c>>) = 1 /\ Len(<<d>>) = 1
      /\ <<a>>[1] = a /\ <<b>>[1] = b /\ <<c>>[1] = c /\ <<d>>[1] = d
  BY <1>1, SoundIs
<1> HIDE DEF S
<1>4. ASSUME NEW s, NEW t, NEW u, NEW v, Sound(s), Sound(t), Sound(u), Sound(v),
             Len(s) = 1, Len(t) = 1, Len(u) = 1, Len(v) = 1
      PROVE  /\ Sound(s \o (t \o u) \o v) /\ Len(s \o (t \o u) \o v) = 4
             /\ (s \o (t \o u) \o v)[1] = s[1] /\ (s \o (t \o u) \o v)[2] = t[1]
             /\ (s \o (t \o u) \o v)[3] = u[1] /\ (s \o (t \o u) \o v)[4] = v[1]
  <2> DEFINE tu == t \o u
             stu == s \o tu
  <2>1. /\ Sound(tu) /\ Len(tu) = Len(t) + 1
        /\ \A i \in 1 .. Len(t) : tu[i] = t[i]
        /\ tu[Len(t) + 1] = u[1]
    BY <1>4, Appended
  <2>2. Sound(tu) /\ Len(tu) = 2 /\ tu[1] = t[1] /\ tu[2] = u[1]
    BY <2>1, <1>4
  <2> HIDE DEF tu
  <2>3. /\ Sound(stu) /\ Len(stu) = Len(s) + Len(tu)
        /\ \A i \in 1 .. Len(s) : stu[i] = s[i]
        /\ \A i \in 1 .. Len(tu) : stu[Len(s) + i] = tu[i]
    <3>1. Sound(s) /\ Sound(tu)
      BY <1>4, <2>2
    <3> QED BY <3>1, Concat
  <2>4. /\ Sound(stu) /\ Len(stu) = 3
        /\ stu[1] = s[1] /\ stu[2] = t[1] /\ stu[3] = u[1]
    <3>1. 1 \in 1 .. Len(tu) /\ 2 \in 1 .. Len(tu) /\ 1 \in 1 .. Len(s)
      BY <1>4, <2>2
    <3>2. stu[Len(s) + 1] = tu[1] /\ stu[Len(s) + 2] = tu[2] /\ stu[1] = s[1]
      BY <2>3, <3>1
    <3>3. Len(s) + 1 = 2 /\ Len(s) + 2 = 3 /\ Len(s) + Len(tu) = 3
      BY <1>4, <2>2
    <3> QED BY <2>2, <2>3, <3>2, <3>3
  <2> HIDE DEF stu
  <2>5. /\ Sound(stu \o v) /\ Len(stu \o v) = Len(stu) + 1
        /\ \A i \in 1 .. Len(stu) : (stu \o v)[i] = stu[i]
        /\ (stu \o v)[Len(stu) + 1] = v[1]
    BY <1>4, <2>4, Appended
  <2>6. /\ Sound(stu \o v) /\ Len(stu \o v) = 4
        /\ (stu \o v)[1] = s[1] /\ (stu \o v)[2] = t[1]
        /\ (stu \o v)[3] = u[1] /\ (stu \o v)[4] = v[1]
    BY <2>4, <2>5
  <2> QED BY <2>6 DEF stu, tu
<1> DEFINE abcd == <<a>> \o (<<b>> \o <<c>>) \o <<d>>
<1>5. Sound(abcd) /\ Len(abcd) = 4 /\ abcd[1] = a /\ abcd[2] = b /\ abcd[3] = c /\ abcd[4] = d
  BY <1>3, <1>4
<1> HIDE DEF abcd
<1>6. abcd = [i \in 1 .. 4 |-> abcd[i]]
      /\ <<a, b, c, d>> = [i \in 1 .. 4 |-> <<a, b, c, d>>[i]]
  BY <1>2, <1>5 DEF Sound
<1>7. \A i \in 1 .. 4 : abcd[i] = <<a, b, c, d>>[i]
  <2> TAKE i \in 1 .. 4
  <2>1. i = 1 \/ i = 2 \/ i = 3 \/ i = 4
    OBVIOUS
  <2> QED BY <2>1, <1>2, <1>5
<1> QED BY <1>6, <1>7 DEF abcd

(* The stores of prussdrv_exec_code_at, and what is left after each.       *)
LEMMA ExecIs ==
    ASSUME NEW n, NEW name, NEW addr
    PROVE  LET a == Off(n)
               b == Program(n, name, FALSE)
               c == Program(n, name, TRUE)
               d == On(n, addr)
           IN  /\ Exec(n, name, addr) = <<a, b, c, d>>
               /\ Tail(Exec(n, name, addr)) = <<b, c, d>>
               /\ Tail(Tail(Exec(n, name, addr))) = <<c, d>>
               /\ Tail(Tail(Tail(Exec(n, name, addr)))) = <<d>>
<1> DEFINE a == Off(n)
           b == Program(n, name, FALSE)
           c == Program(n, name, TRUE)
           d == On(n, addr)
<1>1. Exec(n, name, addr) = <<a>> \o (<<b>> \o <<c>>) \o <<d>>
  BY DEF Exec, prussdrv_exec_code_at, prussdrv_pru_disable, prussdrv_pru_write_memory,
     prussdrv_pru_enable_at, Store, Off, Program, On
<1> HIDE DEF a, b, c, d
<1>2. Exec(n, name, addr) = <<a, b, c, d>>
  BY <1>1, FourStores
<1>3. Tail(<<a, b, c, d>>) = <<b, c, d>> /\ Tail(<<b, c, d>>) = <<c, d>> /\ Tail(<<c, d>>) = <<d>>
  OBVIOUS
<1> QED BY <1>2, <1>3 DEF a, b, c, d

-----------------------------------------------------------------------------
(* The maps                                                                *)

(* The lists of prussdrv_pruintc_init: every event and channel once,       *)
(* every channel of an event with a host (DriverAssumption).               *)
LEMMA Pairs ==
    ASSUME NEW d \in IntcData
    PROVE  /\ d.sysevt_to_channel_map \in Seq(Nat \X (0 .. 9))
           /\ d.channel_to_host_map \in Seq((0 .. 9) \X (0 .. 9))
           /\ \A i \in DOMAIN d.sysevt_to_channel_map :
                 /\ d.sysevt_to_channel_map[i][1] \in Listed
                 /\ d.sysevt_to_channel_map[i][2] \in 0 .. 9
                 /\ \A k \in DOMAIN d.sysevt_to_channel_map :
                       d.sysevt_to_channel_map[i][1] = d.sysevt_to_channel_map[k][1] => i = k
                 /\ \E k \in DOMAIN d.channel_to_host_map :
                       d.channel_to_host_map[k][1] = d.sysevt_to_channel_map[i][2]
           /\ \A i \in DOMAIN d.channel_to_host_map :
                 /\ d.channel_to_host_map[i][1] \in 0 .. 9
                 /\ d.channel_to_host_map[i][2] \in 0 .. 9
                 /\ \A k \in DOMAIN d.channel_to_host_map :
                       d.channel_to_host_map[i][1] = d.channel_to_host_map[k][1] => i = k
<1> DEFINE A == d.sysevt_to_channel_map
           B == d.channel_to_host_map
<1>1. IsMap(A, Nat) /\ IsMap(B, 0 .. 9)
      /\ \A i \in DOMAIN A : \E k \in DOMAIN B : B[k][1] = A[i][2]
  BY DriverAssumption
<1>2. \A i \in DOMAIN A : A[i][1] \in Listed
  BY DEF Listed
<1> HIDE DEF A, B
<1>3. A \in Seq(Nat \X (0 .. 9)) /\ B \in Seq((0 .. 9) \X (0 .. 9))
  BY <1>1 DEF IsMap
<1>4. \A i \in DOMAIN A : A[i] \in Nat \X (0 .. 9)
  BY <1>3, ElementOfSeq, LenProperties
<1>5. \A i \in DOMAIN B : B[i] \in (0 .. 9) \X (0 .. 9)
  BY <1>3, ElementOfSeq, LenProperties
<1>6. \A i, k \in DOMAIN A : A[i][1] = A[k][1] => i = k
  BY <1>1 DEF IsMap
<1>7. \A i, k \in DOMAIN B : B[i][1] = B[k][1] => i = k
  BY <1>1 DEF IsMap
<1>8. \A i \in DOMAIN A : A[i][2] \in 0 .. 9
  BY <1>4
<1>9. \A i \in DOMAIN B : B[i][1] \in 0 .. 9 /\ B[i][2] \in 0 .. 9
  BY <1>5
<1> QED BY <1>1, <1>2, <1>3, <1>6, <1>7, <1>8, <1>9 DEF A, B


(* The first pair of x is the only one.                                    *)
LEMMA First ==
    ASSUME NEW map, NEW i \in DOMAIN map, DOMAIN map \subseteq Nat,
           \A k \in DOMAIN map : map[i][1] = map[k][1] => i = k
    PROVE  FirstOf(map, map[i][1]) = map[i][2]
<1> DEFINE hits == {k \in DOMAIN map : map[k][1] = map[i][1]}
<1>1. hits = {i}
  OBVIOUS
<1>2. i \in Nat
  OBVIOUS
<1>3. (CHOOSE k \in {i} : \A j \in {i} : k <= j) = i
  BY <1>2
<1> HIDE DEF hits
<1>4. hits # {} /\ (CHOOSE k \in hits : \A j \in hits : k <= j) = i
  BY <1>1, <1>3
<1> QED BY <1>4 DEF FirstOf, hits

(* No settings, no pairs, and nothing out of range.                        *)
LEMMA NothingAsked ==
    /\ DOMAIN NoData.sysevt_to_channel_map = {} /\ DOMAIN NoData.channel_to_host_map = {}
    /\ ~OutOfRange(NoData)
  BY DEF NoData, OutOfRange

(* The look-up through both lists finds what the controller has been given.*)
LEMMA LookedUp ==
    ASSUME NEW d \in IntcData, prussdrv.intc_data = d,
           \A i \in DOMAIN d.sysevt_to_channel_map :
              cmr[d.sysevt_to_channel_map[i][1]] = d.sysevt_to_channel_map[i][2],
           \A i \in DOMAIN d.channel_to_host_map :
              hmr[d.channel_to_host_map[i][1]] = d.channel_to_host_map[i][2],
           NEW i \in DOMAIN d.sysevt_to_channel_map, NEW e, e = d.sysevt_to_channel_map[i][1]
    PROVE  prussdrv_get_event_to_host_map(e) = hmr[cmr[e]] - 2
<1> DEFINE A == d.sysevt_to_channel_map
           B == d.channel_to_host_map
<1>1. /\ \A k \in DOMAIN A : A[i][1] = A[k][1] => i = k
      /\ A[i][2] \in 0 .. 9 /\ A \in Seq(Nat \X (0 .. 9)) /\ B \in Seq((0 .. 9) \X (0 .. 9))
      /\ \E k \in DOMAIN B : B[k][1] = A[i][2]
  BY Pairs
<1>2. PICK k \in DOMAIN B : B[k][1] = A[i][2]
  BY <1>1
<1>3. B[k][2] \in 0 .. 9 /\ \A j \in DOMAIN B : B[k][1] = B[j][1] => k = j
  BY Pairs
<1>4. cmr[A[i][1]] = A[i][2] /\ hmr[B[k][1]] = B[k][2]
  OBVIOUS
<1>5. DOMAIN A \subseteq Nat /\ DOMAIN B \subseteq Nat
  BY <1>1, LenProperties
<1>6. FirstOf(A, A[i][1]) = A[i][2] /\ FirstOf(B, B[k][1]) = B[k][2]
  <2>1. FirstOf(A, A[i][1]) = A[i][2]
    BY <1>1, <1>5, First
  <2>2. FirstOf(B, B[k][1]) = B[k][2]
    BY <1>3, <1>5, First
  <2> QED BY <2>1, <2>2
<1>7. PICK c \in 0 .. 9, t \in 0 .. 9 :
         FirstOf(A, e) = c /\ FirstOf(B, c) = t /\ hmr[cmr[e]] = t
  <2>1. FirstOf(A, e) = A[i][2] /\ FirstOf(B, A[i][2]) = B[k][2]
    BY <1>2, <1>6
  <2>2. hmr[cmr[e]] = B[k][2]
    BY <1>2, <1>4
  <2>3. A[i][2] \in 0 .. 9 /\ B[k][2] \in 0 .. 9
    BY <1>1, <1>3
  <2> QED BY <2>1, <2>2, <2>3
<1>8. ~(c < 0) /\ t # -1
  OBVIOUS
<1>9. prussdrv.intc_data.sysevt_to_channel_map = A /\ prussdrv.intc_data.channel_to_host_map = B
  OBVIOUS
<1> HIDE DEF A, B
<1>10. prussdrv_get_event_to_channel_map(e) = c
  BY <1>7, <1>9 DEF prussdrv_get_event_to_channel_map
<1>11. prussdrv_get_channel_to_host_map(c) = t - 2
  BY <1>7, <1>8, <1>9 DEF prussdrv_get_channel_to_host_map
<1>12. prussdrv_get_event_to_host_map(e) = t - 2
  BY <1>8, <1>10, <1>11 DEF prussdrv_get_event_to_host_map
<1> QED BY <1>7, <1>12

(* When nothing is to be done to the maps, they are what the stores were   *)
(* to make of them.                                                        *)
LEMMA MapsInv ==
    DrvTypeOK /\ CopyInv(todo, last) /\ (Known => MapInv(todo, last)) => MapsAgree
<1> SUFFICES ASSUME DrvTypeOK, CopyInv(todo, last), Known => MapInv(todo, last)
             PROVE  MapsAgree
  OBVIOUS
<1>1. prussdrv.intc_data \in {NoData} \union {d \in IntcData : ~OutOfRange(d)}
  BY DEF CopyInv, Accepted
<1> DEFINE A == last.sysevt_to_channel_map
           B == last.channel_to_host_map
<1>2. ASSUME Known, ~Initializing
      PROVE  /\ \A i \in DOMAIN A : cmr[A[i][1]] = A[i][2]
             /\ \A i \in DOMAIN B : hmr[B[i][1]] = B[i][2]
             /\ ~OutOfRange(last) =>
                   \A i \in DOMAIN A : prussdrv_get_event_to_host_map(A[i][1]) = hmr[cmr[A[i][1]]] - 2
  <2>1. Len(todo) \in Nat /\ \A p \in 1 .. Len(todo) : todo[p].to \notin {"cmr", "hmr", "copy"}
    <3>1. Len(todo) \in Nat /\ todo = [i \in 1 .. Len(todo) |-> todo[i]]
      BY DEF DrvTypeOK, Sound
    <3>2. DOMAIN todo = 1 .. Len(todo)
      BY <3>1
    <3> QED BY <3>1, <3>2, <1>2 DEF Initializing
  <2>2. ASSUME NEW r \in {"cmr", "hmr"}, NEW reg, NEW x, NEW v,
               WillBe(todo, Len(todo) + 1, r, reg, x, v)
        PROVE  reg[x] = v
    <3>1. Len(todo) + 1 - 1 = Len(todo)
      BY <2>1
    <3> QED BY <3>1, <2>1, <2>2 DEF WillBe
  <2>3. MapInv(todo, last)
    BY <1>2
  <2> HIDE DEF A, B
  <2>4. \A i \in DOMAIN A : cmr[A[i][1]] = A[i][2]
    <3>1. AllWillBe(todo, Len(todo) + 1, "cmr", cmr, A)
      BY <2>3 DEF MapInv, A
    <3> QED BY <3>1, <2>2 DEF AllWillBe
  <2>5. \A i \in DOMAIN B : hmr[B[i][1]] = B[i][2]
    <3>1. AllWillBe(todo, Len(todo) + 1, "hmr", hmr, B)
      BY <2>3 DEF MapInv, B
    <3> QED BY <3>1, <2>2 DEF AllWillBe
  <2>6. ASSUME ~OutOfRange(last), NEW i \in DOMAIN A
        PROVE  prussdrv_get_event_to_host_map(A[i][1]) = hmr[cmr[A[i][1]]] - 2
    <3>1. prussdrv.intc_data = last
      BY <2>1, <2>6 DEF CopyInv
    <3>2. last \in IntcData
      BY <2>6, NothingAsked DEF DrvTypeOK, A
    <3>3. PICK e : e = A[i][1]
      OBVIOUS
    <3>4. /\ \A k \in DOMAIN last.sysevt_to_channel_map :
                cmr[last.sysevt_to_channel_map[k][1]] = last.sysevt_to_channel_map[k][2]
          /\ \A k \in DOMAIN last.channel_to_host_map :
                hmr[last.channel_to_host_map[k][1]] = last.channel_to_host_map[k][2]
      BY <2>4, <2>5 DEF A, B
    <3>5. i \in DOMAIN last.sysevt_to_channel_map /\ e = last.sysevt_to_channel_map[i][1]
      BY <3>3, <2>6 DEF A
    <3>6. prussdrv_get_event_to_host_map(e) = hmr[cmr[e]] - 2
      BY <3>1, <3>2, <3>4, <3>5, LookedUp
    <3> QED BY <3>3, <3>6
  <2> QED BY <2>4, <2>5, <2>6
<1> QED BY <1>1, <1>2 DEF MapsAgree

(* Stores that do not concern the maps keep them as they are.              *)
LEMMA IdleMaps ==
    ASSUME DrvInv, todo = <<>>, NEW s, Sound(s),
           \A p \in 1 .. Len(s) : s[p].to \notin {"cmr", "hmr", "copy"}
    PROVE  CopyInv(s, last) /\ (Known => MapInv(s, last))
<1>1. Len(todo) = 0 /\ Len(s) \in Nat
  BY DEF Sound
<1>2. CopyInv(s, last)
  BY <1>1 DEF DrvInv, CopyInv
<1>3. ASSUME NEW r \in {"cmr", "hmr"}, NEW reg, NEW map, AllWillBe(todo, Len(todo) + 1, r, reg, map)
      PROVE  AllWillBe(s, Len(s) + 1, r, reg, map)
  <2>1. ASSUME NEW x, NEW v, WillBe(todo, 0 + 1, r, reg, x, v) PROVE WillBe(s, Len(s) + 1, r, reg, x, v)
    <3>1. reg[x] = v
      BY <2>1 DEF WillBe
    <3>2. ASSUME NEW k \in 1 .. Len(s) + 1 - 1 PROVE Spares(s, k, r, x)
      <4>1. k \in 1 .. Len(s)
        BY <1>1
      <4> QED BY <4>1 DEF Spares
    <3> QED BY <3>1, <3>2 DEF WillBe
  <2> QED BY <2>1, <1>1, <1>3 DEF AllWillBe
<1>4. ASSUME Known PROVE MapInv(s, last)
  <2>1. MapInv(todo, last)
    BY <1>4 DEF DrvInv
  <2> QED BY <2>1, <1>3 DEF MapInv
<1> QED BY <1>2, <1>4

-----------------------------------------------------------------------------
(* Steps between calls                                                     *)

(* The invariant holds initially.                                          *)
LEMMA InitInv == DrvInit => DrvInv
<1> SUFFICES ASSUME DrvInit PROVE DrvInv
  OBVIOUS
<1> USE DEF DrvInit
<1>1. Sound(todo) /\ Len(todo) = 0
  BY EmptySeq, SoundIs
<1>2. DOMAIN prussdrv = Fields /\ prussdrv.intc_data = NoData
      /\ prussdrv.extram = 0 /\ prussdrv.extsize = 0
  BY DEF Zero, Fields
<1>3. DrvTypeOK
  BY <1>1, <1>2 DEF DrvTypeOK
<1>4. WindowsInv
  BY <1>2 DEF WindowsInv
<1>5. ProgramInv
  BY <1>1 DEF ProgramInv, Doing, Quiet
<1>6. CopyInv(todo, last) /\ MapInv(todo, last)
  BY <1>1, <1>2, NothingAsked DEF CopyInv, Accepted, MapInv, AllWillBe
<1>7. RunsWholeProgram
  BY DEF RunsWholeProgram, Enabled
<1> QED BY <1>3, <1>4, <1>5, <1>6, <1>7 DEF DrvInv

(* A step that ends or begins no call keeps what the registers say.        *)
LEMMA NoStores ==
    ASSUME DrvInv, todo' = <<>>, UNCHANGED <<device, registers, own>>,
           DOMAIN prussdrv' = Fields,
           \/ prussdrv'.intc_data = NoData /\ last' = NoData
           \/ prussdrv'.intc_data = prussdrv.intc_data /\ last' = last /\ todo = <<>>,
           mapped' \in BOOLEAN, alive' \in BOOLEAN, WindowsInv'
    PROVE  DrvInv'
<1>1. /\ device' = device /\ cmr' = cmr /\ hmr' = hmr
      /\ control' = control /\ iram' = iram /\ own' = own
  BY DEF registers, intcRegs
<1>2. Sound(todo') /\ Len(todo') = 0
  BY EmptySeq, SoundIs
<1>3. DrvTypeOK'
  BY <1>1, <1>2 DEF DrvInv, DrvTypeOK
<1>4. ProgramInv'
  BY <1>1, <1>2 DEF DrvInv, ProgramInv, Known, Doing, Quiet
<1>5. CopyInv(todo, last)' /\ (Known' => MapInv(todo, last)')
  <2>1. CASE prussdrv'.intc_data = NoData /\ last' = NoData
    BY <2>1, <1>2, NothingAsked DEF CopyInv, Accepted, MapInv, AllWillBe
  <2>2. CASE prussdrv'.intc_data = prussdrv.intc_data /\ last' = last /\ todo = <<>>
    <3>1. CopyInv(todo, last)'
      BY <2>2 DEF DrvInv, CopyInv
    <3>2. Known' => MapInv(todo, last)'
      BY <2>2, <1>1 DEF DrvInv, Known, MapInv, AllWillBe, WillBe
    <3> QED BY <3>1, <3>2
  <2> QED BY <2>1, <2>2
<1>6. RunsWholeProgram'
  BY <1>1 DEF DrvInv, RunsWholeProgram, Enabled
<1> QED BY <1>3, <1>4, <1>5, <1>6 DEF DrvInv

(* The process dies, the registers stay.                                   *)
LEMMA DiesStep == ASSUME DrvInv, Dies PROVE DrvInv'
<1>1. /\ alive' = FALSE /\ todo' = <<>> /\ prussdrv' = Zero /\ mapped' = FALSE
      /\ last' = NoData /\ UNCHANGED <<device, registers, own>>
  BY DEF Dies
<1>2. DOMAIN prussdrv' = Fields /\ prussdrv'.intc_data = NoData
      /\ prussdrv'.extram = 0 /\ prussdrv'.extsize = 0
  BY <1>1 DEF Zero, Fields
<1>3. WindowsInv'
  BY <1>1, <1>2 DEF WindowsInv
<1> QED BY <1>1, <1>2, <1>3, NoStores

(* prussdrv_init, by a process that holds no windows.                      *)
LEMMA InitStep == ASSUME DrvInv, prussdrv_init PROVE DrvInv'
<1>1. /\ alive' = TRUE /\ prussdrv' = Zero /\ mapped' = mapped /\ todo' = todo
      /\ last' = NoData /\ UNCHANGED <<device, registers, own>> /\ (~alive \/ ~mapped)
  BY DEF prussdrv_init
<1>2. DOMAIN prussdrv' = Fields /\ prussdrv'.intc_data = NoData
      /\ prussdrv'.extram = 0 /\ prussdrv'.extsize = 0
  BY <1>1 DEF Zero, Fields
<1>3. todo = <<>> /\ mapped = FALSE
  BY <1>1 DEF DrvInv, DrvTypeOK, WindowsInv
<1>4. WindowsInv'
  BY <1>1, <1>2, <1>3 DEF WindowsInv
<1> QED BY <1>1, <1>2, <1>3, <1>4, NoStores

(* prussdrv_exit, between two calls.                                       *)
LEMMA ExitStep == ASSUME DrvInv, prussdrv_exit PROVE DrvInv'
<1>1. /\ todo = <<>> /\ mapped' = FALSE /\ UNCHANGED <<device, registers, own>>
      /\ prussdrv' = prussdrv /\ alive' = alive /\ todo' = todo /\ last' = last
  BY DEF prussdrv_exit, Idle
<1>2. WindowsInv'
  BY <1>1 DEF DrvInv, WindowsInv
<1> QED BY <1>1, <1>2, NoStores DEF DrvInv, DrvTypeOK

(* prussdrv_open, whichever of its steps fails.                            *)
LEMMA OpenStep ==
    ASSUME DrvInv, NEW h \in OpenHosts, prussdrv_open(h) PROVE DrvInv'
<1>1. todo = <<>> /\ alive
  BY DEF prussdrv_open, Idle
<1>2. /\ DOMAIN prussdrv = Fields /\ WindowsInv /\ DrvTypeOK
  BY DEF DrvInv, DrvTypeOK
<1>3. CASE prussdrv.fd[h] # 0
  <2>1. UNCHANGED drvVars
    BY <1>3 DEF prussdrv_open, Fails
  <2>2. todo' = <<>> /\ prussdrv' = prussdrv /\ mapped' = mapped /\ alive' = alive
        /\ UNCHANGED <<device, registers, own, last>>
    BY <2>1, <1>1 DEF drvVars
  <2>3. WindowsInv'
    BY <2>2, <1>1, <1>2 DEF WindowsInv, __pruss_detect_hw_version
  <2>4. mapped' \in BOOLEAN /\ alive' \in BOOLEAN /\ DOMAIN prussdrv' = Fields
    BY <2>2, <1>2 DEF DrvTypeOK
  <2>5. prussdrv'.intc_data = prussdrv.intc_data /\ last' = last /\ todo = <<>>
    BY <2>2, <1>1
  <2> QED BY <2>2, <2>3, <2>4, <2>5, NoStores
<1>4. ASSUME NEW drv, DOMAIN drv = Fields, drv.intc_data = prussdrv.intc_data,
             drv.version = prussdrv.version, drv.dataram = prussdrv.dataram,
             drv.mapsize = prussdrv.mapsize, drv.extram = prussdrv.extram,
             drv.extsize = prussdrv.extsize,
             prussdrv' = drv, UNCHANGED <<device, mapped, alive, todo, registers, own, last>>
      PROVE  DrvInv'
  <2>1. WindowsInv'
    BY <1>4, <1>1, <1>2 DEF WindowsInv, __pruss_detect_hw_version
  <2>2. mapped' \in BOOLEAN /\ alive' \in BOOLEAN
    BY <1>4, <1>2 DEF DrvTypeOK
  <2> QED BY <1>4, <1>1, <2>1, <2>2, NoStores
<1>5. CASE prussdrv' = [prussdrv EXCEPT !.fd[h] = -1]
           /\ UNCHANGED <<device, mapped, alive, todo, registers, own, last>>
  <2> DEFINE drv == [prussdrv EXCEPT !.fd[h] = -1]
  <2>1. /\ DOMAIN drv = Fields /\ drv.intc_data = prussdrv.intc_data
        /\ drv.version = prussdrv.version /\ drv.dataram = prussdrv.dataram
        /\ drv.mapsize = prussdrv.mapsize /\ drv.extram = prussdrv.extram
        /\ drv.extsize = prussdrv.extsize
    BY <1>2 DEF Fields
  <2>2. prussdrv' = drv
    BY <1>5
  <2> HIDE DEF drv
  <2> QED BY <2>1, <2>2, <1>4, <1>5
<1>6. CASE __prussdrv_memmap_init([prussdrv EXCEPT !.fd[h] = 3 + h])
  <2> DEFINE drv == [prussdrv EXCEPT !.fd[h] = 3 + h]
             with == IF drv.mmap_fd = 0 THEN [drv EXCEPT !.mmap_fd = FirstFile(drv.fd)] ELSE drv
             pru == [with EXCEPT !.dataram = PruVirtual, !.mapsize = PruSize,
                                 !.version = __pruss_detect_hw_version]
  <2>1. /\ DOMAIN drv = Fields /\ drv.intc_data = prussdrv.intc_data
        /\ drv.version = prussdrv.version /\ drv.dataram = prussdrv.dataram
        /\ drv.mapsize = prussdrv.mapsize /\ drv.extram = prussdrv.extram
        /\ drv.extsize = prussdrv.extsize
    BY <1>2 DEF Fields
  <2>2. \/ /\ prussdrv' = with
           /\ UNCHANGED <<device, mapped, alive, todo, registers, own, last>>
        \/ Dies
        \/ /\ mapped' = TRUE
           /\ prussdrv' \in {pru} \union
                            {[pru EXCEPT !.extsize = ExtSize, !.extram = base] :
                               base \in {ExtVirtual, -1}}
           /\ UNCHANGED <<device, alive, todo, registers, own, last>>
    BY <1>6 DEF __prussdrv_memmap_init
  <2> HIDE DEF drv
  <2>3. /\ DOMAIN with = Fields /\ with.intc_data = prussdrv.intc_data
        /\ with.version = prussdrv.version /\ with.dataram = prussdrv.dataram
        /\ with.mapsize = prussdrv.mapsize /\ with.extram = prussdrv.extram
        /\ with.extsize = prussdrv.extsize
    BY <2>1 DEF Fields
  <2> HIDE DEF with
  <2>4. /\ DOMAIN pru = Fields /\ pru.intc_data = prussdrv.intc_data
        /\ pru.version = __pruss_detect_hw_version /\ pru.dataram = PruVirtual
        /\ pru.mapsize = PruSize /\ pru.extram = prussdrv.extram
        /\ pru.extsize = prussdrv.extsize
    BY <2>3 DEF Fields
  <2> HIDE DEF pru
  <2>5. CASE prussdrv' = with /\ UNCHANGED <<device, mapped, alive, todo, registers, own, last>>
    BY <2>3, <2>5, <1>4
  <2>6. CASE Dies
    BY <2>6, DiesStep
  <2>7. CASE /\ mapped' = TRUE
             /\ prussdrv' \in {pru} \union
                              {[pru EXCEPT !.extsize = ExtSize, !.extram = base] :
                                 base \in {ExtVirtual, -1}}
             /\ UNCHANGED <<device, alive, todo, registers, own, last>>
    <3>1. /\ DOMAIN prussdrv' = Fields /\ prussdrv'.intc_data = prussdrv.intc_data
          /\ prussdrv'.version = __pruss_detect_hw_version /\ prussdrv'.dataram = PruVirtual
          /\ prussdrv'.mapsize = PruSize
          /\ \/ prussdrv'.extram = prussdrv.extram /\ prussdrv'.extsize = prussdrv.extsize
             \/ prussdrv'.extram \in {ExtVirtual, -1} /\ prussdrv'.extsize = ExtSize
      <4>1. CASE prussdrv' = pru
        BY <4>1, <2>4
      <4>2. ASSUME NEW base \in {ExtVirtual, -1},
                   prussdrv' = [pru EXCEPT !.extsize = ExtSize, !.extram = base]
            PROVE  /\ DOMAIN prussdrv' = Fields /\ prussdrv'.intc_data = prussdrv.intc_data
                   /\ prussdrv'.version = __pruss_detect_hw_version /\ prussdrv'.dataram = PruVirtual
                   /\ prussdrv'.mapsize = PruSize
                   /\ prussdrv'.extram \in {ExtVirtual, -1} /\ prussdrv'.extsize = ExtSize
        BY <4>2, <2>4 DEF Fields
      <4> QED BY <4>1, <4>2, <2>7
    <3>2. device' = device /\ alive' = alive /\ todo' = todo /\ UNCHANGED <<device, registers, own, last>>
      BY <2>7
    <3>3. WindowsInv'
      <4>1. prussdrv'.version = __pruss_detect_hw_version'
        BY <3>1, <3>2 DEF __pruss_detect_hw_version
      <4>2. <<prussdrv'.extram, prussdrv'.extsize>> \in
               {<<0, 0>>, <<ExtVirtual, ExtSize>>, <<-1, ExtSize>>}
        BY <3>1, <1>2 DEF WindowsInv
      <4> QED BY <4>1, <4>2, <3>1, <3>2, <1>1, <2>7 DEF WindowsInv
    <3> QED BY <3>1, <3>2, <3>3, <1>1, <1>2, <2>7, NoStores DEF DrvTypeOK
  <2> QED BY <2>2, <2>5, <2>6, <2>7
<1> QED BY <1>3, <1>5, <1>6 DEF prussdrv_open

-----------------------------------------------------------------------------
(* Calls that begin                                                        *)

(* A call that begins: its stores are to do, or it crashes for want of     *)
(* windows.                                                                *)
LEMMA CallStep ==
    ASSUME DrvInv, Idle, NEW s, NEW hands, NEW d, Begins(s, hands, d), Sound(s),
           own \subseteq hands, d \in {NoData} \union IntcData,
           Doing(s, hands), CopyInv(s, d), Known => MapInv(s, d)
    PROVE  DrvInv'
<1>1. CASE ~mapped
  BY <1>1, DiesStep DEF Begins
<1>2. CASE mapped
  <2>1. /\ todo' = s /\ prussdrv' = prussdrv /\ mapped' = mapped /\ alive' = alive /\ alive
        /\ device' = device /\ cmr' = cmr /\ hmr' = hmr /\ own' = hands /\ last' = d
        /\ control' = control /\ iram' = iram
    BY <1>2 DEF Begins, registers, intcRegs, Idle
  <2>2. DrvTypeOK'
    BY <2>1 DEF DrvInv, DrvTypeOK
  <2>3. WindowsInv'
    BY <2>1, <1>2 DEF DrvInv, WindowsInv, __pruss_detect_hw_version
  <2>4. ProgramInv'
    BY <2>1 DEF DrvInv, ProgramInv, Known, Doing
  <2>5. CopyInv(todo, last)'
    BY <2>1 DEF CopyInv
  <2>6. Known' => MapInv(todo, last)'
    BY <2>1 DEF Known, MapInv, AllWillBe, WillBe
  <2>7. RunsWholeProgram'
    BY <2>1 DEF DrvInv, RunsWholeProgram, Enabled
  <2> QED BY <2>2, <2>3, <2>4, <2>5, <2>6, <2>7 DEF DrvInv
<1> QED BY <1>1, <1>2

(* One that does not concern the maps.                                     *)
LEMMA ProgramCall ==
    ASSUME DrvInv, Idle, NEW s, NEW hands, Begins(s, hands, last), Sound(s),
           own \subseteq hands, Doing(s, hands),
           \A p \in 1 .. Len(s) : s[p].to \notin {"cmr", "hmr", "copy"}
    PROVE  DrvInv'
<1>1. CopyInv(s, last) /\ (Known => MapInv(s, last))
  BY IdleMaps DEF Idle
<1>2. last \in {NoData} \union IntcData
  BY DEF DrvInv, DrvTypeOK
<1> QED BY <1>1, <1>2, CallStep

(* A call whose stores are plain.                                          *)
LEMMA PlainCall ==
    ASSUME DrvInv, Idle, NEW s, Calls(s), Plain(s) PROVE DrvInv'
<1>1. Sound(s) /\ Doing(s, own)
  BY DEF Plain, Quiet, Doing
<1>2. Begins(s, own, last)
  BY DEF Calls
<1>3. \A p \in 1 .. Len(s) : s[p].to \notin {"cmr", "hmr", "copy"}
  BY DEF Plain
<1> QED BY <1>1, <1>2, <1>3, ProgramCall

(* A program is executed.                                                  *)
LEMMA ExecCall ==
    ASSUME DrvInv, Idle, NEW n \in Numbers, NEW name, NEW addr \in Entries,
           Executable(name), Calls(Exec(n, name, addr))
    PROVE  DrvInv'
<1> DEFINE s == Exec(n, name, addr)
           a == Off(n)
           b == Program(n, name, FALSE)
           c == Program(n, name, TRUE)
           d == On(n, addr)
<1>1. s = <<a, b, c, d>>
  BY ExecIs
<1>2. a.to = "control" /\ b.to = "iram" /\ c.to = "iram" /\ d.to = "control"
  BY DEF Off, Program, On
<1>3. Doing(s, own)
  BY DEF Doing
<1>4. Begins(s, own, last)
  BY DEF Calls
<1> HIDE DEF s, a, b, c, d
<1>5. s \in Seq({a, b, c, d}) /\ Len(s) = 4 /\ s[1] = a /\ s[2] = b /\ s[3] = c /\ s[4] = d
  BY <1>1
<1>6. Sound(s)
  BY <1>5, SoundIs
<1>7. \A p \in 1 .. Len(s) : s[p].to \notin {"cmr", "hmr", "copy"}
  <2> TAKE p \in 1 .. Len(s)
  <2>1. p = 1 \/ p = 2 \/ p = 3 \/ p = 4
    BY <1>5
  <2> QED BY <2>1, <1>2, <1>5
<1> QED BY <1>3, <1>4, <1>6, <1>7, ProgramCall

(* A PRU is started by hand.                                               *)
LEMMA StartCall ==
    ASSUME DrvInv, Idle, NEW n \in Numbers, NEW addr \in Entries, Starts(n, addr)
    PROVE  DrvInv'
<1> DEFINE s == prussdrv_pru_enable_at(n, addr)
           hands == IF iram[n].whole THEN own ELSE own \union {n}
<1>1. s = <<On(n, addr)>>
  BY DEF prussdrv_pru_enable_at, Store, On
<1>2. own \subseteq hands /\ (iram[n].whole \/ n \in hands)
  OBVIOUS
<1>3. Begins(s, hands, last)
  BY DEF Starts
<1> HIDE DEF s, hands
<1>4. Doing(s, hands)
  BY <1>1, <1>2 DEF Doing
<1>5. Sound(s) /\ Len(s) = 1 /\ s[1] = On(n, addr)
  <2> DEFINE e == On(n, addr)
  <2>1. s = <<e>>
    BY <1>1
  <2> HIDE DEF e
  <2>2. <<e>> \in Seq({e}) /\ Len(<<e>>) = 1 /\ <<e>>[1] = e
    OBVIOUS
  <2> QED BY <2>1, <2>2, SoundIs DEF e
<1>6. \A p \in 1 .. Len(s) : s[p].to \notin {"cmr", "hmr", "copy"}
  <2> TAKE p \in 1 .. Len(s)
  <2>1. s[p].to = "control"
    BY <1>5 DEF On
  <2> QED BY <2>1
<1> QED BY <1>2, <1>3, <1>4, <1>5, <1>6, ProgramCall

(* A block, in two stores.                                                 *)
LEMMA BlockStores ==
    ASSUME NEW ram, NEW n, NEW at, NEW name, NEW size
    PROVE  LET s == prussdrv_pru_write_memory(ram, n, at, name, size)
           IN  /\ Sound(s) /\ Len(s) = 2
               /\ \A p \in 1 .. Len(s) :
                     /\ s[p].to = ram /\ s[p].n = n
                     /\ \E done \in BOOLEAN : s[p].v = Part(at, name, size, done)
<1> DEFINE x == Part(at, name, size, FALSE)
           y == Part(at, name, size, TRUE)
           a == Store(ram, n, x)
           b == Store(ram, n, y)
           s == a \o b
<1>1. prussdrv_pru_write_memory(ram, n, at, name, size) = s
  BY DEF prussdrv_pru_write_memory
<1>2. \A v \in {x, y} : \E done \in BOOLEAN : v = Part(at, name, size, done)
  OBVIOUS
<1> HIDE DEF x, y
<1>3. /\ Sound(a) /\ Len(a) = 1 /\ a[1] = [to |-> ram, n |-> n, v |-> x]
      /\ Sound(b) /\ Len(b) = 1 /\ b[1] = [to |-> ram, n |-> n, v |-> y]
  BY OneStore
<1> HIDE DEF a, b
<1>4. /\ Sound(s) /\ Len(s) = Len(a) + 1
      /\ \A i \in 1 .. Len(a) : s[i] = a[i]
      /\ s[Len(a) + 1] = b[1]
  BY <1>3, Appended
<1> HIDE DEF s
<1>5. Len(s) = 2 /\ s[1] = a[1] /\ s[2] = b[1]
  BY <1>3, <1>4
<1>6. ASSUME NEW p \in 1 .. Len(s)
      PROVE  s[p].to = ram /\ s[p].n = n /\ s[p].v \in {x, y}
  <2>1. p = 1 \/ p = 2
    BY <1>5
  <2> QED BY <2>1, <1>3, <1>5
<1>7. \A p \in 1 .. Len(s) :
         /\ s[p].to = ram /\ s[p].n = n
         /\ \E done \in BOOLEAN : s[p].v = Part(at, name, size, done)
  BY <1>2, <1>6
<1> QED BY <1>1, <1>4, <1>5, <1>7

(* A memory is written by hand.                                            *)
LEMMA WriteCall ==
    ASSUME DrvInv, Idle, NEW n \in Numbers, NEW ram \in DOMAIN Room, NEW at \in WordOffsets,
           NEW name \in DOMAIN Blocks, NEW hands,
           hands = IF ram = "iram" THEN own \union {n} ELSE own,
           Begins(prussdrv_pru_write_memory(ram, n, at, name, Blocks[name]), hands, last)
    PROVE  DrvInv'
<1> DEFINE s == prussdrv_pru_write_memory(ram, n, at, name, Blocks[name])
<1>1. Sound(s) /\ Len(s) = 2
      /\ \A p \in 1 .. Len(s) :
            /\ s[p].to = ram /\ s[p].n = n
            /\ \E done \in BOOLEAN : s[p].v = Part(at, name, Blocks[name], done)
  BY BlockStores
<1> HIDE DEF s
<1>2. ram \in {"iram", "dataram", "sharedram"} /\ at \in Nat
  BY DriverAssumption DEF Room
<1>3. CASE ram = "iram"
  <2>1. Patching(s, n)
    BY <1>1, <1>2, <1>3 DEF Patching
  <2>2. Doing(s, hands)
    BY <2>1, <1>3 DEF Doing
  <2> QED BY <2>2, <1>1, <1>3, ProgramCall DEF s
<1>4. CASE ram # "iram"
  <2>1. Plain(s)
    BY <1>1, <1>2, <1>4 DEF Plain
  <2> QED BY <2>1, <1>4, PlainCall DEF Calls, s
<1> QED BY <1>3, <1>4

(* A map that is cleared and filled.                                       *)
Cleared(r, pairs) == Store(r, 0, -1) \o StoreEach(r, pairs)

(* Where its stores are.                                                   *)
LEMMA Fill ==
    ASSUME NEW r, NEW X, NEW pairs \in Seq(X), NEW s, s = Cleared(r, pairs)
    PROVE  /\ Sound(s) /\ Len(s) = 1 + Len(pairs) /\ Len(pairs) \in Nat
           /\ s[1] = [to |-> r, n |-> 0, v |-> -1]
           /\ \A i \in 1 .. Len(pairs) :
                 s[1 + i] = [to |-> r, n |-> pairs[i][1], v |-> pairs[i][2]]
<1> DEFINE h == Store(r, 0, -1)
           t == StoreEach(r, pairs)
<1>1. Sound(h) /\ Len(h) = 1 /\ h[1] = [to |-> r, n |-> 0, v |-> -1]
  BY OneStore
<1>2. Sound(t) /\ Len(t) = Len(pairs) /\ Len(pairs) \in Nat
      /\ \A i \in 1 .. Len(pairs) : t[i] = [to |-> r, n |-> pairs[i][1], v |-> pairs[i][2]]
  BY EachStore
<1>3. s = h \o t
  BY DEF Cleared
<1> HIDE DEF h, t
<1>10. Sound(h) /\ Sound(t)
  BY <1>1, <1>2
<1>4. /\ Sound(h \o t) /\ Len(h \o t) = Len(h) + Len(t)
      /\ Len(h) \in Nat /\ Len(t) \in Nat
      /\ \A i \in 1 .. Len(h) : (h \o t)[i] = h[i]
      /\ \A i \in 1 .. Len(t) : (h \o t)[Len(h) + i] = t[i]
  BY <1>10, Concat
<1>5. Sound(s) /\ Len(s) = 1 + Len(pairs)
  BY <1>1, <1>2, <1>3, <1>4
<1>6. s[1] = h[1]
  BY <1>1, <1>3, <1>4
<1>7. \A i \in 1 .. Len(pairs) : s[1 + i] = t[i]
  BY <1>1, <1>2, <1>3, <1>4
<1> QED BY <1>1, <1>2, <1>5, <1>6, <1>7

(* The end of prussdrv_pruintc_init.                                       *)
Ends(d) ==
    IF OutOfRange(d) THEN <<>>
    ELSE Store("esr", 0, {d.sysevts_enabled[i] : i \in DOMAIN d.sysevts_enabled})
         \o Store("secr", 0, {d.sysevts_enabled[i] : i \in DOMAIN d.sysevts_enabled})
         \o Store("hieisr", 0, d.host_enable_bitmask)
         \o Store("copy", 0, d)

(* It copies the settings last or, when an event is out of range, not at   *)
(* all.                                                                    *)
LEMMA End ==
    ASSUME NEW d
    PROVE  /\ Sound(Ends(d))
           /\ \A p \in 1 .. Len(Ends(d)) :
                 /\ Ends(d)[p].to \notin {"control", "iram", "cmr", "hmr"}
                 /\ Ends(d)[p].to = "copy" =>
                       p = Len(Ends(d)) /\ Ends(d)[p].v = d /\ ~OutOfRange(d)
           /\ ~OutOfRange(d) => Len(Ends(d)) = 4 /\ Ends(d)[4].to = "copy"
<1>1. CASE OutOfRange(d)
  <2>1. Ends(d) = <<>>
    BY <1>1 DEF Ends
  <2>2. <<>> \in Seq({}) /\ Len(<<>>) = 0
    OBVIOUS
  <2>3. Sound(<<>>)
    BY <2>2, SoundIs
  <2> QED BY <1>1, <2>1, <2>2, <2>3
<1>2. CASE ~OutOfRange(d)
  <2> DEFINE E == {d.sysevts_enabled[i] : i \in DOMAIN d.sysevts_enabled}
             a == Store("esr", 0, E)
             b == Store("secr", 0, E)
             c == Store("hieisr", 0, d.host_enable_bitmask)
             e == Store("copy", 0, d)
             s == a \o b \o c
  <2>1. Ends(d) = s \o e
    BY <1>2 DEF Ends
  <2> HIDE DEF E
  <2>2. Plain(a) /\ Plain(b) /\ Plain(c)
        /\ Len(a) = 1 /\ Len(b) = 1 /\ Len(c) = 1
        /\ a[1].to = "esr" /\ b[1].to = "secr" /\ c[1].to = "hieisr"
    <3>1. /\ Len(a) = 1 /\ a[1] = [to |-> "esr", n |-> 0, v |-> E]
          /\ Len(b) = 1 /\ b[1] = [to |-> "secr", n |-> 0, v |-> E]
          /\ Len(c) = 1 /\ c[1] = [to |-> "hieisr", n |-> 0, v |-> d.host_enable_bitmask]
      BY OneStore
    <3>2. Plain(a) /\ Plain(b) /\ Plain(c)
      BY PlainStore
    <3> HIDE DEF a, b, c
    <3> QED BY <3>1, <3>2
  <2>3. Sound(e) /\ Len(e) = 1 /\ e[1] = [to |-> "copy", n |-> 0, v |-> d]
    BY OneStore
  <2> HIDE DEF a, b, c, e
  <2>4. Sound(s) /\ Len(s) = 3 /\ s[1].to = "esr" /\ s[2].to = "secr" /\ s[3].to = "hieisr"
    <3> DEFINE ab == a \o b
    <3>1. Sound(a) /\ Sound(b) /\ Sound(c)
      BY <2>2 DEF Plain
    <3>2. /\ Sound(ab) /\ Len(ab) = Len(a) + 1
          /\ \A i \in 1 .. Len(a) : ab[i] = a[i]
          /\ ab[Len(a) + 1] = b[1]
      BY <2>2, <3>1, Appended
    <3> HIDE DEF ab
    <3>3. Sound(ab) /\ Len(ab) = 2 /\ ab[1] = a[1] /\ ab[2] = b[1]
      BY <2>2, <3>2
    <3>4. /\ Sound(ab \o c) /\ Len(ab \o c) = Len(ab) + 1
          /\ \A i \in 1 .. Len(ab) : (ab \o c)[i] = ab[i]
          /\ (ab \o c)[Len(ab) + 1] = c[1]
      BY <2>2, <3>1, <3>3, Appended
    <3>5. Sound(ab \o c) /\ Len(ab \o c) = 3
          /\ (ab \o c)[1] = a[1] /\ (ab \o c)[2] = b[1] /\ (ab \o c)[3] = c[1]
      BY <3>3, <3>4
    <3> QED BY <2>2, <3>5 DEF ab
  <2> HIDE DEF s
  <2>5. /\ Sound(s \o e) /\ Len(s \o e) = Len(s) + 1
        /\ \A i \in 1 .. Len(s) : (s \o e)[i] = s[i]
        /\ (s \o e)[Len(s) + 1] = e[1]
    BY <2>3, <2>4, Appended
  <2>6. /\ Sound(Ends(d)) /\ Len(Ends(d)) = 4
        /\ Ends(d)[1].to = "esr" /\ Ends(d)[2].to = "secr" /\ Ends(d)[3].to = "hieisr"
        /\ Ends(d)[4].to = "copy" /\ Ends(d)[4].v = d
    BY <2>1, <2>3, <2>4, <2>5
  <2>7. ASSUME NEW p \in 1 .. 4 PROVE p = 1 \/ p = 2 \/ p = 3 \/ p = 4
    OBVIOUS
  <2> QED BY <1>2, <2>6, <2>7
<1> QED BY <1>1, <1>2

(* Where all the stores of prussdrv_pruintc_init are.                      *)
LEMMA Placed ==
    ASSUME NEW d \in IntcData
    PROVE  LET s == prussdrv_pruintc_init(d)
               A == d.sysevt_to_channel_map
               B == d.channel_to_host_map
               a == Len(A)
               b == Len(B)
           IN  /\ a \in Nat /\ b \in Nat /\ Len(s) \in Nat
               /\ DOMAIN A = 1 .. a /\ DOMAIN B = 1 .. b
               /\ Sound(s) /\ Len(s) >= a + b + 2
               /\ s[1] = [to |-> "cmr", n |-> 0, v |-> -1]
               /\ \A i \in 1 .. a : s[1 + i] = [to |-> "cmr", n |-> A[i][1], v |-> A[i][2]]
               /\ s[a + 2] = [to |-> "hmr", n |-> 0, v |-> -1]
               /\ \A i \in 1 .. b : s[a + 2 + i] = [to |-> "hmr", n |-> B[i][1], v |-> B[i][2]]
               /\ \A p \in a + b + 3 .. Len(s) :
                     /\ s[p].to \notin {"control", "iram", "cmr", "hmr"}
                     /\ s[p].to = "copy" => p = Len(s) /\ s[p].v = d /\ ~OutOfRange(d)
               /\ ~OutOfRange(d) => \E p \in 1 .. Len(s) : s[p].to = "copy"
<1> DEFINE s == prussdrv_pruintc_init(d)
           A == d.sysevt_to_channel_map
           B == d.channel_to_host_map
           a == Len(A)
           b == Len(B)
           c == Cleared("cmr", A)
           h == Store("hmr", 0, -1)
           e == StoreEach("hmr", B)
           x == Ends(d)
<1>1. A \in Seq(Nat \X (0 .. 9)) /\ B \in Seq((0 .. 9) \X (0 .. 9))
  BY Pairs
<1>2. s = c \o h \o e \o x
  BY DEF prussdrv_pruintc_init, Cleared, Ends
<1> HIDE DEF s, A, B
<1>3. DOMAIN A = 1 .. a /\ DOMAIN B = 1 .. b
  BY <1>1, LenProperties
<1>4. /\ Sound(c) /\ Len(c) = 1 + a /\ a \in Nat
      /\ c[1] = [to |-> "cmr", n |-> 0, v |-> -1]
      /\ \A i \in 1 .. a : c[1 + i] = [to |-> "cmr", n |-> A[i][1], v |-> A[i][2]]
  BY <1>1, Fill
<1>5. Sound(h) /\ Len(h) = 1 /\ h[1] = [to |-> "hmr", n |-> 0, v |-> -1]
  BY OneStore
<1>6. /\ Sound(e) /\ Len(e) = b /\ b \in Nat
      /\ \A i \in 1 .. b : e[i] = [to |-> "hmr", n |-> B[i][1], v |-> B[i][2]]
  BY <1>1, EachStore
<1>7. /\ Sound(x)
      /\ \A p \in 1 .. Len(x) :
            /\ x[p].to \notin {"control", "iram", "cmr", "hmr"}
            /\ x[p].to = "copy" => p = Len(x) /\ x[p].v = d /\ ~OutOfRange(d)
      /\ ~OutOfRange(d) => Len(x) = 4 /\ x[4].to = "copy"
  BY End
<1> HIDE DEF a, b, c, h, e, x
<1> DEFINE ch == c \o h
           che == ch \o e
<1>8. /\ Sound(ch) /\ Len(ch) = a + 2
      /\ \A i \in 1 .. a + 1 : ch[i] = c[i]
      /\ ch[a + 2] = h[1]
  <2>1. Sound(c) /\ Sound(h)
    BY <1>4, <1>5
  <2>2. Len(h) = 1 => /\ Sound(ch) /\ Len(ch) = Len(c) + 1
                      /\ \A i \in 1 .. Len(c) : ch[i] = c[i]
                      /\ ch[Len(c) + 1] = h[1]
    BY <2>1, Appended
  <2> HIDE DEF ch
  <2>3. Len(c) = a + 1 /\ a + 1 + 1 = a + 2
    BY <1>4
  <2> QED BY <2>2, <2>3, <1>4, <1>5
<1>9. Sound(ch) /\ Sound(e)
  BY <1>8, <1>6
<1> HIDE DEF ch
<1>10. /\ Sound(che) /\ Len(che) = Len(ch) + Len(e)
       /\ Len(ch) \in Nat /\ Len(e) \in Nat
       /\ \A i \in 1 .. Len(ch) : che[i] = ch[i]
       /\ \A i \in 1 .. Len(e) : che[Len(ch) + i] = e[i]
  BY <1>9, Concat
<1>11. Sound(che) /\ Sound(x)
  BY <1>10, <1>7
<1> HIDE DEF che
<1>12. /\ Sound(che \o x) /\ Len(che \o x) = Len(che) + Len(x)
       /\ Len(che) \in Nat /\ Len(x) \in Nat
       /\ \A i \in 1 .. Len(che) : (che \o x)[i] = che[i]
       /\ \A i \in 1 .. Len(x) : (che \o x)[Len(che) + i] = x[i]
  BY <1>11, Concat
<1>13. s = che \o x
  BY <1>2 DEF che, ch
<1>14. /\ Sound(s) /\ Len(s) = a + 2 + b + Len(x) /\ Len(x) \in Nat
       /\ \A i \in 1 .. a + 2 + b : s[i] = che[i]
       /\ \A i \in 1 .. Len(x) : s[a + 2 + b + i] = x[i]
  BY <1>4, <1>6, <1>8, <1>10, <1>12, <1>13
<1>15. /\ \A i \in 1 .. a + 2 : s[i] = ch[i]
       /\ \A i \in 1 .. b : s[a + 2 + i] = e[i]
  <2>1. Len(che) = a + 2 + b /\ Len(ch) = a + 2 /\ Len(e) = b /\ a \in Nat /\ b \in Nat
    BY <1>4, <1>6, <1>8, <1>10
  <2>2. ASSUME NEW i \in 1 .. b PROVE s[a + 2 + i] = e[i]
    <3> DEFINE k == a + 2 + i
    <3>1. k \in 1 .. a + 2 + b
      BY <2>1
    <3>2. che[k] = e[i]
      BY <1>10, <2>1
    <3> HIDE DEF k
    <3>3. s[k] = e[i]
      BY <1>14, <3>1, <3>2
    <3> QED BY <3>3 DEF k
  <2>3. ASSUME NEW i \in 1 .. a + 2 PROVE s[i] = ch[i]
    <3>1. i \in 1 .. a + 2 + b /\ i \in 1 .. Len(ch)
      BY <2>1
    <3> QED BY <3>1, <1>14, <1>10
  <2> QED BY <2>2, <2>3
<1>16. s[1] = c[1] /\ s[a + 2] = h[1] /\ \A i \in 1 .. a : s[1 + i] = c[1 + i]
  <2>1. 1 \in 1 .. a + 2 /\ 1 \in 1 .. a + 1 /\ a + 2 \in 1 .. a + 2
    BY <1>4
  <2>2. s[1] = c[1]
    BY <2>1, <1>8, <1>15
  <2>3. s[a + 2] = h[1]
    BY <2>1, <1>8, <1>15
  <2>4. ASSUME NEW i \in 1 .. a PROVE s[1 + i] = c[1 + i]
    <3>1. 1 + i \in 1 .. a + 2 /\ 1 + i \in 1 .. a + 1
      BY <1>4
    <3> QED BY <3>1, <1>8, <1>15
  <2> QED BY <2>2, <2>3, <2>4
<1>17. ASSUME NEW p \in a + b + 3 .. Len(s)
       PROVE  /\ s[p].to \notin {"control", "iram", "cmr", "hmr"}
              /\ s[p].to = "copy" => p = Len(s) /\ s[p].v = d /\ ~OutOfRange(d)
  <2> DEFINE i == p - (a + 2 + b)
  <2>1. i \in 1 .. Len(x) /\ p = a + 2 + b + i /\ (i = Len(x) => p = Len(s))
    BY <1>4, <1>6, <1>14
  <2> HIDE DEF i
  <2>2. s[p] = x[i]
    BY <2>1, <1>14
  <2> QED BY <2>1, <2>2, <1>7
<1>18. a \in Nat /\ b \in Nat /\ Len(s) \in Nat /\ Len(s) >= a + b + 2
  BY <1>4, <1>6, <1>14
<1>19. \A i \in 1 .. a : s[1 + i] = [to |-> "cmr", n |-> A[i][1], v |-> A[i][2]]
  BY <1>4, <1>16
<1>20. \A i \in 1 .. b : s[a + 2 + i] = [to |-> "hmr", n |-> B[i][1], v |-> B[i][2]]
  BY <1>6, <1>15
<1>21. s[1] = [to |-> "cmr", n |-> 0, v |-> -1] /\ s[a + 2] = [to |-> "hmr", n |-> 0, v |-> -1]
  BY <1>4, <1>5, <1>16
<1>22. Sound(s)
  BY <1>14
<1>23. ASSUME ~OutOfRange(d) PROVE \E p \in 1 .. Len(s) : s[p].to = "copy"
  <2> DEFINE p == a + 2 + b + 4
  <2>1. p \in 1 .. Len(s) /\ 4 \in 1 .. Len(x)
    <3>1. Len(x) = 4 /\ a \in Nat /\ b \in Nat /\ Len(s) = a + 2 + b + Len(x)
      BY <1>4, <1>6, <1>7, <1>14, <1>23
    <3> QED BY <3>1
  <2>2. s[p] = x[4]
    BY <2>1, <1>14
  <2> HIDE DEF p
  <2> QED BY <2>1, <2>2, <1>7, <1>23
<1> QED BY <1>3, <1>17, <1>18, <1>19, <1>20, <1>21, <1>22, <1>23 DEF s, A, B, a, b

(* They fill both maps with the settings before the settings are copied:   *)
(* a pair is stored once, and only pairs of other events or channels       *)
(* follow it.                                                              *)
LEMMA IntcStores ==
    ASSUME NEW d \in IntcData
    PROVE  /\ Sound(prussdrv_pruintc_init(d)) /\ Quiet(prussdrv_pruintc_init(d))
           /\ MapInv(prussdrv_pruintc_init(d), d)
           /\ prussdrv.intc_data \in Accepted => CopyInv(prussdrv_pruintc_init(d), d)
<1> DEFINE s == prussdrv_pruintc_init(d)
           A == d.sysevt_to_channel_map
           B == d.channel_to_host_map
           a == Len(A)
           b == Len(B)
<1>1. /\ a \in Nat /\ b \in Nat /\ Len(s) \in Nat
      /\ DOMAIN A = 1 .. a /\ DOMAIN B = 1 .. b
      /\ Sound(s) /\ Len(s) >= a + b + 2
  BY Placed
<1>2. /\ s[1] = [to |-> "cmr", n |-> 0, v |-> -1]
      /\ s[a + 2] = [to |-> "hmr", n |-> 0, v |-> -1]
  BY Placed
<1>3. \A i \in 1 .. a : s[1 + i] = [to |-> "cmr", n |-> A[i][1], v |-> A[i][2]]
  BY Placed
<1>4. \A i \in 1 .. b : s[a + 2 + i] = [to |-> "hmr", n |-> B[i][1], v |-> B[i][2]]
  BY Placed
<1>5. \A p \in a + b + 3 .. Len(s) :
         /\ s[p].to \notin {"control", "iram", "cmr", "hmr"}
         /\ s[p].to = "copy" => p = Len(s) /\ s[p].v = d /\ ~OutOfRange(d)
  BY Placed
<1>16. ~OutOfRange(d) => \E p \in 1 .. Len(s) : s[p].to = "copy"
  BY Placed
<1>6. /\ \A i \in 1 .. a : /\ A[i][2] \in 0 .. 9
                           /\ \A k \in 1 .. a : A[i][1] = A[k][1] => i = k
      /\ \A i \in 1 .. b : /\ B[i][2] \in 0 .. 9
                           /\ \A k \in 1 .. b : B[i][1] = B[k][1] => i = k
  BY <1>1, Pairs
<1> HIDE DEF s, a, b
<1>7. \A i \in 1 .. a : s[1 + i].to = "cmr" /\ s[1 + i].n = A[i][1] /\ s[1 + i].v = A[i][2]
  <2> TAKE i \in 1 .. a
  <2>1. s[1 + i] = [to |-> "cmr", n |-> A[i][1], v |-> A[i][2]]
    BY <1>3
  <2> QED BY <2>1
<1>8. \A i \in 1 .. b : s[a + 2 + i].to = "hmr" /\ s[a + 2 + i].n = B[i][1] /\ s[a + 2 + i].v = B[i][2]
  <2> TAKE i \in 1 .. b
  <2>1. s[a + 2 + i] = [to |-> "hmr", n |-> B[i][1], v |-> B[i][2]]
    BY <1>4
  <2> QED BY <2>1
<1>9. s[1].to = "cmr" /\ s[a + 2].to = "hmr"
  BY <1>2
<1>10. ASSUME NEW p \in 1 .. Len(s)
       PROVE  \/ p = 1
              \/ \E i \in 1 .. a : p = 1 + i
              \/ p = a + 2
              \/ \E i \in 1 .. b : p = a + 2 + i
              \/ p \in a + b + 3 .. Len(s)
  <2>1. CASE p \in 2 .. a + 1
    <3>1. p - 1 \in 1 .. a /\ p = 1 + (p - 1)
      BY <2>1, <1>1
    <3> QED BY <3>1
  <2>2. CASE p \in a + 3 .. a + b + 2
    <3>1. p - (a + 2) \in 1 .. b /\ p = a + 2 + (p - (a + 2))
      BY <2>2, <1>1
    <3> QED BY <3>1
  <2> QED BY <2>1, <2>2, <1>1
<1>11. Quiet(s)
  <2> SUFFICES ASSUME NEW p \in 1 .. Len(s)
               PROVE  s[p].to # "iram" /\ s[p].to # "control"
    BY DEF Quiet
  <2>1. CASE p = 1
    BY <2>1, <1>9
  <2>2. ASSUME NEW i \in 1 .. a, p = 1 + i PROVE s[p].to = "cmr"
    BY <2>2, <1>7
  <2>3. CASE p = a + 2
    BY <2>3, <1>9
  <2>4. ASSUME NEW i \in 1 .. b, p = a + 2 + i PROVE s[p].to = "hmr"
    BY <2>4, <1>8
  <2>5. CASE p \in a + b + 3 .. Len(s)
    BY <2>5, <1>5
  <2> QED BY <1>10, <2>1, <2>2, <2>3, <2>4, <2>5
<1>12. ASSUME NEW p \in 1 .. Len(s), s[p].to = "copy"
       PROVE  p = Len(s) /\ s[p].v = d /\ ~OutOfRange(d)
  <2>1. p # 1 /\ p # a + 2
    BY <1>9, <1>12
  <2>2. \A i \in 1 .. a : p # 1 + i
    BY <1>7, <1>12
  <2>3. \A i \in 1 .. b : p # a + 2 + i
    BY <1>8, <1>12
  <2>4. p \in a + b + 3 .. Len(s)
    BY <2>1, <2>2, <2>3, <1>10
  <2> QED BY <2>4, <1>5, <1>12
<1>13. ASSUME NEW p \in {Len(s) + 1}, NEW i \in 1 .. a
       PROVE  WillBe(s, p, "cmr", cmr, A[i][1], A[i][2])
  <2> DEFINE q == 1 + i
  <2>1. q \in 1 .. p - 1 /\ s[q].to = "cmr" /\ s[q].n = A[i][1] /\ s[q].v = A[i][2]
    BY <1>1, <1>7, <1>13
  <2>2. ASSUME NEW k \in q + 1 .. p - 1 PROVE Spares(s, k, "cmr", A[i][1])
    <3>1. k \in 1 .. Len(s) /\ k > i + 1
      BY <1>1
    <3>2. ASSUME NEW j \in 1 .. a, k = 1 + j PROVE Spares(s, k, "cmr", A[i][1])
      <4>1. j # i
        BY <3>1, <3>2
      <4>2. s[k].v = A[j][2] /\ s[k].n = A[j][1]
        BY <3>2, <1>7
      <4>3. A[j][2] \in 0 .. 9 /\ A[j][1] # A[i][1]
        BY <4>1, <1>6
      <4>4. A[j][2] # -1
        <5>1. \A v \in 0 .. 9 : v # -1
          BY SMT
        <5> QED BY <5>1, <4>3, Zenon
      <4>5. s[k].v # -1 /\ s[k].n # A[i][1]
        BY <4>2, <4>3, <4>4
      <4> QED BY <4>5 DEF Spares
    <3>3. CASE k = a + 2
      <4>1. s[k].to = "hmr"
        BY <3>3, <1>9
      <4> QED BY <4>1 DEF Spares
    <3>4. ASSUME NEW j \in 1 .. b, k = a + 2 + j PROVE Spares(s, k, "cmr", A[i][1])
      <4>1. s[k].to = "hmr"
        BY <3>4, <1>8
      <4> QED BY <4>1 DEF Spares
    <3>5. CASE k \in a + b + 3 .. Len(s)
      <4>1. s[k].to # "cmr"
        BY <3>5, <1>5
      <4> QED BY <4>1 DEF Spares
    <3>6. k # 1
      BY <3>1
    <3> QED BY <3>1, <3>2, <3>3, <3>4, <3>5, <3>6, <1>10
  <2> HIDE DEF q
  <2> QED BY <2>1, <2>2 DEF WillBe
<1>14. ASSUME NEW p \in {Len(s) + 1}, NEW i \in 1 .. b
       PROVE  WillBe(s, p, "hmr", hmr, B[i][1], B[i][2])
  <2> DEFINE q == a + 2 + i
  <2>1. q \in 1 .. p - 1 /\ s[q].to = "hmr" /\ s[q].n = B[i][1] /\ s[q].v = B[i][2]
    BY <1>1, <1>8, <1>14
  <2>2. ASSUME NEW k \in q + 1 .. p - 1 PROVE Spares(s, k, "hmr", B[i][1])
    <3>1. k \in 1 .. Len(s) /\ k > a + 2 + i
      BY <1>1
    <3>2. ASSUME NEW j \in 1 .. b, k = a + 2 + j PROVE Spares(s, k, "hmr", B[i][1])
      <4>1. j # i
        BY <3>1, <3>2, <1>1
      <4>2. s[k].v = B[j][2] /\ s[k].n = B[j][1]
        BY <3>2, <1>8
      <4>3. B[j][2] \in 0 .. 9 /\ B[j][1] # B[i][1]
        BY <4>1, <1>6
      <4>4. B[j][2] # -1
        <5>1. \A v \in 0 .. 9 : v # -1
          BY SMT
        <5> QED BY <5>1, <4>3, Zenon
      <4>5. s[k].v # -1 /\ s[k].n # B[i][1]
        BY <4>2, <4>3, <4>4
      <4> QED BY <4>5 DEF Spares
    <3>3. k # 1 /\ k # a + 2 /\ \A j \in 1 .. a : k # 1 + j
      BY <3>1, <1>1
    <3>4. CASE k \in a + b + 3 .. Len(s)
      <4>1. s[k].to # "hmr"
        BY <3>4, <1>5
      <4> QED BY <4>1 DEF Spares
    <3> QED BY <3>1, <3>2, <3>3, <3>4, <1>10
  <2> HIDE DEF q
  <2> QED BY <2>1, <2>2 DEF WillBe
<1>15. MapInv(s, d)
  BY <1>1, <1>13, <1>14 DEF MapInv, AllWillBe
<1>17. ASSUME prussdrv.intc_data \in Accepted PROVE CopyInv(s, d)
  BY <1>12, <1>16, <1>17 DEF CopyInv, Accepted
<1> QED BY <1>1, <1>11, <1>15, <1>17 DEF s

(* Every call.                                                             *)
LEMMA CallKeeps == ASSUME DrvInv, Call PROVE DrvInv'
<1>1. Idle
  BY DEF Call
<1>2. ASSUME UNCHANGED drvVars PROVE DrvInv'
  <2>1. /\ device' = device /\ prussdrv' = prussdrv /\ mapped' = mapped /\ alive' = alive
        /\ last' = last /\ todo' = <<>> /\ UNCHANGED <<device, registers, own>> /\ todo = <<>>
    BY <1>1, <1>2 DEF drvVars, Idle
  <2>2. WindowsInv'
    BY <2>1 DEF DrvInv, WindowsInv, __pruss_detect_hw_version
  <2> QED BY <2>1, <2>2, NoStores DEF DrvInv, DrvTypeOK
<1>3. ASSUME NEW n \in Numbers, Calls(prussdrv_pru_reset(n)) \/ Calls(prussdrv_pru_disable(n))
      PROVE  DrvInv'
  <2>1. Plain(prussdrv_pru_reset(n)) /\ Plain(prussdrv_pru_disable(n))
    BY PlainStore DEF prussdrv_pru_reset, prussdrv_pru_disable
  <2> QED BY <2>1, <1>1, <1>3, PlainCall
<1>4. ASSUME NEW n \in Numbers, NEW name, NEW addr \in Entries, Executes(n, name, addr)
      PROVE  DrvInv'
  <2>1. CASE Fails
    BY <2>1, <1>2 DEF Fails
  <2>2. CASE name \in DOMAIN Files /\ Files[name] \in 1 .. PRUSS_MAX_IRAM_SIZE
             /\ Calls(prussdrv_exec_code_at(n, name, Files[name], addr))
    <3>1. Executable(name) /\ SizeOf(name) = Files[name]
      BY <2>2 DEF Executable, SizeOf
    <3> QED BY <3>1, <2>2, <1>1, ExecCall DEF Exec
  <2>3. CASE name \in DOMAIN Blocks /\ Calls(prussdrv_exec_code_at(n, name, Blocks[name], addr))
    <3>1. name \notin DOMAIN Files
      BY <2>3, DriverAssumption
    <3>2. Executable(name) /\ SizeOf(name) = Blocks[name]
      BY <3>1, <2>3 DEF Executable, SizeOf
    <3> QED BY <3>2, <2>3, <1>1, ExecCall DEF Exec
  <2> QED BY <2>1, <2>2, <2>3, <1>4 DEF Executes
<1>5. ASSUME NEW n, NEW name, NEW size PROVE Plain(prussdrv_load_data(n, name, size))
  <2> DEFINE s == prussdrv_pru_write_memory("dataram", n, 0, name, size)
  <2>1. Plain(Store("control", n, 1))
    BY PlainStore
  <2>2. Sound(s) /\ \A p \in 1 .. Len(s) : s[p].to = "dataram"
    BY BlockStores
  <2> HIDE DEF s
  <2>3. Plain(s)
    BY <2>2 DEF Plain
  <2>4. prussdrv_load_data(n, name, size) = Store("control", n, 1) \o s
    BY DEF prussdrv_load_data, prussdrv_pru_disable, s
  <2> QED BY <2>1, <2>3, <2>4, PlainConcat
<1>6. ASSUME NEW n \in Numbers, NEW name \in DOMAIN Files, prussdrv_load_datafile(n, name)
      PROVE  DrvInv'
  <2>1. \/ UNCHANGED drvVars \/ Dies \/ Calls(prussdrv_load_data(n, name, Files[name]))
    <3>1. Files[name] \in Int
      BY DriverAssumption
    <3> QED BY <3>1, <1>6 DEF prussdrv_load_datafile, Fails
  <2> QED BY <2>1, <1>1, <1>2, <1>5, DiesStep, PlainCall
<1>7. ASSUME NEW n, NEW name, Calls(prussdrv_load_data(n, name, Blocks[name])) PROVE DrvInv'
  BY <1>1, <1>5, <1>7, PlainCall
<1>8. ASSUME NEW n \in Numbers, NEW name \in DOMAIN Blocks, NEW ram \in DOMAIN Room,
             NEW wordoffset \in WordOffsets, Writes(ram, n, wordoffset, name)
      PROVE  DrvInv'
  <2>1. CASE Fails
    BY <2>1, <1>2 DEF Fails
  <2>2. CASE Begins(prussdrv_pru_write_memory(ram, n, wordoffset, name, Blocks[name]),
                    IF ram = "iram" THEN own \union {n} ELSE own, last)
    <3>1. PICK hands : hands = IF ram = "iram" THEN own \union {n} ELSE own
      OBVIOUS
    <3>2. Begins(prussdrv_pru_write_memory(ram, n, wordoffset, name, Blocks[name]), hands, last)
      BY <3>1, <2>2
    <3> QED BY <3>1, <3>2, <1>1, WriteCall
  <2> QED BY <2>1, <2>2, <1>8 DEF Writes
<1>9. ASSUME NEW d \in IntcData, Begins(prussdrv_pruintc_init(d), own, d) PROVE DrvInv'
  <2>1. prussdrv.intc_data \in Accepted
    BY DEF DrvInv, CopyInv
  <2>2. /\ Sound(prussdrv_pruintc_init(d)) /\ Quiet(prussdrv_pruintc_init(d))
        /\ MapInv(prussdrv_pruintc_init(d), d) /\ CopyInv(prussdrv_pruintc_init(d), d)
    BY <2>1, IntcStores
  <2>3. Doing(prussdrv_pruintc_init(d), own)
    BY <2>2 DEF Doing
  <2> QED BY <2>2, <2>3, <1>1, <1>9, CallStep
<1>10. ASSUME NEW s \in Sent,
              \/ Calls(prussdrv_pru_send_event(s[1]))
              \/ Calls(prussdrv_pru_clear_event(s[2], s[1]))
              \/ Calls(prussdrv_pru_send_wait_clear_event(s[1], s[2], s[1]))
       PROVE  DrvInv'
  <2>1. /\ Plain(prussdrv_pru_send_event(s[1]))
        /\ Plain(prussdrv_pru_wait_event(s[2]))
    BY PlainStore DEF prussdrv_pru_send_event, prussdrv_pru_wait_event
  <2>2. Plain(prussdrv_pru_clear_event(s[2], s[1]))
    <3>1. Plain(Store("secr", 0, {s[1]})) /\ Plain(Store("hieisr", 0, {s[2] + 2}))
      BY PlainStore
    <3> QED BY <3>1, PlainConcat DEF prussdrv_pru_clear_event
  <2>3. Plain(prussdrv_pru_send_wait_clear_event(s[1], s[2], s[1]))
    BY <2>1, <2>2, PlainConcat DEF prussdrv_pru_send_wait_clear_event
  <2> QED BY <2>1, <2>2, <2>3, <1>1, <1>10, PlainCall
<1>11. \/ \E n \in Numbers :
            \/ Calls(prussdrv_pru_reset(n)) \/ Calls(prussdrv_pru_disable(n))
            \/ \E name \in DOMAIN Files : prussdrv_load_datafile(n, name)
            \/ \E addr \in Entries :
                 Starts(n, addr) \/ \E name : Executes(n, name, addr)
            \/ \E name \in DOMAIN Blocks :
                 \/ Calls(prussdrv_load_data(n, name, Blocks[name]))
                 \/ \E ram \in DOMAIN Room, wordoffset \in WordOffsets :
                       Writes(ram, n, wordoffset, name)
       \/ \E d \in IntcData : Begins(prussdrv_pruintc_init(d), own, d)
       \/ \E s \in Sent :
            \/ Calls(prussdrv_pru_send_event(s[1]))
            \/ Calls(prussdrv_pru_clear_event(s[2], s[1]))
            \/ Calls(prussdrv_pru_send_wait_clear_event(s[1], s[2], s[1]))
  BY DEF Call
<1>12. ASSUME NEW n \in Numbers, NEW addr \in Entries, Starts(n, addr) PROVE DrvInv'
  BY <1>1, <1>12, StartCall
<1> QED BY <1>3, <1>4, <1>6, <1>7, <1>8, <1>9, <1>10, <1>11, <1>12

-----------------------------------------------------------------------------
(* Stores                                                                  *)

(* With an unknown version every base is that of the first data memory.    *)
LEMMA Reach ==
    ASSUME DrvInv, mapped
    PROVE  \A r : Reaches(r) = IF Known THEN r ELSE "dataram0"
  BY DriverAssumption DEF DrvInv, DrvTypeOK, WindowsInv, Reaches, Known,
     __pruss_detect_hw_version, PRUSS_V1, PRUSS_V2

(* Where store h leaves the entry x of map r, which the stores want to be  *)
(* v.                                                                      *)
Leaves(h, r, x, v, reg, new) ==
    /\ (h.to = r => h.v # -1 /\ h.n # x) => new[x] = reg[x]
    /\ h.to = r /\ h.n = x /\ h.v = v => new[x] = v

(* What the stores before p + 1 will do is what the first one has done     *)
(* and the rest will do.                                                   *)
LEMMA WillBeShift ==
    ASSUME NEW s, Sound(s), s # <<>>, NEW p \in 1 .. Len(s), NEW r, NEW x, NEW v,
           NEW reg, NEW new, WillBe(s, p + 1, r, reg, x, v), Leaves(s[1], r, x, v, reg, new)
    PROVE  WillBe(Tail(s), p, r, new, x, v)
<1> DEFINE t == Tail(s)
<1>1. Len(s) \in Nat \ {0} /\ Len(t) = Len(s) - 1 /\ \A i \in 1 .. Len(s) - 1 : t[i] = s[i + 1]
  BY Sounds
<1> HIDE DEF t
<1>2. ASSUME NEW k \in 1 .. p - 1, Spares(s, k + 1, r, x) PROVE Spares(t, k, r, x)
  <2>1. t[k] = s[k + 1]
    BY <1>1
  <2> QED BY <2>1, <1>2 DEF Spares
<1>3. ASSUME NEW q \in 1 .. p, s[q].to = r, s[q].n = x, s[q].v = v,
             \A k \in q + 1 .. p : Spares(s, k, r, x)
      PROVE  WillBe(t, p, r, new, x, v)
  <2>1. CASE q = 1
    <3>1. new[x] = v
      BY <2>1, <1>3 DEF Leaves
    <3>2. ASSUME NEW k \in 1 .. p - 1 PROVE Spares(t, k, r, x)
      <4>1. k + 1 \in q + 1 .. p
        BY <2>1
      <4> QED BY <4>1, <1>2, <1>3
    <3> QED BY <3>1, <3>2 DEF WillBe
  <2>2. CASE q # 1
    <3> DEFINE j == q - 1
    <3>1. j \in 1 .. p - 1 /\ j \in 1 .. Len(s) - 1 /\ q = j + 1
      BY <2>2, <1>1
    <3>2. t[j] = s[q]
      BY <3>1, <1>1
    <3>3. ASSUME NEW k \in j + 1 .. p - 1 PROVE Spares(t, k, r, x)
      <4>1. k + 1 \in q + 1 .. p /\ k \in 1 .. p - 1
        BY <3>1
      <4> QED BY <4>1, <1>2, <1>3
    <3> HIDE DEF j
    <3>4. t[j].to = r /\ t[j].n = x /\ t[j].v = v
      BY <3>2, <1>3
    <3> QED BY <3>1, <3>3, <3>4 DEF WillBe
  <2> QED BY <2>1, <2>2
<1>4. ASSUME reg[x] = v, \A k \in 1 .. p : Spares(s, k, r, x)
      PROVE  WillBe(t, p, r, new, x, v)
  <2>1. Spares(s, 1, r, x) /\ \A k \in 1 .. p - 1 : Spares(s, k + 1, r, x)
    BY <1>1, <1>4
  <2>2. new[x] = v
    BY <2>1, <1>4 DEF Spares, Leaves
  <2>3. \A k \in 1 .. p - 1 : Spares(t, k, r, x)
    BY <2>1, <1>2
  <2> QED BY <2>2, <2>3 DEF WillBe
<1>5. p + 1 - 1 = p
  OBVIOUS
<1>6. \/ \E q \in 1 .. p : /\ s[q].to = r /\ s[q].n = x /\ s[q].v = v
                           /\ \A k \in q + 1 .. p : Spares(s, k, r, x)
      \/ reg[x] = v /\ \A k \in 1 .. p : Spares(s, k, r, x)
  BY <1>5 DEF WillBe
<1> QED BY <1>3, <1>4, <1>6 DEF t

(* What every store of a call has in common.                               *)
Moved ==
    /\ todo # <<>> /\ todo' = Tail(todo) /\ device' = device /\ mapped' = mapped
    /\ alive' = alive /\ mapped /\ alive /\ last' = last
    /\ Sound(todo) /\ Len(todo) \in Nat \ {0} /\ Sound(Tail(todo))
    /\ Head(todo) = todo[1] /\ Len(Tail(todo)) = Len(todo) - 1
    /\ \A i \in 1 .. Len(todo) - 1 : Tail(todo)[i] = todo[i + 1]

(* Every step does that.                                                   *)
LEMMA StepMoves == ASSUME DrvInv, Step PROVE Moved
<1>1. /\ todo # <<>> /\ todo' = Tail(todo) /\ device' = device /\ mapped' = mapped
      /\ alive' = alive /\ last' = last
  BY DEF Step
<1>2. mapped /\ alive /\ Sound(todo)
  BY <1>1 DEF DrvInv, WindowsInv, DrvTypeOK
<1> QED BY <1>1, <1>2, Sounds DEF Moved

(* A store on the way keeps what the rest will do to the maps.             *)
LEMMA MapShift ==
    ASSUME DrvInv, Known, Moved,
           \A x \in Listed, v \in 0 .. 9 : Leaves(todo[1], "cmr", x, v, cmr, cmr'),
           \A x, v \in 0 .. 9 : Leaves(todo[1], "hmr", x, v, hmr, hmr')
    PROVE  MapInv(todo, last)'
<1> DEFINE t == Tail(todo)
           m == Len(todo)
           A == last.sysevt_to_channel_map
           B == last.channel_to_host_map
<1>1. Sound(todo) /\ MapInv(todo, last) /\ last \in {NoData} \union IntcData
  BY DEF DrvInv, DrvTypeOK
<1>2. /\ m \in Nat \ {0} /\ Len(t) + 1 = m /\ todo # <<>> /\ m \in 1 .. Len(todo)
      /\ todo' = t /\ last' = last
  BY DEF Moved
<1>3. /\ \A i \in DOMAIN A : A[i][1] \in Listed /\ A[i][2] \in 0 .. 9
      /\ \A i \in DOMAIN B : B[i][1] \in 0 .. 9 /\ B[i][2] \in 0 .. 9
  <2>1. CASE last = NoData
    BY <2>1, NothingAsked
  <2>2. CASE last \in IntcData
    BY <2>2, Pairs
  <2> QED BY <2>1, <2>2, <1>1
<1>4. AllWillBe(todo, m + 1, "cmr", cmr, A) /\ AllWillBe(todo, m + 1, "hmr", hmr, B)
  BY <1>1 DEF MapInv
<1> HIDE DEF A, B, m
<1>5. ASSUME NEW i \in DOMAIN A PROVE WillBe(t, m, "cmr", cmr', A[i][1], A[i][2])
  <2>1. WillBe(todo, m + 1, "cmr", cmr, A[i][1], A[i][2])
    BY <1>4 DEF AllWillBe
  <2>2. Leaves(todo[1], "cmr", A[i][1], A[i][2], cmr, cmr')
    BY <1>3
  <2> QED BY <2>1, <2>2, <1>1, <1>2, WillBeShift
<1>6. ASSUME NEW i \in DOMAIN B PROVE WillBe(t, m, "hmr", hmr', B[i][1], B[i][2])
  <2>1. WillBe(todo, m + 1, "hmr", hmr, B[i][1], B[i][2])
    BY <1>4 DEF AllWillBe
  <2>2. Leaves(todo[1], "hmr", B[i][1], B[i][2], hmr, hmr')
    BY <1>3
  <2> QED BY <2>1, <2>2, <1>1, <1>2, WillBeShift
<1>7. AllWillBe(t, m, "cmr", cmr', A) /\ AllWillBe(t, m, "hmr", hmr', B)
  BY <1>5, <1>6 DEF AllWillBe
<1> HIDE DEF t
<1>8. /\ AllWillBe(todo', Len(todo') + 1, "cmr", cmr', last'.sysevt_to_channel_map)
      /\ AllWillBe(todo', Len(todo') + 1, "hmr", hmr', last'.channel_to_host_map)
  BY <1>2, <1>7 DEF A, B
<1> QED BY <1>8 DEF MapInv

(* Until the settings are copied, they are still to be copied.             *)
LEMMA CopyShift ==
    ASSUME DrvInv, Moved, todo[1].to # "copy", prussdrv'.intc_data = prussdrv.intc_data
    PROVE  CopyInv(todo, last)'
<1> DEFINE t == Tail(todo)
           m == Len(todo)
<1>1. /\ m \in Nat \ {0} /\ Len(t) = m - 1 /\ todo' = t /\ last' = last
      /\ \A i \in 1 .. m - 1 : t[i] = todo[i + 1]
  BY DEF Moved
<1>2. /\ prussdrv.intc_data \in Accepted
      /\ \A p \in 1 .. m : todo[p].to = "copy" => p = m /\ todo[p].v = last /\ last \in Accepted
      /\ ~OutOfRange(last) => prussdrv.intc_data = last \/ \E p \in 1 .. m : todo[p].to = "copy"
  BY DEF DrvInv, CopyInv
<1> HIDE DEF t, m
<1>3. ASSUME NEW p \in 1 .. Len(t), t[p].to = "copy"
      PROVE  p = Len(t) /\ t[p].v = last /\ last \in Accepted
  <2>1. p + 1 \in 1 .. m /\ t[p] = todo[p + 1]
    BY <1>1
  <2>2. p + 1 = m /\ todo[p + 1].v = last /\ last \in Accepted
    BY <2>1, <1>2, <1>3
  <2> QED BY <2>1, <2>2, <1>1
<1>4. ASSUME NEW p \in 1 .. m, todo[p].to = "copy" PROVE \E q \in 1 .. Len(t) : t[q].to = "copy"
  <2> DEFINE q == p - 1
  <2>1. p # 1
    BY <1>4
  <2>2. q \in 1 .. Len(t) /\ q \in 1 .. m - 1 /\ q + 1 = p
    BY <2>1, <1>1
  <2>3. t[q] = todo[p]
    BY <2>2, <1>1
  <2> HIDE DEF q
  <2> QED BY <2>2, <2>3, <1>4
<1>5. ~OutOfRange(last) => prussdrv.intc_data = last \/ \E q \in 1 .. Len(t) : t[q].to = "copy"
  BY <1>2, <1>4
<1>6. /\ prussdrv'.intc_data \in Accepted
      /\ \A p \in 1 .. Len(todo') : todo'[p].to = "copy" =>
            p = Len(todo') /\ todo'[p].v = last' /\ last' \in Accepted
      /\ ~OutOfRange(last') =>
            prussdrv'.intc_data = last' \/ \E p \in 1 .. Len(todo') : todo'[p].to = "copy"
  BY <1>1, <1>2, <1>3, <1>5
<1> QED BY <1>6 DEF CopyInv

(* The rest of quiet stores is quiet.                                      *)
LEMMA QuietTail == ASSUME Moved, Quiet(todo) PROVE Quiet(todo')
<1>1. \A p \in 1 .. Len(todo) :
         todo[p].to # "iram" /\ (todo[p].to = "control" => todo[p].v \in {0, 1})
  BY DEF Quiet
<1> DEFINE t == Tail(todo)
<1>2. ASSUME NEW p \in 1 .. Len(t)
      PROVE  t[p].to # "iram" /\ (t[p].to = "control" => t[p].v \in {0, 1})
  <2>1. p + 1 \in 1 .. Len(todo) /\ t[p] = todo[p + 1]
    BY DEF Moved
  <2> QED BY <2>1, <1>1
<1>3. todo' = t
  BY DEF Moved
<1> HIDE DEF t
<1> QED BY <1>2, <1>3 DEF Quiet

(* The rest of a patch is a patch.                                         *)
LEMMA PatchTail ==
    ASSUME Moved, NEW n, Patching(todo, n)
    PROVE  /\ Patching(todo', n) /\ todo[1].to = "iram" /\ todo[1].n = n
           /\ \E block \in DOMAIN Blocks, at \in Nat, done \in BOOLEAN :
                 todo[1].v = Part(at, block, Blocks[block], done)
<1>1. \A p \in 1 .. Len(todo) :
         /\ todo[p].to = "iram" /\ todo[p].n = n
         /\ \E block \in DOMAIN Blocks, at \in Nat, done \in BOOLEAN :
               todo[p].v = Part(at, block, Blocks[block], done)
  BY DEF Patching
<1> DEFINE t == Tail(todo)
<1>2. ASSUME NEW p \in 1 .. Len(t)
      PROVE  /\ t[p].to = "iram" /\ t[p].n = n
             /\ \E block \in DOMAIN Blocks, at \in Nat, done \in BOOLEAN :
                   t[p].v = Part(at, block, Blocks[block], done)
  <2>1. p + 1 \in 1 .. Len(todo) /\ t[p] = todo[p + 1]
    BY DEF Moved
  <2> QED BY <2>1, <1>1
<1>3. todo' = t /\ 1 \in 1 .. Len(todo)
  BY DEF Moved
<1> HIDE DEF t
<1>4. Patching(todo', n)
  BY <1>2, <1>3 DEF Patching
<1> QED BY <1>1, <1>3, <1>4

(* No store moves the windows.                                             *)
LEMMA WindowsKept ==
    ASSUME DrvInv, Moved, prussdrv'.version = prussdrv.version,
           prussdrv'.dataram = prussdrv.dataram, prussdrv'.mapsize = prussdrv.mapsize,
           prussdrv'.extram = prussdrv.extram, prussdrv'.extsize = prussdrv.extsize
    PROVE  WindowsInv'
<1>1. mapped' /\ alive' /\ mapped /\ WindowsInv /\ device' = device
  BY DEF DrvInv, Moved
<1>2. __pruss_detect_hw_version' = __pruss_detect_hw_version
  BY <1>1 DEF __pruss_detect_hw_version
<1> QED BY <1>1, <1>2 DEF WindowsInv

(* The next store is of prussdrv_exec_code_at, by hand, or harmless for    *)
(* programs.                                                               *)
LEMMA Executing ==
    ASSUME DrvInv, Moved
    PROVE  \/ Quiet(todo) /\ Quiet(todo')
           \/ \E n \in Numbers :
                 \/ n \in own /\ Patching(todo, n)
                 \/ \E addr \in Entries : /\ todo[1] = On(n, addr) /\ todo' = <<>>
                                          /\ Known => iram[n].whole \/ n \in own
                 \/ \E name : \E addr \in Entries :
                       /\ Executable(name)
                       /\ \/ todo[1] = Off(n) /\ todo' = Tail(Exec(n, name, addr))
                          \/ /\ todo[1] = Program(n, name, FALSE) /\ control[n] = 1
                             /\ todo' = Tail(Tail(Exec(n, name, addr)))
                          \/ /\ todo[1] = Program(n, name, TRUE) /\ control[n] = 1
                             /\ todo' = <<On(n, addr)>>
<1>1. CASE Quiet(todo)
  BY <1>1, QuietTail
<1>2. todo' = Tail(todo)
  BY DEF Moved
<1>3. ASSUME NEW n, NEW addr, todo = <<On(n, addr)>> PROVE todo[1] = On(n, addr) /\ todo' = <<>>
  <2> DEFINE d == On(n, addr)
  <2>1. todo = <<d>>
    BY <1>3
  <2> HIDE DEF d
  <2>2. todo[1] = d /\ Tail(todo) = <<>>
    BY <2>1
  <2> QED BY <2>2, <1>2 DEF d
<1>4. ASSUME NEW n \in Numbers, NEW name, NEW addr \in Entries,
             \/ todo = Exec(n, name, addr)
             \/ /\ control[n] = 1
                /\ todo = Tail(Exec(n, name, addr)) \/ todo = Tail(Tail(Exec(n, name, addr)))
      PROVE  \/ todo[1] = Off(n) /\ todo' = Tail(Exec(n, name, addr))
             \/ /\ todo[1] = Program(n, name, FALSE) /\ control[n] = 1
                /\ todo' = Tail(Tail(Exec(n, name, addr)))
             \/ /\ todo[1] = Program(n, name, TRUE) /\ control[n] = 1
                /\ todo' = <<On(n, addr)>>
  <2> DEFINE a == Off(n)
             b == Program(n, name, FALSE)
             c == Program(n, name, TRUE)
             d == On(n, addr)
             s == Exec(n, name, addr)
  <2>1. /\ s = <<a, b, c, d>> /\ Tail(s) = <<b, c, d>>
        /\ Tail(Tail(s)) = <<c, d>> /\ Tail(Tail(Tail(s))) = <<d>>
    BY ExecIs
  <2>2. todo = s \/ (control[n] = 1 /\ (todo = Tail(s) \/ todo = Tail(Tail(s))))
    BY <1>4
  <2> HIDE DEF a, b, c, d, s
  <2>3. CASE todo = s
    <3>1. todo[1] = a /\ todo' = Tail(s)
      BY <2>1, <2>3, <1>2
    <3> QED BY <3>1 DEF a, s
  <2>4. CASE control[n] = 1 /\ todo = Tail(s)
    <3>1. todo[1] = b /\ todo' = Tail(Tail(s))
      BY <2>1, <2>4, <1>2
    <3> QED BY <3>1, <2>4 DEF b, s
  <2>5. CASE control[n] = 1 /\ todo = Tail(Tail(s))
    <3>1. todo[1] = c /\ todo' = <<d>>
      BY <2>1, <2>5, <1>2
    <3> QED BY <3>1, <2>5 DEF c, d
  <2> QED BY <2>2, <2>3, <2>4, <2>5
<1>5. Doing(todo, own)
  BY DEF DrvInv, ProgramInv
<1> QED BY <1>1, <1>3, <1>4, <1>5 DEF Doing

(* A PRU that is not halted by the step, keeps its program and is in the   *)
(* same hands runs it as before.                                           *)
LEMMA RunsKept ==
    ASSUME DrvInv, device' = device,
           \A n \in Numbers : \/ control'[n] \in {0, 1}
                              \/ n \in own /\ n \in own'
                              \/ /\ control'[n] = control[n] /\ iram'[n] = iram[n]
                                 /\ n \in own => n \in own'
    PROVE  RunsWholeProgram'
<1>1. RunsWholeProgram
  BY DEF DrvInv
<1>2. 0 % 65536 # 2 /\ 1 % 65536 # 2
  BY SMT
<1>3. ASSUME NEW n \in Numbers, control'[n] % 65536 = 2, n \notin own'
      PROVE  /\ iram'[n].whole /\ iram'[n].name \in DOMAIN Files \union DOMAIN Blocks
             /\ \/ 4 * iram'[n].words >= SizeOf(iram'[n].name)
                \/ /\ SizeOf(iram'[n].name) > IramSize[device']
                   /\ device' = "AM18XX" \/ iram'[n].name \in DOMAIN Blocks
  <2>1. control'[n] = control[n] /\ iram'[n] = iram[n] /\ n \notin own
    BY <1>2, <1>3
  <2>2. Enabled(n)
    BY <2>1, <1>3 DEF Enabled
  <2> QED BY <2>1, <2>2, <1>1 DEF RunsWholeProgram
<1> QED BY <1>3 DEF RunsWholeProgram, Enabled

(* The types.                                                              *)
LEMMA TypeKept ==
    ASSUME DrvInv, Moved, DOMAIN prussdrv' = Fields,
           DOMAIN cmr' = Listed, DOMAIN hmr' = 0 .. 9,
           DOMAIN control' = Numbers, DOMAIN iram' = Numbers,
           \A n \in Numbers : DOMAIN iram'[n] = {"name", "words", "whole"}
    PROVE  DrvTypeOK'
  BY DEF DrvInv, Moved, DrvTypeOK

(* A store that is for neither map.                                        *)
LEMMA SameMaps ==
    ASSUME DrvInv, Moved, cmr' = cmr, hmr' = hmr, todo[1].to \notin {"cmr", "hmr"}
    PROVE  Known' => MapInv(todo, last)'
<1>1. \A r \in {"cmr", "hmr"} : todo[1].to # r
  OBVIOUS
<1>2. \A x, v : Leaves(todo[1], "cmr", x, v, cmr, cmr') /\ Leaves(todo[1], "hmr", x, v, hmr, hmr')
  BY DEF Leaves
<1>3. device' = device
  BY DEF Moved
<1> QED BY <1>2, <1>3, MapShift DEF Known

(* What the memory holds of a program is all of it, or the program is      *)
(* longer; the library has seen to it that files are not longer than the   *)
(* AM33XX's.                                                               *)
LEMMA HeldEnough ==
    ASSUME NEW name, Executable(name), NEW hw \in {"AM33XX", "AM18XX"}
    PROVE  \/ 4 * Held(name, hw) >= SizeOf(name)
           \/ /\ SizeOf(name) > IramSize[hw]
              /\ hw = "AM18XX" \/ name \in DOMAIN Blocks
<1> DEFINE f == SizeOf(name)
           w == Words(name)
           m == IramSize[hw]
<1>1. m \in {4096, 8192} /\ (hw = "AM33XX" => m = 8192)
  BY DEF IramSize
<1>2. f \in Nat \ {0} /\ (name \notin DOMAIN Blocks => f \in 1 .. 8192)
  <2>1. CASE name \in DOMAIN Files
    <3>1. f = Files[name]
      BY <2>1 DEF SizeOf
    <3>2. Files[name] \in 1 .. 8192
      BY <2>1 DEF Executable, PRUSS_MAX_IRAM_SIZE
    <3>3. \A x \in 1 .. 8192 : x \in Nat \ {0}
      OBVIOUS
    <3>4. f \in 1 .. 8192
      BY <3>1, <3>2
    <3> HIDE DEF f
    <3> QED BY <3>3, <3>4
  <2>2. CASE name \notin DOMAIN Files
    <3>1. name \in DOMAIN Blocks /\ f = Blocks[name]
      BY <2>2 DEF Executable, SizeOf
    <3>2. Blocks[name] \in Nat \ {0}
      BY <3>1, DriverAssumption
    <3> QED BY <3>1, <3>2
  <2> QED BY <2>1, <2>2
<1>3. w = (f + 3) \div 4
  BY DEF Words
<1>4. Held(name, hw) = IF 4 * w <= m THEN w ELSE m \div 4
  BY DEF Held
<1> HIDE DEF f, w, m
<1>5. 4 * w >= f /\ w \in Nat
  BY <1>2, <1>3
<1>6. CASE 4 * w <= m
  BY <1>4, <1>5, <1>6 DEF f
<1>7. CASE ~(4 * w <= m)
  <2>1. f > m
    <3>1. CASE m = 4096
      BY <3>1, <1>2, <1>3, <1>7
    <3>2. CASE m = 8192
      BY <3>2, <1>2, <1>3, <1>7
    <3> QED BY <3>1, <3>2, <1>1
  <2>2. hw = "AM18XX" \/ name \in DOMAIN Blocks
    BY <2>1, <1>1, <1>2
  <2> QED BY <2>1, <2>2 DEF f, m
<1> QED BY <1>6, <1>7

(* A control register is written: a PRU that is enabled has the whole      *)
(* program, or it is in the hands of the application.                      *)
LEMMA ControlStep ==
    ASSUME DrvInv, Moved, Control(todo[1]) PROVE DrvInv'
<1> DEFINE h == todo[1]
<1>1. /\ h.to = "control"
      /\ control' = IF Known THEN [control EXCEPT ![h.n] = h.v] ELSE control
      /\ own' = IF h.v \in {0, 1} THEN own \ {h.n} ELSE own
      /\ prussdrv' = prussdrv /\ cmr' = cmr /\ hmr' = hmr /\ iram' = iram
  <2>1. Reaches("control0") = IF Known THEN "control0" ELSE "dataram0"
    BY Reach DEF Moved
  <2> QED BY <2>1 DEF Control, intcRegs
<1>2. DrvTypeOK /\ device' = device
  BY DEF DrvInv, Moved
<1>3. DOMAIN control = Numbers /\ DOMAIN control' = Numbers
  BY <1>1, <1>2 DEF DrvTypeOK
<1>4. DrvTypeOK'
  BY <1>1, <1>2, <1>3, TypeKept DEF DrvTypeOK
<1>5. WindowsInv'
  BY <1>1, WindowsKept
<1>6. Known' => MapInv(todo, last)'
  BY <1>1, SameMaps
<1>7. CopyInv(todo, last)'
  BY <1>1, CopyShift
<1> HIDE DEF h
<1>8. ~Known => \A n \in Numbers : control[n] = 1 /\ control'[n] = 1
  BY <1>1 DEF DrvInv, ProgramInv
<1>9. Known' <=> Known
  BY <1>2 DEF Known
<1>10. \A n \in Numbers : iram'[n].whole =>
          Executable(iram'[n].name) /\ iram'[n].words = Held(iram'[n].name, device')
  BY <1>1, <1>2 DEF DrvInv, ProgramInv
<1>11. ASSUME h.v \in {0, 1} PROVE RunsWholeProgram'
  <2>1. ASSUME NEW n \in Numbers
        PROVE  \/ control'[n] \in {0, 1}
               \/ control'[n] = control[n] /\ iram'[n] = iram[n] /\ (n \in own => n \in own')
    <3>1. CASE Known
      BY <3>1, <1>1, <1>3, <1>11
    <3>2. CASE ~Known
      BY <3>2, <1>8
    <3> QED BY <3>1, <3>2
  <2> QED BY <2>1, <1>2, RunsKept
<1>12. CASE Quiet(todo) /\ Quiet(todo')
  <2>1. h.v \in {0, 1}
    <3>1. 1 \in 1 .. Len(todo)
      BY DEF Moved
    <3> QED BY <3>1, <1>1, <1>12 DEF Quiet, h
  <2>2. ProgramInv'
    BY <1>8, <1>9, <1>10, <1>12 DEF ProgramInv, Doing
  <2> QED BY <2>1, <2>2, <1>4, <1>5, <1>6, <1>7, <1>11 DEF DrvInv
<1>13. ASSUME NEW n \in Numbers, NEW name, NEW addr \in Entries, Executable(name),
              h = Off(n) /\ todo' = Tail(Exec(n, name, addr))
       PROVE  DrvInv'
  <2>1. h.v = 1 /\ h.n = n
    BY <1>13 DEF Off
  <2>2. control'[n] = 1
    BY <2>1, <1>1, <1>3, <1>8
  <2>3. Doing(todo, own)'
    BY <2>2, <1>13 DEF Doing
  <2>4. ProgramInv'
    BY <2>3, <1>8, <1>9, <1>10 DEF ProgramInv
  <2> QED BY <2>1, <2>4, <1>4, <1>5, <1>6, <1>7, <1>11 DEF DrvInv
<1>14. ASSUME NEW n \in Numbers, NEW addr \in Entries, h = On(n, addr), todo' = <<>>,
              Known => iram[n].whole \/ n \in own
       PROVE  DrvInv'
  <2>1. h.n = n /\ h.v = (addr \div 4) * 65536 + 2
    BY <1>14 DEF On
  <2>2. h.v \notin {0, 1}
    <3> DEFINE x == addr \div 4
    <3>1. addr \in Nat
      BY DriverAssumption
    <3>2. x \in Nat
      BY <3>1
    <3> HIDE DEF x
    <3>3. x * 65536 + 2 \notin {0, 1}
      BY <3>2
    <3> QED BY <3>3, <2>1 DEF x
  <2>3. own' = own
    BY <2>2, <1>1
  <2>4. ProgramInv'
    <3>1. Len(todo') = 0
      BY <1>14
    <3>2. Quiet(todo')
      BY <3>1 DEF Quiet
    <3> QED BY <3>2, <1>8, <1>9, <1>10 DEF ProgramInv, Doing
  <2>5. ASSUME NEW i \in Numbers, control'[i] % 65536 = 2, i \notin own'
        PROVE  /\ iram'[i].whole /\ iram'[i].name \in DOMAIN Files \union DOMAIN Blocks
               /\ \/ 4 * iram'[i].words >= SizeOf(iram'[i].name)
                  \/ /\ SizeOf(iram'[i].name) > IramSize[device']
                     /\ device' = "AM18XX" \/ iram'[i].name \in DOMAIN Blocks
    <3>1. CASE Known /\ i = n
      <4>1. iram'[i].whole
        BY <3>1, <2>3, <2>5, <1>1, <1>14
      <4>2. Executable(iram'[i].name) /\ iram'[i].words = Held(iram'[i].name, device')
        BY <4>1, <1>10
      <4>3. device' \in {"AM33XX", "AM18XX"}
        BY <3>1, <1>2, DriverAssumption DEF Known, DrvTypeOK
      <4> QED BY <4>1, <4>2, <4>3, HeldEnough DEF Executable
    <3>2. CASE ~(Known /\ i = n)
      <4>1. control'[i] = control[i] /\ iram'[i] = iram[i]
        BY <3>2, <2>1, <1>1, <1>3
      <4>2. Enabled(i) /\ i \notin own
        BY <4>1, <2>3, <2>5 DEF Enabled
      <4>3. RunsWholeProgram
        BY DEF DrvInv
      <4> QED BY <4>1, <4>2, <4>3, <1>2 DEF RunsWholeProgram
    <3> QED BY <3>1, <3>2
  <2>6. RunsWholeProgram'
    BY <2>5 DEF RunsWholeProgram, Enabled
  <2> QED BY <2>4, <2>6, <1>4, <1>5, <1>6, <1>7 DEF DrvInv
<1>15. \A n, name, done : h # Program(n, name, done)
  BY <1>1 DEF Program
<1>16. \A n : ~Patching(todo, n)
  BY <1>1, PatchTail DEF h
<1> QED BY <1>12, <1>13, <1>14, <1>15, <1>16, Executing DEF h

(* A block of memory is written.                                           *)
LEMMA MemoryStep ==
    ASSUME DrvInv, Moved, Memory(todo[1])
    PROVE  DrvInv' /\ PatchedWhileHalted
<1> DEFINE h == todo[1]
<1>1. /\ h.to \in DOMAIN Room
      /\ iram' = IF h.to = "iram" /\ Known
                   THEN [iram EXCEPT ![h.n] = Loaded(iram[h.n], h.v)] ELSE iram
      /\ prussdrv' = prussdrv /\ cmr' = cmr /\ hmr' = hmr /\ control' = control /\ own' = own
  <2>1. Reaches("iram0") = IF Known THEN "iram0" ELSE "dataram0"
    BY Reach DEF Moved
  <2> QED BY <2>1 DEF Memory, intcRegs
<1>2. DrvTypeOK /\ device' = device
  BY DEF DrvInv, Moved
<1>3. DOMAIN iram = Numbers /\ DOMAIN iram' = Numbers
  BY <1>1, <1>2 DEF DrvTypeOK
<1>4. h.to \in {"iram", "dataram", "sharedram"}
  BY <1>1 DEF Room
<1>5. \A n \in Numbers : DOMAIN iram'[n] = {"name", "words", "whole"}
  <2> TAKE n \in Numbers
  <2>1. DOMAIN iram[n] = {"name", "words", "whole"}
    BY <1>2 DEF DrvTypeOK
  <2>2. iram'[n] = iram[n] \/ iram'[n] = Loaded(iram[n], h.v)
    BY <1>1, <1>3
  <2>3. \A part : DOMAIN Loaded(iram[n], part) = {"name", "words", "whole"}
    BY <2>1 DEF Loaded
  <2> QED BY <2>1, <2>2, <2>3
<1>6. DrvTypeOK'
  BY <1>1, <1>2, <1>3, <1>5, TypeKept DEF DrvTypeOK
<1>7. WindowsInv'
  BY <1>1, WindowsKept
<1>8. Known' => MapInv(todo, last)'
  BY <1>1, <1>4, SameMaps
<1>9. CopyInv(todo, last)'
  BY <1>1, <1>4, CopyShift
<1> HIDE DEF h
<1>10. ~Known' => \A n \in Numbers : control'[n] = 1
  BY <1>1, <1>2 DEF DrvInv, ProgramInv, Known
<1>11. \A n \in Numbers : iram[n].whole =>
          Executable(iram[n].name) /\ iram[n].words = Held(iram[n].name, device)
  BY DEF DrvInv, ProgramInv
<1>12. CASE h.to # "iram" /\ Quiet(todo')
  <2>1. iram' = iram
    BY <1>1, <1>12
  <2>2. ProgramInv'
    BY <2>1, <1>2, <1>10, <1>11, <1>12 DEF ProgramInv, Doing
  <2>3. RunsWholeProgram'
    BY <2>1, <1>1, <1>2, RunsKept
  <2> QED BY <2>1, <2>2, <2>3, <1>6, <1>7, <1>8, <1>9 DEF DrvInv, PatchedWhileHalted
<1>13. ASSUME NEW n \in Numbers, h.to = "iram", h.n = n, n \in own \/ control[n] = 1,
              NEW name, Executable(name), NEW at \in Nat, NEW done \in BOOLEAN,
              h.v = Part(at, name, SizeOf(name), done), Doing(todo, own)'
       PROVE  DrvInv' /\ PatchedWhileHalted
  <2> DEFINE part == Part(at, name, SizeOf(name), done)
  <2>1. part.at = at /\ part.name = name /\ part.words = Words(name) /\ part.done = done
    BY DEF Part, Words
  <2> HIDE DEF part
  <2>2. \A i \in Numbers : i # n => iram'[i] = iram[i]
    BY <1>1, <1>3, <1>13
  <2>3. iram'[n] = iram[n] \/ iram'[n] = Loaded(iram[n], part)
    BY <1>1, <1>3, <1>13 DEF part
  <2>4. LET new == Loaded(iram[n], part)
        IN  new.whole => Executable(new.name) /\ new.words = Held(new.name, device)
    <3>1. CASE at = 0
      <4> DEFINE w == IF 4 * Words(name) <= IramSize[device] THEN Words(name)
                      ELSE IramSize[device] \div 4
      <4>1. Loaded(iram[n], part) = [name |-> name, whole |-> done, words |-> w]
        BY <3>1, <2>1 DEF Loaded
      <4>2. Held(name, device) = w
        BY DEF Held
      <4> HIDE DEF w
      <4> QED BY <4>1, <4>2, <1>13
    <3>2. CASE at # 0 /\ Loaded(iram[n], part) = iram[n]
      BY <3>2, <1>11
    <3>3. CASE Loaded(iram[n], part) = [iram[n] EXCEPT !.whole = FALSE]
      BY <3>3, <1>2 DEF DrvTypeOK
    <3> QED BY <3>1, <3>2, <3>3, <2>1 DEF Loaded
  <2>5. \A i \in Numbers : iram'[i].whole =>
           Executable(iram'[i].name) /\ iram'[i].words = Held(iram'[i].name, device)
    <3> TAKE i \in Numbers
    <3>1. iram'[i] = iram[i] \/ iram'[i] = Loaded(iram[n], part)
      BY <2>2, <2>3
    <3> QED BY <3>1, <2>4, <1>11
  <2>6. ProgramInv'
    BY <2>5, <1>2, <1>10, <1>13 DEF ProgramInv
  <2>7. RunsWholeProgram'
    <3>1. \A i \in Numbers : \/ control'[i] \in {0, 1}
                             \/ i \in own /\ i \in own'
                             \/ /\ control'[i] = control[i] /\ iram'[i] = iram[i]
                                /\ i \in own => i \in own'
      BY <2>2, <1>1, <1>13
    <3> QED BY <3>1, <1>2, RunsKept
  <2>8. PatchedWhileHalted
    <3>1. 1 % 65536 # 2
      BY SMT
    <3> QED BY <3>1, <2>2, <1>13 DEF PatchedWhileHalted, Enabled
  <2> QED BY <2>6, <2>7, <2>8, <1>6, <1>7, <1>8, <1>9 DEF DrvInv
<1>14. CASE Quiet(todo) /\ Quiet(todo')
  <2>1. h.to # "iram"
    <3>1. 1 \in 1 .. Len(todo)
      BY DEF Moved
    <3> QED BY <3>1, <1>14 DEF Quiet, h
  <2> QED BY <2>1, <1>12, <1>14
<1>15. ASSUME NEW n \in Numbers, n \in own, Patching(todo, n)
       PROVE  DrvInv' /\ PatchedWhileHalted
  <2>1. Patching(todo', n) /\ h.to = "iram" /\ h.n = n
    BY <1>15, PatchTail DEF h
  <2>2. PICK block \in DOMAIN Blocks, at \in Nat, done \in BOOLEAN :
           h.v = Part(at, block, Blocks[block], done)
    BY <1>15, PatchTail DEF h
  <2>3. Executable(block) /\ SizeOf(block) = Blocks[block]
    BY DriverAssumption DEF Executable, SizeOf
  <2>4. Doing(todo, own)'
    BY <2>1, <1>1, <1>15 DEF Doing
  <2> QED BY <2>1, <2>2, <2>3, <2>4, <1>13, <1>15
<1>16. ASSUME NEW n \in Numbers, NEW name, NEW addr \in Entries, NEW done \in BOOLEAN,
              Executable(name), h = Program(n, name, done), control[n] = 1,
              \/ todo' = Tail(Tail(Exec(n, name, addr)))
              \/ todo' = <<On(n, addr)>> /\ done
       PROVE  DrvInv' /\ PatchedWhileHalted
  <2>1. h.to = "iram" /\ h.n = n /\ h.v = Part(0, name, SizeOf(name), done)
    BY <1>16 DEF Program
  <2>2. control'[n] = 1
    BY <1>1, <1>16
  <2>3. Known /\ done => iram'[n].whole
    <3> DEFINE part == Part(0, name, SizeOf(name), done)
    <3>1. part.at = 0 /\ part.done = done
      BY DEF Part
    <3> HIDE DEF part
    <3>2. Known => iram'[n] = Loaded(iram[n], part)
      BY <2>1, <1>1, <1>3 DEF part
    <3>3. Loaded(iram[n], part).whole = done
      BY <3>1 DEF Loaded
    <3> QED BY <3>2, <3>3
  <2>4. Doing(todo, own)'
    BY <2>2, <2>3, <1>2, <1>16 DEF Doing, Known
  <2>5. 0 \in Nat
    OBVIOUS
  <2> QED BY <2>1, <2>4, <2>5, <1>13, <1>16
<1>17. \A n, addr : h # Off(n) /\ h # On(n, addr)
  BY <1>4 DEF Off, On
<1> QED BY <1>14, <1>15, <1>16, <1>17, Executing DEF h

(* Stores to the controller do not concern programs.                       *)
LEMMA ProgramKept ==
    ASSUME DrvInv, Moved, todo[1].to \notin {"control", "iram"},
           control' = control, iram' = iram, own' = own
    PROVE  ProgramInv' /\ RunsWholeProgram'
<1>1. device' = device
  BY DEF Moved
<1>2. \A n, name, addr, done :
         todo[1] # Off(n) /\ todo[1] # On(n, addr) /\ todo[1] # Program(n, name, done)
  BY DEF Off, On, Program
<1>3. Quiet(todo')
  BY <1>2, Executing, PatchTail
<1>4. ProgramInv'
  BY <1>1, <1>3 DEF DrvInv, ProgramInv, Known, Doing
<1>5. RunsWholeProgram'
  BY <1>1, RunsKept
<1> QED BY <1>4, <1>5

(* A register of the interrupt controller is written.                      *)
LEMMA IntcStep == ASSUME DrvInv, Moved, Intc(todo[1]) PROVE DrvInv'
<1> DEFINE h == todo[1]
           Set(map) == IF h.v = -1 THEN [x \in DOMAIN map |-> 0] ELSE [map EXCEPT ![h.n] = h.v]
<1>1. /\ h.to \in {"cmr", "hmr", "esr", "secr", "srsr", "hieisr"}
      /\ cmr' = IF h.to = "cmr" /\ Known THEN Set(cmr) ELSE cmr
      /\ hmr' = IF h.to = "hmr" /\ Known THEN Set(hmr) ELSE hmr
      /\ prussdrv' = prussdrv /\ control' = control /\ iram' = iram /\ own' = own
  <2>1. Reaches("intc") = IF Known THEN "intc" ELSE "dataram0"
    BY Reach DEF Moved
  <2> QED BY <2>1 DEF Intc
<1>2. DrvTypeOK /\ device' = device
  BY DEF DrvInv, Moved
<1>3. DOMAIN cmr = Listed /\ DOMAIN hmr = 0 .. 9
  BY <1>2 DEF DrvTypeOK
<1>4. DOMAIN cmr' = Listed /\ DOMAIN hmr' = 0 .. 9
  BY <1>1, <1>3
<1>5. DrvTypeOK'
  BY <1>1, <1>2, <1>4, TypeKept DEF DrvTypeOK
<1>6. WindowsInv'
  BY <1>1, WindowsKept
<1>7. ProgramInv' /\ RunsWholeProgram'
  BY <1>1, ProgramKept
<1>8. CopyInv(todo, last)'
  BY <1>1, CopyShift
<1>9. \A v \in 0 .. 9 : v # -1
  BY SMT
<1>10. ASSUME Known PROVE MapInv(todo, last)'
  <2> HIDE DEF h
  <2>1. ASSUME NEW x \in Listed, NEW v \in 0 .. 9 PROVE Leaves(h, "cmr", x, v, cmr, cmr')
    <3>1. v # -1
      BY <1>9
    <3>2. CASE h.to = "cmr"
      <4>1. cmr' = Set(cmr)
        BY <3>2, <1>1, <1>10
      <4> QED BY <4>1, <3>1, <3>2, <1>3 DEF Leaves
    <3>3. CASE h.to # "cmr"
      BY <3>3, <1>1 DEF Leaves
    <3> QED BY <3>2, <3>3
  <2>2. ASSUME NEW x \in 0 .. 9, NEW v \in 0 .. 9 PROVE Leaves(h, "hmr", x, v, hmr, hmr')
    <3>1. v # -1
      BY <1>9
    <3>2. CASE h.to = "hmr"
      <4>1. hmr' = Set(hmr)
        BY <3>2, <1>1, <1>10
      <4> QED BY <4>1, <3>1, <3>2, <1>3 DEF Leaves
    <3>3. CASE h.to # "hmr"
      BY <3>3, <1>1 DEF Leaves
    <3> QED BY <3>2, <3>3
  <2> QED BY <2>1, <2>2, <1>10, MapShift DEF h
<1>11. Known' => MapInv(todo, last)'
  BY <1>2, <1>10 DEF Known
<1> QED BY <1>5, <1>6, <1>7, <1>8, <1>11 DEF DrvInv

(* The process waits for an interrupt.                                     *)
LEMMA ReadStep == ASSUME DrvInv, Moved, Read(todo[1]) PROVE DrvInv'
<1>1. /\ todo[1].to = "read" /\ prussdrv' = prussdrv /\ cmr' = cmr /\ hmr' = hmr
      /\ control' = control /\ iram' = iram /\ own' = own
  BY DEF Read
<1>2. DrvTypeOK
  BY DEF DrvInv
<1>3. DrvTypeOK'
  BY <1>1, <1>2, TypeKept DEF DrvTypeOK
<1>4. WindowsInv'
  BY <1>1, WindowsKept
<1>5. ProgramInv' /\ RunsWholeProgram'
  BY <1>1, ProgramKept
<1>6. Known' => MapInv(todo, last)'
  BY <1>1, SameMaps
<1>7. CopyInv(todo, last)'
  BY <1>1, CopyShift
<1> QED BY <1>3, <1>4, <1>5, <1>6, <1>7 DEF DrvInv

(* The settings are copied, and that was the last store.                   *)
LEMMA CopyStep == ASSUME DrvInv, Moved, Copy(todo[1]) PROVE DrvInv'
<1> DEFINE d == todo[1].v
<1>1. /\ todo[1].to = "copy" /\ prussdrv' = [prussdrv EXCEPT !.intc_data = d]
      /\ cmr' = cmr /\ hmr' = hmr /\ control' = control /\ iram' = iram /\ own' = own
  BY DEF Copy, registers, intcRegs
<1>2. DrvTypeOK /\ device' = device /\ DOMAIN prussdrv = Fields /\ last' = last
  BY DEF DrvInv, DrvTypeOK, Moved
<1>3. 1 \in 1 .. Len(todo) /\ Len(todo) \in Nat /\ Len(todo') = Len(todo) - 1
  BY DEF Moved
<1>4. 1 = Len(todo) /\ d = last /\ last \in Accepted
  BY <1>1, <1>3 DEF DrvInv, CopyInv
<1> HIDE DEF d
<1>5. /\ DOMAIN prussdrv' = Fields /\ prussdrv'.intc_data = d
      /\ prussdrv'.version = prussdrv.version /\ prussdrv'.dataram = prussdrv.dataram
      /\ prussdrv'.mapsize = prussdrv.mapsize
      /\ prussdrv'.extram = prussdrv.extram /\ prussdrv'.extsize = prussdrv.extsize
  BY <1>1, <1>2 DEF Fields
<1>6. WindowsInv'
  BY <1>5, WindowsKept
<1>7. ProgramInv' /\ RunsWholeProgram'
  BY <1>1, ProgramKept
<1>8. CopyInv(todo, last)'
  <2>1. Len(todo') = 0 /\ prussdrv'.intc_data = last' /\ last' \in Accepted
    <3>1. Len(todo') = 0
      <4> DEFINE n == Len(todo)
      <4>1. n = 1 /\ Len(todo') = n - 1
        BY <1>3, <1>4
      <4> HIDE DEF n
      <4> QED BY <4>1
    <3>2. prussdrv'.intc_data = last'
      BY <1>2, <1>4, <1>5
    <3>3. last' \in Accepted
      BY <1>2, <1>4
    <3> QED BY <3>1, <3>2, <3>3
  <2>2. Accepted' = Accepted
    BY DEF Accepted, OutOfRange
  <2> QED BY <2>1, <2>2 DEF CopyInv
<1>9. DrvTypeOK'
  BY <1>1, <1>2, <1>5, TypeKept DEF DrvTypeOK
<1>10. Known' => MapInv(todo, last)'
  BY <1>1, SameMaps
<1> QED BY <1>6, <1>7, <1>8, <1>9, <1>10 DEF DrvInv

-----------------------------------------------------------------------------
(* The specification                                                       *)

(* Every store keeps the invariant.                                        *)
LEMMA StepKeeps ==
    ASSUME DrvInv, Step
    PROVE  DrvInv'
<1>1. Moved
  BY StepMoves
<1>2. Head(todo) = todo[1]
  BY <1>1 DEF Moved
<1> DEFINE s == todo[1]
<1>3. Control(s) \/ Memory(s) \/ Intc(s) \/ Copy(s) \/ Read(s)
  BY <1>2 DEF Step
<1>4. CASE Control(s)
  BY <1>1, <1>4, ControlStep
<1>5. CASE Memory(s)
  BY <1>1, <1>5, MemoryStep
<1>6. CASE Intc(s)
  BY <1>1, <1>6, IntcStep
<1>7. CASE Copy(s)
  BY <1>1, <1>7, CopyStep
<1>8. CASE Read(s)
  BY <1>1, <1>8, ReadStep
<1> QED BY <1>3, <1>4, <1>5, <1>6, <1>7, <1>8

(* So does a step that changes nothing.                                    *)
LEMMA StutterKeeps == ASSUME DrvInv, UNCHANGED drvVars PROVE DrvInv'
<1>1. /\ device' = device /\ prussdrv' = prussdrv /\ mapped' = mapped /\ alive' = alive
      /\ todo' = todo /\ cmr' = cmr /\ hmr' = hmr /\ control' = control /\ iram' = iram
      /\ own' = own /\ last' = last
  BY DEF drvVars, registers, intcRegs
<1>2. DrvTypeOK'
  BY <1>1 DEF DrvInv, DrvTypeOK
<1>3. WindowsInv'
  BY <1>1 DEF DrvInv, WindowsInv, __pruss_detect_hw_version
<1>4. ProgramInv'
  BY <1>1 DEF DrvInv, ProgramInv, Known, Doing
<1>5. CopyInv(todo, last)' /\ (Known' => MapInv(todo, last)')
  BY <1>1 DEF DrvInv, Known, CopyInv, MapInv, AllWillBe, WillBe
<1>6. RunsWholeProgram'
  BY <1>1 DEF DrvInv, RunsWholeProgram, Enabled
<1> QED BY <1>2, <1>3, <1>4, <1>5, <1>6 DEF DrvInv

(* And every step.                                                         *)
LEMMA NextKeeps == DrvInv /\ [DrvNext]_drvVars => DrvInv'
<1> SUFFICES ASSUME DrvInv, [DrvNext]_drvVars PROVE DrvInv'
  OBVIOUS
<1>1. CASE prussdrv_init
  BY <1>1, InitStep
<1>2. CASE prussdrv_exit
  BY <1>2, ExitStep
<1>3. CASE Call
  BY <1>3, CallKeeps
<1>4. CASE Step
  BY <1>4, StepKeeps
<1>5. CASE Dies
  BY <1>5, DiesStep
<1>6. ASSUME NEW h \in OpenHosts, prussdrv_open(h) PROVE DrvInv'
  BY <1>6, OpenStep
<1>7. CASE UNCHANGED drvVars
  BY <1>7, StutterKeeps
<1> QED BY <1>1, <1>2, <1>3, <1>4, <1>5, <1>6, <1>7 DEF DrvNext

(* Only stores change programs, and the ones that do find the PRU disabled *)
(* or in the hands of the application.                                     *)
LEMMA HaltedStep == DrvInv /\ [DrvNext]_drvVars => [PatchedWhileHalted]_drvVars
<1> SUFFICES ASSUME DrvInv, DrvNext PROVE PatchedWhileHalted
  OBVIOUS
<1>1. ASSUME iram' = iram PROVE PatchedWhileHalted
  BY <1>1 DEF PatchedWhileHalted
<1>2. CASE Step
  <2>1. Moved
    BY <1>2, StepMoves
  <2>2. Head(todo) = todo[1]
    BY <2>1 DEF Moved
  <2>3. Memory(todo[1]) \/ iram' = iram
    BY <2>2, <1>2 DEF Step, Control, Intc, Copy, Read, registers
  <2> QED BY <2>1, <2>3, <1>1, MemoryStep
<1>3. UNCHANGED registers => iram' = iram
  BY DEF registers
<1>4. Dies => UNCHANGED registers
  BY DEF Dies
<1>5. CASE prussdrv_init
  BY <1>1, <1>3, <1>5 DEF prussdrv_init
<1>6. CASE prussdrv_exit
  BY <1>1, <1>3, <1>6 DEF prussdrv_exit
<1>7. ASSUME NEW h \in OpenHosts, prussdrv_open(h) PROVE PatchedWhileHalted
  <2>1. UNCHANGED registers
    BY <1>4, <1>7 DEF prussdrv_open, __prussdrv_memmap_init, Fails, drvVars
  <2> QED BY <2>1, <1>1, <1>3
<1>8. CASE Call
  <2>1. \A s, hands, d : Begins(s, hands, d) => UNCHANGED registers
    BY <1>4 DEF Begins
  <2>2. Fails => UNCHANGED registers
    BY DEF Fails, drvVars
  <2>3. \A s : Calls(s) => UNCHANGED registers
    BY <2>1 DEF Calls
  <2>4. \A n, name, addr : Executes(n, name, addr) \/ Starts(n, addr) => UNCHANGED registers
    BY <2>1, <2>2, <2>3 DEF Executes, Starts
  <2>5. \A n, name : prussdrv_load_datafile(n, name) => UNCHANGED registers
    <3> TAKE n, name
    <3>1. prussdrv_load_datafile(n, name) =>
             Fails \/ Dies \/ Calls(prussdrv_load_data(n, name, Files[name]))
      BY DEF prussdrv_load_datafile
    <3> QED BY <3>1, <2>2, <2>3, <1>4
  <2>6. \A ram, n, at, name : Writes(ram, n, at, name) => UNCHANGED registers
    BY <2>1, <2>2 DEF Writes
  <2> QED BY <2>1, <2>3, <2>4, <2>5, <2>6, <1>1, <1>3, <1>8 DEF Call
<1>9. CASE Dies
  BY <1>1, <1>3, <1>4, <1>9
<1> QED BY <1>2, <1>5, <1>6, <1>7, <1>8, <1>9 DEF DrvNext

(* Whatever calls are made, fail or are cut short by the death of the      *)
(* process, and whatever the next process does: unless the application     *)
(* wrote or started it by hand, a PRU that is enabled executes one whole   *)
(* program, or as much as its memory holds of one that the library did not *)
(* measure, and it is not changed while it runs; the controller has the    *)
(* maps that were asked for last, and event, channel and host looked up by *)
(* the process are those, unless the settings were refused; addresses are  *)
(* translated to the hardware's and back.  For any settings that name each *)
(* event and channel once and give every channel that is used a host, any  *)
(* files and blocks and any number of processes (prussdrv.c).              *)
THEOREM LibraryConsistent == DrvSpec => DriverConsistent
<1>1. DrvInv => RunsWholeProgram /\ MapsAgree /\ AddressesAgree
  BY AddressesInv, MapsInv DEF DrvInv
<1> QED BY <1>1, InitInv, NextKeeps, HaltedStep, PTL DEF DrvSpec, DriverConsistent

-----------------------------------------------------------------------------
(* Lifecycle: the processes that use the library                           *)

(* Every variable has its type in every reachable state. *)
LEMMA LifeTypeInit == LifeInit => LifeTypeOK
<1> SUFFICES ASSUME LifeInit PROVE LifeTypeOK
  OBVIOUS
<1>1. LifeFlags
  BY DEF LifeInit, LifeFlags
<1>2. Mapped
  BY DEF LifeInit, Mapped, Opened
<1>3. QED
  BY <1>1, <1>2, LifecycleAssumption DEF LifeInit, LifeTypeOK, Dead

(* The process only comes to a rung that uses the registers through a      *)
(* successful prussdrv_open, which has mapped them.                        *)
LEMMA MappedStep == Mapped /\ [LifeNext]_lifeVars => Mapped'
<1> SUFFICES ASSUME Mapped, [LifeNext]_lifeVars PROVE Mapped'
  OBVIOUS
<1> USE DEF Mapped, Opened
<1>1. CASE Start \/ Killed
  BY <1>1 DEF Start, Killed
<1>2. CASE Privileges \/ AllocateRam \/ Metrology \/ Open1 \/ Configure
           \/ Connect \/ Deinit
  BY <1>2 DEF Privileges, AllocateRam, Metrology, Open1, Configure, Connect,
       Deinit, Goto
<1>3. CASE Open0
  BY <1>3 DEF Open0
<1>4. CASE IntcClear \/ IntcEnable \/ StartPru0 \/ StartPru1 \/ Turn
  BY <1>4 DEF IntcClear, IntcEnable, StartPru0, StartPru1, Turn
<1>5. CASE StopPru1
  BY <1>5 DEF StopPru1
<1>6. CASE StopPru0
  BY <1>6 DEF StopPru0
<1>7. CASE PRU1_LastPacket \/ PRU0_Interrupt \/ Uio_Handler
  BY <1>7 DEF PRU1_LastPacket, PRU0_Interrupt, Uio_Handler, procVars
<1>8. CASE UNCHANGED lifeVars
  BY <1>8 DEF lifeVars, procVars
<1>9. QED
  BY <1>1, <1>2, <1>3, <1>4, <1>5, <1>6, <1>7, <1>8
     DEF LifeNext, Startup, Cleanup, Rest

(* Every step of main(), the PRUs, the driver and signals keeps the types. *)
LEMMA LifeTypeStep == LifeTypeOK /\ [LifeNext]_lifeVars => LifeTypeOK'
<1> SUFFICES ASSUME LifeTypeOK, [LifeNext]_lifeVars PROVE LifeTypeOK'
  OBVIOUS
<1> USE LifecycleAssumption
<1>0. Mapped'
  BY MappedStep DEF LifeTypeOK
<1>1. CASE Start
  <2>1. LifeFlags'
    BY <1>1 DEF Start, LifeTypeOK, LifeFlags, pruVars, intcVars
  <2>2. QED
    BY <1>0, <2>1, <1>1 DEF Start, LifeTypeOK, Dead, Rungs, Ladder, pruVars, intcVars
<1>2. CASE Privileges \/ AllocateRam \/ Metrology \/ Open1 \/ Configure
           \/ Connect \/ Deinit
  <2>1. UNCHANGED <<gen, drvMapped, answered, cleanStart, pruVars, intcVars>>
    BY <1>2 DEF Privileges, AllocateRam, Metrology, Open1, Configure, Connect,
         Deinit, Goto
  <2>2. LifeFlags'
    BY <2>1 DEF LifeTypeOK, LifeFlags, pruVars, intcVars
  <2>3. pc' \in Dead \cup Rungs \cup Ladder
    BY <1>2 DEF Privileges, AllocateRam, Metrology, Open1, Configure, Connect,
         Deinit, Goto, Dead, Rungs, Ladder
  <2>4. QED
    BY <1>0, <2>1, <2>2, <2>3 DEF LifeTypeOK, pruVars, intcVars
<1>3. CASE Open0
  <2>1. LifeFlags'
    BY <1>3 DEF Open0, LifeTypeOK, LifeFlags, pruVars
  <2>2. QED
    BY <1>0, <2>1, <1>3 DEF Open0, LifeTypeOK, Dead, Rungs, Ladder, pruVars
<1>4. CASE IntcClear
  <2>1. LifeFlags'
    BY <1>4 DEF IntcClear, LifeTypeOK, LifeFlags, pruVars
  <2>2. QED
    BY <1>0, <2>1, <1>4 DEF IntcClear, LifeTypeOK, Dead, Rungs, Ladder, pruVars
<1>5. CASE IntcEnable
  <2>1. LifeFlags'
    BY <1>5 DEF IntcEnable, LifeTypeOK, LifeFlags, pruVars
  <2>2. QED
    BY <1>0, <2>1, <1>5 DEF IntcEnable, LifeTypeOK, Dead, Rungs, Ladder, pruVars
<1>6. CASE StartPru0
  <2>1. LifeFlags'
    BY <1>6 DEF StartPru0, LifeTypeOK, LifeFlags, intcVars
  <2>2. QED
    BY <1>0, <2>1, <1>6 DEF StartPru0, LifeTypeOK, Dead, Rungs, Ladder, intcVars
<1>7. CASE StartPru1
  <2>1. LifeFlags'
    BY <1>7 DEF StartPru1, LifeTypeOK, LifeFlags, intcVars
  <2>2. QED
    BY <1>0, <2>1, <1>7 DEF StartPru1, LifeTypeOK, Dead, Rungs, Ladder, intcVars
<1>8. CASE Turn
  <2>1. LifeFlags'
    BY <1>8 DEF Turn, LifeTypeOK, LifeFlags, pruVars
  <2>2. QED
    BY <1>0, <2>1, <1>8 DEF Turn, LifeTypeOK, Dead, Rungs, Ladder, pruVars
<1>9. CASE StopPru1
  <2>1. LifeFlags'
    BY <1>9 DEF StopPru1, LifeTypeOK, LifeFlags, intcVars
  <2>2. QED
    BY <1>0, <2>1, <1>9 DEF StopPru1, LifeTypeOK, Dead, Rungs, Ladder, intcVars
<1>10. CASE StopPru0
  <2>1. LifeFlags'
    BY <1>10 DEF StopPru0, LifeTypeOK, LifeFlags, intcVars
  <2>2. QED
    BY <1>0, <2>1, <1>10 DEF StopPru0, LifeTypeOK, Dead, Rungs, Ladder, intcVars
<1>11. CASE Killed
  <2>1. LifeFlags'
    BY <1>11 DEF Killed, LifeTypeOK, LifeFlags, pruVars, intcVars
  <2>2. QED
    BY <1>0, <2>1, <1>11 DEF Killed, LifeTypeOK, Dead, Rungs, Ladder, pruVars, intcVars
<1>12. CASE PRU1_LastPacket
  <2>1. LifeFlags'
    BY <1>12 DEF PRU1_LastPacket, LifeTypeOK, LifeFlags, procVars, intcVars
  <2>2. QED
    BY <1>0, <2>1, <1>12 DEF PRU1_LastPacket, LifeTypeOK, procVars, intcVars
<1>13. CASE PRU0_Interrupt
  <2>1. LifeFlags'
    BY <1>13 DEF PRU0_Interrupt, LifeTypeOK, LifeFlags, procVars
  <2>2. QED
    BY <1>0, <2>1, <1>13 DEF PRU0_Interrupt, LifeTypeOK, procVars
<1>14. CASE Uio_Handler
  <2>1. LifeFlags'
    BY <1>14 DEF Uio_Handler, LifeTypeOK, LifeFlags, procVars, pruVars
  <2>2. QED
    BY <1>0, <2>1, <1>14 DEF Uio_Handler, LifeTypeOK, procVars, pruVars
<1>15. CASE UNCHANGED lifeVars
  BY <1>0, <1>15 DEF lifeVars, procVars, pruVars, intcVars, LifeTypeOK, LifeFlags
<1>16. QED
  BY <1>1, <1>2, <1>3, <1>4, <1>5, <1>6, <1>7, <1>8, <1>9, <1>10, <1>11,
     <1>12, <1>13, <1>14, <1>15 DEF LifeNext, Startup, Cleanup, Rest

(* Type correctness, with it: no rung of main() above the cleanup touches  *)
(* a PRU or INTC register that prussdrv has not mapped.                    *)
THEOREM RegistersMapped == LifeSpec => []LifeTypeOK
  BY LifeTypeInit, LifeTypeStep, PTL DEF LifeSpec

-----------------------------------------------------------------------------
(* Where the process has not yet started a PRU, or has stopped it again.   *)
BeforePru1 == {"privileges", "ram", "metrology", "open0", "open1", "intcClear",
               "intcEnable", "start0", "start1", "stop0", "deinit", "exited"}
BeforePru0 == BeforePru1 \ {"start1", "stop0"}

(* StopsWhatItStarted made inductive: what the process owns at each label. *)
Owns ==
    /\ pc # "none" => gen > 0
    /\ pc \in BeforePru0 => pru0 # gen
    /\ pc \in BeforePru1 => pru1 # gen

LEMMA OwnsStep == LifeTypeOK /\ Owns /\ [LifeNext]_lifeVars => Owns'
<1> SUFFICES ASSUME LifeTypeOK, Owns, [LifeNext]_lifeVars PROVE Owns'
  OBVIOUS
<1> USE LifecycleAssumption DEF BeforePru0, BeforePru1
<1>1. CASE Start
  BY <1>1 DEF Start, LifeTypeOK, Owns, pruVars
<1>2. CASE Privileges \/ AllocateRam \/ Metrology \/ Open1 \/ Configure
           \/ Connect \/ Deinit
  BY <1>2 DEF Privileges, AllocateRam, Metrology, Open1, Configure, Connect,
       Deinit, Goto, Owns, pruVars
<1>3. CASE Open0 \/ IntcClear \/ IntcEnable \/ Turn
  BY <1>3 DEF Open0, IntcClear, IntcEnable, Turn, Owns, pruVars
<1>4. CASE StartPru0
  BY <1>4 DEF StartPru0, Owns
<1>5. CASE StartPru1
  BY <1>5 DEF StartPru1, Owns
<1>6. CASE StopPru1
  BY <1>6 DEF StopPru1, Owns, LifeTypeOK
<1>7. CASE StopPru0
  BY <1>7 DEF StopPru0, Owns, LifeTypeOK
<1>8. CASE Killed
  BY <1>8 DEF Killed, Owns, pruVars, Dead
<1>9. CASE PRU1_LastPacket \/ PRU0_Interrupt \/ Uio_Handler
  BY <1>9 DEF PRU1_LastPacket, PRU0_Interrupt, Uio_Handler, Owns, procVars,
       pruVars
<1>10. CASE UNCHANGED lifeVars
  BY <1>10 DEF lifeVars, procVars, pruVars, Owns
<1>11. QED
  BY <1>1, <1>2, <1>3, <1>4, <1>5, <1>6, <1>7, <1>8, <1>9, <1>10
     DEF LifeNext, Startup, Cleanup, Rest

(* Whatever fails on the way up, and whenever, a process that ends by      *)
(* itself has halted every PRU it had started.                             *)
THEOREM ExitLeavesNoPru == LifeSpec => []StopsWhatItStarted
<1>1. LifeInit => LifeTypeOK /\ Owns
  BY LifeTypeInit DEF LifeInit, Owns, BeforePru0, BeforePru1
<1>2. LifeTypeOK /\ Owns /\ [LifeNext]_lifeVars => (LifeTypeOK /\ Owns)'
  BY LifeTypeStep, OwnsStep
<1>3. Owns => StopsWhatItStarted
  BY DEF Owns, StopsWhatItStarted, BeforePru0, BeforePru1
<1>4. QED
  BY <1>1, <1>2, <1>3, PTL DEF LifeSpec

-----------------------------------------------------------------------------
(* AnswersOwnPru made inductive: on a clean start nothing of an earlier    *)
(* process can reach the host from the moment its UIO file is open and the *)
(* events are cleared, and before that moment the interrupt is masked or   *)
(* absent.                                                                 *)
Silent == evt19 = 0 \/ hostEnabled = FALSE
OwnEvents == evt19 \in {0, gen} /\ wake \in {0, gen}

Clean ==
    cleanStart = TRUE =>
      /\ answered \in {0, gen} /\ pru0 \in {0, gen}
      /\ pc \in {"privileges", "ram", "metrology", "open0", "open1", "intcClear"}
           => pru0 = 0 /\ Silent
      /\ pc \in {"open1", "intcClear"} => wake = 0
      /\ pc \in {"intcEnable", "start0", "start1", "configure", "connect", "run"}
           => OwnEvents

LEMMA CleanStep == LifeTypeOK /\ Clean /\ [LifeNext]_lifeVars => Clean'
<1> SUFFICES ASSUME LifeTypeOK, Clean, [LifeNext]_lifeVars PROVE Clean'
  OBVIOUS
<1> USE LifecycleAssumption
<1>1. CASE Start
  <2>1. Silent'
    BY <1>1 DEF Start, LifeTypeOK, LifeFlags, Silent, intcVars
  <2>2. cleanStart' = TRUE => pru0' = 0
    BY <1>1 DEF Start, pruVars
  <2>3. pc' = "privileges" /\ answered' = 0
    BY <1>1 DEF Start
  <2>4. QED
    BY <2>1, <2>2, <2>3 DEF Clean
<1>2. CASE Privileges \/ AllocateRam \/ Metrology \/ Open1 \/ Configure
           \/ Connect \/ Deinit
  BY <1>2 DEF Privileges, AllocateRam, Metrology, Open1, Configure, Connect,
       Deinit, Goto, Clean, Silent, OwnEvents, pruVars, intcVars
<1>3. CASE Open0
  BY <1>3 DEF Open0, Clean, Silent, pruVars
<1>4. CASE IntcClear
  BY <1>4 DEF IntcClear, Clean, Silent, OwnEvents, pruVars
<1>5. CASE IntcEnable
  BY <1>5 DEF IntcEnable, Clean, OwnEvents, pruVars
<1>6. CASE StartPru0
  BY <1>6 DEF StartPru0, Clean, OwnEvents, intcVars
<1>7. CASE StartPru1
  BY <1>7 DEF StartPru1, Clean, OwnEvents, intcVars
<1>8. CASE Turn
  BY <1>8 DEF Turn, Clean, OwnEvents, pruVars
<1>9. CASE StopPru1
  BY <1>9 DEF StopPru1, Clean, intcVars
<1>10. CASE StopPru0
  BY <1>10 DEF StopPru0, Clean, intcVars
<1>11. CASE Killed
  BY <1>11 DEF Killed, Clean, pruVars, intcVars
<1>12. CASE PRU1_LastPacket
  BY <1>12 DEF PRU1_LastPacket, Clean, Silent, OwnEvents, procVars, intcVars
<1>13. CASE PRU0_Interrupt
  BY <1>13 DEF PRU0_Interrupt, Clean, Silent, OwnEvents, procVars
<1>14. CASE Uio_Handler
  BY <1>14 DEF Uio_Handler, Clean, Silent, OwnEvents, procVars, pruVars
<1>15. CASE UNCHANGED lifeVars
  BY <1>15 DEF lifeVars, procVars, pruVars, intcVars, Clean, Silent, OwnEvents
<1>16. QED
  BY <1>1, <1>2, <1>3, <1>4, <1>5, <1>6, <1>7, <1>8, <1>9, <1>10, <1>11,
     <1>12, <1>13, <1>14, <1>15 DEF LifeNext, Startup, Cleanup, Rest

(* With halted PRUs at its start, a process answers no interrupt that an   *)
(* earlier process left behind in the INTC or in the UIO device.           *)
THEOREM AnswersOnlyItsPru == LifeSpec => []AnswersOwnPru
<1>1. LifeInit => LifeTypeOK /\ Clean
  BY LifeTypeInit DEF LifeInit, Clean
<1>2. LifeTypeOK /\ Clean /\ [LifeNext]_lifeVars => (LifeTypeOK /\ Clean)'
  BY LifeTypeStep, CleanStep
<1>3. Clean => AnswersOwnPru
  BY DEF Clean, AnswersOwnPru
<1>4. QED
  BY <1>1, <1>2, <1>3, PTL DEF LifeSpec
=============================================================================
