----------------------------- MODULE PruDriver -----------------------------
(***************************************************************************)
(* The PRU library: what a process keeps of the UIO device, its address    *)
(* windows and the interrupt controller, and the stores by which its calls *)
(* reach the PRUs and the controller.  A call is the sequence of its       *)
(* stores; the PRUs run, and the process may die, between any two of them. *)
(*                                                                         *)
(* Every list of events or channels names each of them once: the masks of  *)
(* prussdrv_pruintc_init are sums and the maps are or-ed together.  The    *)
(* channel of every event that is mapped has a host.  Blocks that the      *)
(* application hands over end before the next memory (Room).               *)
(***************************************************************************)
EXTENDS Integers, Sequences

CONSTANTS
  Devices,       \* hardware: subset of {"AM18XX", "AM33XX", "other"}
  OpenHosts,     \* host interrupts that processes open
  IntcData,      \* arguments of prussdrv_pruintc_init
  Files,         \* sizes of the program and data files, -1: there is none
  Blocks,        \* sizes of code and data in the memory of the application
  WordOffsets,   \* where it writes such blocks
  Entries,       \* byte addresses where programs start
  Sent,          \* pairs of an event the process sends or clears and a host
  Numbers        \* PRUs it uses, a subset of {0, 1}

(* Pairs of a number in from and one in 0 .. 9, the first ones different.  *)
IsMap(pairs, from) ==
    /\ pairs \in Seq(from \X (0 .. 9))
    /\ \A i, k \in DOMAIN pairs : pairs[i][1] = pairs[k][1] => i = k

ASSUME DriverAssumption ==
    /\ Devices \subseteq {"AM18XX", "AM33XX", "other"}
    /\ Numbers \subseteq {0, 1}
    /\ \A name \in DOMAIN Files : Files[name] \in Int
    /\ \A name \in DOMAIN Blocks : Blocks[name] \in Nat \ {0}
    /\ DOMAIN Files \cap DOMAIN Blocks = {} /\ WordOffsets \subseteq Nat
    /\ Entries \subseteq Nat
    /\ \A d \in IntcData :
          /\ IsMap(d.sysevt_to_channel_map, Nat) /\ IsMap(d.channel_to_host_map, 0 .. 9)
          /\ \A i \in DOMAIN d.sysevt_to_channel_map : \E k \in DOMAIN d.channel_to_host_map :
                d.channel_to_host_map[k][1] = d.sysevt_to_channel_map[i][2]

VARIABLES
  device,        \* the hardware
  prussdrv,      \* what the library keeps, a static structure
  mapped,        \* the windows are in the address space
  alive,         \* the process has not crashed or been killed
  todo,          \* stores of the call that is being executed
  cmr, hmr, enabled, pending, hosts,   \* interrupt controller
  control, iram, \* control register and program of each PRU
  own,           \* history: PRUs that the application, since they were last
                 \* halted, wrote to or started without a whole program
  last           \* history: the last settings this process asked for

intcRegs == <<cmr, hmr, enabled, pending, hosts>>
registers == <<intcRegs, control, iram>>
drvVars == <<device, prussdrv, mapped, alive, todo, registers, own, last>>

-----------------------------------------------------------------------------
(* Layout                                                                  *)

NUM_PRU_HOSTIRQS == 8
PRUSS_V1 == 1
PRUSS_V2 == 2
PRUSS_MAX_IRAM_SIZE == 8192

(* Physical addresses: 0x4a300000 or 0x01C30000, and so many units of 1 KB.*)
Regions(base, kb) == [r \in DOMAIN kb |-> base + 1024 * kb[r]]
AM33XX == Regions(1244659712,
    [dataram0 |-> 0, dataram1 |-> 8, sharedram |-> 64, intc |-> 128, control0 |-> 136,
     debug0 |-> 137, control1 |-> 144, debug1 |-> 145, cfg |-> 152, uart |-> 160,
     iep |-> 184, ecap |-> 192, miirt |-> 200, mdio |-> 201, iram0 |-> 208, iram1 |-> 224])
AM18XX == Regions(29556736,
    [dataram0 |-> 0, dataram1 |-> 8, intc |-> 16, control0 |-> 28, debug0 |-> 29,
     control1 |-> 30, debug1 |-> 31, iram0 |-> 32, iram1 |-> 48])
IramSize == [AM33XX |-> 8192, AM18XX |-> 4096, other |-> 0]
Room == [iram |-> 16384, dataram |-> 8192, sharedram |-> 12288]

(* What uio_pruss exports: the subsystem and a page of external memory.    *)
PruSize == 256 * 1024
ExtSize == 4 * 1024
ExtPhys == 520093696      \* 0x1f000000
PruVirtual == 268435456   \* 0x10000000
ExtVirtual == 402653184   \* 0x18000000

Phys(r) ==
    LET table == IF prussdrv.version = PRUSS_V1 THEN AM18XX ELSE AM33XX
    IN  IF prussdrv.version \in {PRUSS_V1, PRUSS_V2} /\ r \in DOMAIN table THEN table[r] ELSE 0

(* prussdrv.*_base; a base that was never assigned is NULL. *)
BaseOf(r) ==
    IF prussdrv.version = PRUSS_V2 \/ r \in DOMAIN AM18XX
      THEN prussdrv.dataram + Phys(r) - Phys("dataram0") ELSE 0

__pruss_detect_hw_version ==
    CASE device = "AM18XX" -> PRUSS_V1
      [] device = "AM33XX" -> PRUSS_V2
      [] OTHER -> -1

(* A store through base r reaches the region of the hardware; with an      *)
(* unknown version every base is that of the first data memory.            *)
Reaches(r) == IF prussdrv.version \in {PRUSS_V1, PRUSS_V2} THEN r ELSE "dataram0"

-----------------------------------------------------------------------------
(* The calls as sequences of stores                                        *)

Store(r, n, v) == <<[to |-> r, n |-> n, v |-> v]>>
StoreEach(r, pairs) ==
    [i \in DOMAIN pairs |-> [to |-> r, n |-> pairs[i][1], v |-> pairs[i][2]]]

prussdrv_pru_reset(n) == Store("control", n, 0)
prussdrv_pru_enable_at(n, addr) == Store("control", n, (addr \div 4) * 65536 + 2)
prussdrv_pru_disable(n) == Store("control", n, 1)

(* One block, whose length is rounded up to words: its first words and the *)
(* rest.                                                                   *)
Part(wordoffset, name, bytelength, done) ==
    [at |-> wordoffset, name |-> name, words |-> (bytelength + 3) \div 4, done |-> done]
prussdrv_pru_write_memory(ram, n, wordoffset, name, bytelength) ==
    Store(ram, n, Part(wordoffset, name, bytelength, FALSE))
    \o Store(ram, n, Part(wordoffset, name, bytelength, TRUE))

(* Slip: the PRU goes on while its program is replaced. *)
Hot_prussdrv_exec_code_at(n, name, codelen, addr) ==
    prussdrv_pru_write_memory("iram", n, 0, name, codelen) \o prussdrv_pru_enable_at(n, addr)

prussdrv_exec_code_at(n, name, codelen, addr) ==
    prussdrv_pru_disable(n) \o prussdrv_pru_write_memory("iram", n, 0, name, codelen)
    \o prussdrv_pru_enable_at(n, addr)

prussdrv_load_data(n, name, codelen) ==
    prussdrv_pru_disable(n) \o prussdrv_pru_write_memory("dataram", n, 0, name, codelen)

OutOfRange(d) == \E i \in DOMAIN d.sysevts_enabled : d.sysevts_enabled[i] >= 64

(* Clear and fill the channel map, clear and fill the host map; a list with*)
(* an event out of range ends the call there.  Then enable and clear the   *)
(* events, enable the hosts and keep a copy of the settings.               *)
prussdrv_pruintc_init(d) ==
    Store("cmr", 0, -1)
    \o StoreEach("cmr", d.sysevt_to_channel_map)
    \o Store("hmr", 0, -1)
    \o StoreEach("hmr", d.channel_to_host_map)
    \o IF OutOfRange(d) THEN <<>>
       ELSE Store("esr", 0, {d.sysevts_enabled[i] : i \in DOMAIN d.sysevts_enabled})
            \o Store("secr", 0, {d.sysevts_enabled[i] : i \in DOMAIN d.sysevts_enabled})
            \o Store("hieisr", 0, d.host_enable_bitmask)
            \o Store("copy", 0, d)

prussdrv_pru_send_event(e) == Store("srsr", 0, {e})
prussdrv_pru_wait_event(h) == Store("read", h, 0)
prussdrv_pru_clear_event(h, e) == Store("secr", 0, {e}) \o Store("hieisr", 0, {h + 2})
prussdrv_pru_send_wait_clear_event(e, h, ack) ==
    prussdrv_pru_send_event(e) \o prussdrv_pru_wait_event(h)
    \o prussdrv_pru_clear_event(h, ack)

-----------------------------------------------------------------------------
(* Queries                                                                 *)

FirstOf(map, x) ==
    LET hits == {i \in DOMAIN map : map[i][1] = x}
    IN  IF hits = {} THEN -1 ELSE map[CHOOSE i \in hits : \A j \in hits : i <= j][2]

prussdrv_get_event_to_channel_map(e) == FirstOf(prussdrv.intc_data.sysevt_to_channel_map, e)
prussdrv_get_channel_to_host_map(c) ==
    LET host == FirstOf(prussdrv.intc_data.channel_to_host_map, c)
    IN  IF host = -1 THEN -1 ELSE host - 2
prussdrv_get_event_to_host_map(e) ==
    LET ans == prussdrv_get_event_to_channel_map(e)
    IN  IF ans < 0 THEN ans ELSE prussdrv_get_channel_to_host_map(ans)

prussdrv_map_prumem(ram) ==
    IF ram = "sharedram" /\ prussdrv.version # PRUSS_V2 THEN -1 ELSE BaseOf(ram)
prussdrv_map_peripheral_io(per) == IF prussdrv.version # PRUSS_V2 THEN -1 ELSE BaseOf(per)
prussdrv_map_extmem == prussdrv.extram

prussdrv_get_phys_addr(a) ==
    CASE a >= prussdrv.dataram /\ a < prussdrv.dataram + prussdrv.mapsize -> a - prussdrv.dataram + Phys("dataram0")
      [] a >= prussdrv.extram /\ a < prussdrv.extram + prussdrv.extsize -> a - prussdrv.extram + ExtPhys
      [] OTHER -> 0
prussdrv_get_virt_addr(p) ==
    CASE p >= Phys("dataram0") /\ p < Phys("dataram0") + prussdrv.mapsize ->
                prussdrv.dataram + p - Phys("dataram0")
      [] p >= ExtPhys /\ p < ExtPhys + prussdrv.extsize -> prussdrv.extram + p - ExtPhys
      [] OTHER -> 0

-----------------------------------------------------------------------------
(* The process                                                             *)

NoData == [sysevts_enabled |-> <<>>, sysevt_to_channel_map |-> <<>>,
           channel_to_host_map |-> <<>>, host_enable_bitmask |-> {}]
Zero == [fd |-> [h \in OpenHosts |-> 0], mmap_fd |-> 0, version |-> 0,
         dataram |-> 0, extram |-> 0, mapsize |-> 0, extsize |-> 0, intc_data |-> NoData]

\* Events whose channel is ever set; the maps of all others stay 0
Listed == UNION {{d.sysevt_to_channel_map[i][1] : i \in DOMAIN d.sysevt_to_channel_map} :
                    d \in IntcData}

DrvInit ==
    /\ device \in Devices /\ prussdrv = Zero /\ mapped = FALSE
    /\ alive = TRUE /\ todo = <<>>
    /\ cmr = [e \in Listed |-> 0] /\ hmr = [c \in 0 .. 9 |-> 0]
    /\ enabled = {} /\ pending = {} /\ hosts = {}
    /\ control = [n \in Numbers |-> 1]
    /\ iram = [n \in Numbers |-> [name |-> "none", words |-> 0, whole |-> FALSE]]
    /\ own = {} /\ last = NoData

(* The process crashes or is killed: its files and windows go with it, the *)
(* registers stay.                                                         *)
Dies ==
    /\ alive' = FALSE /\ todo' = <<>> /\ prussdrv' = Zero /\ mapped' = FALSE
    /\ last' = NoData /\ UNCHANGED <<device, registers, own>>

(* The next process, or the same one after prussdrv_exit. *)
prussdrv_init ==
    /\ ~alive \/ (prussdrv.dataram # 0 /\ ~mapped)
    /\ alive' = TRUE /\ prussdrv' = Zero /\ last' = NoData
    /\ UNCHANGED <<device, mapped, todo, registers, own>>

(* __prussdrv_memmap_init takes the first file that is not 0.              *)
FirstFile(fd) ==
    LET used == {h \in OpenHosts : fd[h] # 0}
    IN  fd[CHOOSE h \in used : \A k \in used : h <= k]

(* The sysfs files of the subsystem's memory cannot be opened; mmap fails, *)
(* as it does for a file that is not open, and the version is read through *)
(* MAP_FAILED; or the external memory's files cannot be opened, or its     *)
(* mmap fails unnoticed.                                                   *)
__prussdrv_memmap_init(drv) ==
    LET with == IF drv.mmap_fd = 0 THEN [drv EXCEPT !.mmap_fd = FirstFile(drv.fd)] ELSE drv
        pru == [with EXCEPT !.dataram = PruVirtual, !.mapsize = PruSize,
                            !.version = __pruss_detect_hw_version]
        exited == drv.dataram # 0 /\ ~mapped
    IN  \/ /\ prussdrv' = with
           /\ UNCHANGED <<device, mapped, alive, todo, registers, own, last>>
        \/ Dies
        \/ /\ with.mmap_fd # -1 /\ ~exited /\ mapped' = TRUE
           /\ prussdrv' \in {pru} \union
                            {[pru EXCEPT !.extsize = ExtSize, !.extram = base] :
                               base \in {ExtVirtual, -1}}
           /\ UNCHANGED <<device, alive, todo, registers, own, last>>

Idle == todo = <<>> /\ alive

Fails == UNCHANGED drvVars

(* A file that has been opened, or could not be, is not opened again. *)
prussdrv_open(h) ==
    /\ Idle
    /\ IF prussdrv.fd[h] # 0 THEN Fails
       ELSE \/ /\ prussdrv' = [prussdrv EXCEPT !.fd[h] = -1]
               /\ UNCHANGED <<device, mapped, alive, todo, registers, own, last>>
            \/ __prussdrv_memmap_init([prussdrv EXCEPT !.fd[h] = 3 + h])

(* The windows go; fd and the bases keep their values. *)
prussdrv_exit ==
    /\ Idle /\ mapped /\ mapped' = FALSE
    /\ UNCHANGED <<device, prussdrv, alive, todo, registers, own, last>>

(* A call begins; without a window its first store crashes the process.    *)
(* The last two arguments are the history afterwards.                      *)
Begins(stores, hands, settings) ==
    IF mapped THEN /\ todo' = stores /\ own' = hands /\ last' = settings
                   /\ UNCHANGED <<device, prussdrv, mapped, alive, registers>>
              ELSE Dies
Calls(stores) == Begins(stores, own, last)

(* From a file, or from the memory of the application, which is not asked  *)
(* whether it fits.                                                        *)
Executes(n, name, addr) ==
    \/ /\ name \in DOMAIN Files /\ Files[name] \in 1 .. PRUSS_MAX_IRAM_SIZE
       /\ Calls(prussdrv_exec_code_at(n, name, Files[name], addr))
    \/ /\ name \in DOMAIN Files /\ Files[name] \notin 1 .. PRUSS_MAX_IRAM_SIZE /\ Fails
    \/ /\ name \in DOMAIN Blocks /\ Blocks[name] <= Room.iram
       /\ Calls(prussdrv_exec_code_at(n, name, Blocks[name], addr))

(* A file that is larger than the buffer overruns it. *)
prussdrv_load_datafile(n, name) ==
    CASE Files[name] <= 0 -> Fails
      [] Files[name] > PRUSS_MAX_IRAM_SIZE -> Dies
      [] OTHER -> Calls(prussdrv_load_data(n, name, Files[name]))

(* The application starts a PRU on what its memory holds. *)
Starts(n, addr) ==
    Begins(prussdrv_pru_enable_at(n, addr), IF iram[n].whole THEN own ELSE own \union {n}, last)

(* It writes a memory itself. *)
Writes(ram, n, wordoffset, name) ==
    /\ 4 * wordoffset + Blocks[name] <= Room[ram]
    /\ IF ram = "sharedram" /\ prussdrv.version # PRUSS_V2 THEN Fails
       ELSE Begins(prussdrv_pru_write_memory(ram, n, wordoffset, name, Blocks[name]),
                   IF ram = "iram" THEN own \union {n} ELSE own, last)

Call ==
    /\ Idle
    /\ \/ \E n \in Numbers :
            \/ Calls(prussdrv_pru_reset(n)) \/ Calls(prussdrv_pru_disable(n))
            \/ \E name \in DOMAIN Files : prussdrv_load_datafile(n, name)
            \/ \E addr \in Entries :
                 \/ Starts(n, addr)
                 \/ \E name \in DOMAIN Files \union DOMAIN Blocks : Executes(n, name, addr)
            \/ \E name \in DOMAIN Blocks :
                 \/ /\ Blocks[name] <= Room.dataram
                    /\ Calls(prussdrv_load_data(n, name, Blocks[name]))
                 \/ \E ram \in DOMAIN Room, wordoffset \in WordOffsets :
                      Writes(ram, n, wordoffset, name)
       \/ \E d \in IntcData : Begins(prussdrv_pruintc_init(d), own, d)
       \/ \E s \in Sent :
            \/ Calls(prussdrv_pru_send_event(s[1]))
            \/ Calls(prussdrv_pru_clear_event(s[2], s[1]))
            \/ Calls(prussdrv_pru_send_wait_clear_event(s[1], s[2], s[1]))

-----------------------------------------------------------------------------
(* The stores                                                              *)

Asserted(h) == \E e \in pending \cap enabled : hmr[cmr[e]] = h

Control(s) ==
    /\ s.to = "control"
    /\ control' = IF Reaches("control0") = "control0"
                    THEN [control EXCEPT ![s.n] = s.v] ELSE control
    /\ own' = IF s.v \in {0, 1} THEN own \ {s.n} ELSE own
    /\ UNCHANGED <<prussdrv, intcRegs, iram>>

(* The program at the start of an instruction memory after a block, of     *)
(* which the memory holds as much as it is large.                          *)
Loaded(old, part) ==
    CASE part.at = 0 ->
            [name |-> part.name, whole |-> part.done,
             words |-> IF 4 * part.words <= IramSize[device] THEN part.words
                       ELSE IramSize[device] \div 4]
      [] part.at >= old.words /\ part.at > 0 -> old
      [] OTHER -> [old EXCEPT !.whole = FALSE]

Memory(s) ==
    /\ s.to \in DOMAIN Room
    /\ iram' = IF s.to = "iram" /\ Reaches("iram0") = "iram0"
                 THEN [iram EXCEPT ![s.n] = Loaded(@, s.v)] ELSE iram
    /\ UNCHANGED <<prussdrv, intcRegs, control, own>>

(* The maps are cleared and set (__prussintc_set_cmr, __prussintc_set_hmr);*)
(* of the other registers the ones that are written count.                 *)
Intc(s) ==
    LET reaches(r) == s.to = r /\ Reaches("intc") = "intc"
        Set(map) == IF s.v = -1 THEN [x \in DOMAIN map |-> 0] ELSE [map EXCEPT ![s.n] = s.v]
    IN  /\ s.to \in {"cmr", "hmr", "esr", "secr", "srsr", "hieisr"}
        /\ cmr' = IF reaches("cmr") THEN Set(cmr) ELSE cmr
        /\ hmr' = IF reaches("hmr") THEN Set(hmr) ELSE hmr
        /\ enabled' = IF reaches("esr") THEN enabled \union s.v ELSE enabled
        /\ pending' = CASE reaches("secr") -> pending \ s.v
                        [] reaches("srsr") -> pending \union s.v
                        [] OTHER -> pending
        /\ hosts' = IF reaches("hieisr") THEN hosts \union s.v ELSE hosts
        /\ UNCHANGED <<prussdrv, control, iram, own>>

Copy(s) ==
    /\ s.to = "copy" /\ prussdrv' = [prussdrv EXCEPT !.intc_data = s.v]
    /\ UNCHANGED <<registers, own>>

(* read() of the UIO file, whose handler has disabled the host interrupt;  *)
(* of a file that is not open it fails at once, unnoticed.                 *)
Read(s) ==
    /\ s.to = "read"
    /\ prussdrv.fd[s.n] > 0 => s.n + 2 \in hosts /\ Asserted(s.n + 2)
    /\ hosts' = IF prussdrv.fd[s.n] > 0 THEN hosts \ {s.n + 2} ELSE hosts
    /\ UNCHANGED <<prussdrv, cmr, hmr, enabled, pending, control, iram, own>>

Step ==
    /\ todo # <<>>
    /\ LET s == Head(todo)
       IN  Control(s) \/ Memory(s) \/ Intc(s) \/ Copy(s) \/ Read(s)
    /\ todo' = Tail(todo)
    /\ UNCHANGED <<device, mapped, alive, last>>

DrvNext == prussdrv_init \/ prussdrv_exit \/ Call \/ Step \/ (alive /\ Dies)
           \/ \E h \in OpenHosts : prussdrv_open(h)

DrvSpec == DrvInit /\ [][DrvNext]_drvVars

-----------------------------------------------------------------------------
(* Properties                                                              *)

Table == IF device = "AM18XX" THEN AM18XX ELSE AM33XX
Known == device # "other"
Enabled(n) == control[n] % 65536 = 2

SizeOf(name) == IF name \in DOMAIN Files THEN Files[name] ELSE Blocks[name]

(* A PRU that is enabled executes one whole program, unless it was started *)
(* or patched by hand.  Its end is missing only if it was longer than the  *)
(* memory, which the library lets pass for code in memory, and for files   *)
(* on the AM18XX.                                                          *)
RunsWholeProgram ==
    \A n \in Numbers : Enabled(n) /\ n \notin own =>
       /\ iram[n].whole /\ iram[n].name \in DOMAIN Files \union DOMAIN Blocks
       /\ \/ 4 * iram[n].words >= SizeOf(iram[n].name)
          \/ /\ SizeOf(iram[n].name) > IramSize[device]
             /\ device = "AM18XX" \/ iram[n].name \in DOMAIN Blocks

(* The call that is executed is still to change the maps or to copy them.  *)
Initializing == \E i \in DOMAIN todo : todo[i].to \in {"cmr", "hmr", "copy"}

(* The controller has the maps the process asked for last, also when their *)
(* events were refused.  Only otherwise what the process looks up is what  *)
(* the controller does: it never looks up settings that were refused.      *)
MapsAgree ==
    /\ prussdrv.intc_data \in {NoData} \union {d \in IntcData : ~OutOfRange(d)}
    /\ Known /\ ~Initializing =>
         /\ \A i \in DOMAIN last.sysevt_to_channel_map :
               cmr[last.sysevt_to_channel_map[i][1]] = last.sysevt_to_channel_map[i][2]
         /\ \A i \in DOMAIN last.channel_to_host_map :
               hmr[last.channel_to_host_map[i][1]] = last.channel_to_host_map[i][2]
         /\ ~OutOfRange(last) => \A i \in DOMAIN last.sysevt_to_channel_map :
               LET e == last.sysevt_to_channel_map[i][1]
               IN  prussdrv_get_event_to_host_map(e) = hmr[cmr[e]] - 2

(* Every region is found at its physical address, and back.                *)
AddressesAgree ==
    mapped /\ Known =>
       /\ \A r \in DOMAIN Table :
             /\ prussdrv_get_phys_addr(BaseOf(r)) = Table[r]
             /\ prussdrv_get_virt_addr(Table[r]) = BaseOf(r)
       /\ prussdrv_get_phys_addr(prussdrv.dataram + prussdrv.mapsize) = 0
       /\ prussdrv.extram > 0 => \A a \in {prussdrv.extram, prussdrv.extram + prussdrv.extsize - 1} :
             prussdrv_get_virt_addr(prussdrv_get_phys_addr(a)) = a

(* No instruction changes under a PRU that runs but by hand. *)
PatchedWhileHalted ==
    \A n \in Numbers : iram'[n] # iram[n] /\ Enabled(n) => n \in own

(* Whatever calls succeed or fail and wherever a process dies: the PRUs    *)
(* execute whole programs, which were not changed while they ran, and the  *)
(* process's view of events and addresses is the hardware's.               *)
DriverConsistent ==
    /\ [](RunsWholeProgram /\ MapsAgree /\ AddressesAgree)
    /\ [][PatchedWhileHalted]_drvVars
=============================================================================
