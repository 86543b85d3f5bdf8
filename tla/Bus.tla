--------------------------------- MODULE Bus ---------------------------------
(***************************************************************************)
(* The processor's two bus masters (wishbone_bus.v, one for instructions   *)
(* and one for data), the stall and flush control (ctrl.v), the pipeline   *)
(* registers they steer (pc_reg.v, if_id.v, id_ex.v, ex_mem.v, mem_wb.v),  *)
(* the interconnect (wb_conmax) and two slaves, the RAM (sram.v) and the   *)
(* serial port (uart_controller.v).                                        *)
(*                                                                         *)
(* A step is a rising edge of the clock; an operator named for a Verilog   *)
(* module gives that module's registers behind the edge.  What an          *)
(* instruction computes is left out: an instruction is a kind, the word    *)
(* that memory holds at an address is that address, and a branch may go    *)
(* anywhere.  The kernel touches the serial port with interrupts disabled  *)
(* (console.c:112-213).  Reset, the flash, the boot ROM, VGA and the       *)
(* receiver of the serial port are left out.                               *)
(***************************************************************************)
EXTENDS Integers

CONSTANT PCs     \* where instructions are

\* They are not in the registers of the serial port.
ASSUME BusAssumption == PCs \cap {"D", "S"} = {}

VARIABLES
    ibus, dbus,             \* the two wishbone_bus
    pc, id, ex, mem, wb,    \* what each stage of the pipeline has
    ie,                     \* interrupts are enabled
    irq,                    \* a device asks for one, and they are enabled
    cyc, cyc_r,             \* wb_conmax: master -> the slave it asks for
    grant,                  \* slave -> the master it listens to
    ram, uart               \* the slaves

vars == <<ibus, dbus, pc, id, ex, mem, wb, ie, irq, cyc, cyc_r, grant, ram, uart>>

-----------------------------------------------------------------------------
(* Instructions                                                            *)

\* The address a kind of instruction accesses: "A" and "B" are in RAM, "D" and
\* "S" are the data and the status register of the serial port.
Addr == [lw_A |-> "A", lw_B |-> "B", sw_A |-> "A", sb_B |-> "B",
         lb_D |-> "D", lb_S |-> "S", sb_D |-> "D"]
Access == DOMAIN Addr
Stores == {"sw_A", "sb_B", "sb_D"}
Serial == {k \in Access : Addr[k] \in {"D", "S"}}
Kinds == Access \cup {"alu", "trap", "eret"}
Slaves == {"ram", "uart"}
\* phy_wb_addr and the interconnect's slv_sel
slv_sel(addr) == IF addr \in {"D", "S"} THEN "uart" ELSE "ram"

Bubble == [k |-> "none"]
\* An instruction in MEM, with what was done for it: the RAM was written, how
\* many characters were sent.
InMem(k) == [k |-> k, written |-> FALSE, sent |-> 0]

-----------------------------------------------------------------------------
(* Combinational logic                                                     *)

\* mem.v: an exception (excepttype_o) of the instruction in MEM.
Interrupt == mem.k # "none" /\ irq
flush == Interrupt \/ mem.k \in {"trap", "eret"}

Masters == {"i", "d"}
Bus(m) == IF m = "i" THEN ibus ELSE dbus
Ce(m) == m = "i" \/ mem.k \in Access
\* A slave sees an access of the master it listens to.
Accessed(s) == LET m == grant[s]
               IN  /\ Bus(m).stb /\ slv_sel(Bus(m).addr) = s
                   /\ cyc[m] = s /\ cyc_r[m] = s
Ack(m) == LET s == slv_sel(Bus(m).addr)
          IN  grant[s] = m /\ (IF s = "ram" THEN ram.ack ELSE uart.ack)
DataOf(m) == IF slv_sel(Bus(m).addr) = "ram" THEN ram.data ELSE uart.data

\* The master stops the pipeline until it is idle.
stallreq_waiting(m) ==
    CASE Bus(m).state = "idle" -> Ce(m) /\ ~flush
      [] Bus(m).state = "busy" -> ~Ack(m)
      [] Bus(m).state = "wait" -> TRUE
stallreq(m) ==
    CASE Bus(m).state = "idle" -> Ce(m) /\ ~flush
      [] Bus(m).state = "busy" -> ~Ack(m)
      [] Bus(m).state = "wait" -> FALSE
cpu_data_o(m) ==
    CASE Bus(m).state = "busy" /\ Ack(m) /\ ~Bus(m).we -> DataOf(m)
      [] Bus(m).state = "wait" -> Bus(m).rd_buf
      [] OTHER -> "0"

\* id.v: the instruction in ID needs what a load in EX has yet to load.
stallreq_id == id.k # "none" /\ id.needs /\ ex.k \in Access \ Stores

\* ctrl.v: which stages stop: 6'b011111, 6'b000111 or none.
stall == CASE flush -> "none"
           [] ~flush /\ stallreq("d") -> "mem"
           [] ~flush /\ ~stallreq("d") /\ (stallreq_id \/ stallreq("i")) -> "front"
           [] OTHER -> "none"

-----------------------------------------------------------------------------
(* Registers: the masters                                                  *)

Off == [state |-> "idle", stb |-> FALSE, we |-> FALSE, addr |-> "0", rd_buf |-> "0"]

\* A flush leaves the bus cycle alone.
wishbone_bus_unflushed(m, we, addr) ==
    LET b == Bus(m)
    IN  CASE b.state = "idle" ->
               IF Ce(m)
               THEN [state |-> "busy", stb |-> TRUE, we |-> we, addr |-> addr,
                     rd_buf |-> "0"]
               ELSE b
          [] b.state = "busy" /\ Ack(m) ->
               [Off EXCEPT !.state = IF stall = "none" THEN "idle" ELSE "wait",
                           !.rd_buf = IF we THEN b.rd_buf ELSE DataOf(m)]
          [] b.state = "busy" /\ ~Ack(m) -> b
          [] b.state = "wait" -> IF stall = "none" THEN [b EXCEPT !.state = "idle"] ELSE b
\* we and addr are the processor's, not the ones on the bus.
wishbone_bus(m, we, addr) ==
    LET b == Bus(m)
    IN  CASE b.state = "idle" ->
               IF Ce(m) /\ ~flush
               THEN [state |-> "busy", stb |-> TRUE, we |-> we, addr |-> addr,
                     rd_buf |-> "0"]
               ELSE b
          [] b.state = "busy" /\ Ack(m) ->
               [Off EXCEPT !.state = IF stall = "none" THEN "idle" ELSE "wait",
                           !.rd_buf = IF we THEN b.rd_buf ELSE DataOf(m)]
          [] b.state = "busy" /\ ~Ack(m) -> IF flush THEN Off ELSE b
          [] b.state = "wait" -> IF stall = "none" THEN [b EXCEPT !.state = "idle"] ELSE b

\* wb_conmax: the slave is chosen by the address; a slave goes on listening to
\* the master it listens to until that one stops asking and another does.
Asks(m) == IF Bus(m).stb THEN slv_sel(Bus(m).addr) ELSE "none"
wb_conmax_arb(s) ==
    IF cyc[grant[s]] = s THEN grant[s]
    ELSE IF \E m \in Masters : cyc[m] = s THEN CHOOSE m \in Masters : cyc[m] = s
    ELSE grant[s]

-----------------------------------------------------------------------------
(* Registers: the slaves                                                   *)

\* sram.v.  The RAM takes a word while ram_we is low, that is at WRITE1.
sram_top ==
    LET b == Bus(grant["ram"])
    IN  IF ~Accessed("ram") THEN [state |-> "idle", ack |-> FALSE, data |-> "0"]
        ELSE CASE ram.state = "idle" ->
                    [ram EXCEPT !.ack = FALSE,
                                !.state = IF ~b.we THEN "read"
                                          ELSE IF b.addr = "A" THEN "write0"
                                          ELSE "read_before_write"]
               [] ram.state = "read" -> [state |-> "idle", ack |-> TRUE, data |-> b.addr]
               [] ram.state = "read_before_write" -> [ram EXCEPT !.state = "write0"]
               [] ram.state = "write0" -> [ram EXCEPT !.state = "write1"]
               [] ram.state = "write1" -> [ram EXCEPT !.state = "idle", !.ack = TRUE]
RamWrites == Accessed("ram") /\ ram.state = "write1" /\ Bus(grant["ram"]).we

\* uart_controller.v.  busy says that the transmitter (uart_async.v) is not ready,
\* done that it has finished.
TransmitterStarts == uart.start /\ ~uart.busy
TxD_busy == uart.busy \/ uart.start
uart_controller(done) ==
    LET b == Bus(grant["uart"])
        accepted == ~(b.we /\ b.addr = "D" /\ TxD_busy)
    IN  [ack |-> Accessed("uart") /\ accepted,
         start |-> Accessed("uart") /\ b.we /\ b.addr = "D" /\ ~TxD_busy,
         data |-> IF Accessed("uart") /\ ~b.we THEN b.addr ELSE "0",
         busy |-> TransmitterStarts \/ (uart.busy /\ ~done)]

-----------------------------------------------------------------------------
(* Registers: the pipeline                                                 *)

pc_reg(next) == IF flush \/ stall = "none" THEN next ELSE pc
\* what is fetched has kind k
if_id(k, needs) == IF flush THEN Bubble
                   ELSE IF stall # "none" THEN id
                   ELSE [k |-> k, needs |-> needs, pc |-> pc, word |-> cpu_data_o("i")]
id_ex == IF flush \/ stall = "front" THEN Bubble
         ELSE IF stall = "mem" THEN ex
         ELSE [k |-> id.k]
\* Still in MEM, with what this clock did for it.
Served == IF mem.k = "none" THEN mem
          ELSE [mem EXCEPT !.written = @ \/ (RamWrites /\ grant["ram"] = "d"),
                           !.sent = IF TransmitterStarts THEN @ + 1 ELSE @]
ex_mem == IF flush THEN Bubble
          ELSE IF stall = "mem" THEN Served
          ELSE IF ex.k = "none" THEN Bubble
          ELSE InMem(ex.k)
mem_wb == IF flush \/ stall = "mem" \/ mem.k = "none" THEN Bubble
          ELSE [k |-> mem.k, data |-> cpu_data_o("d"), written |-> Served.written,
                sent |-> Served.sent]

\* cp0_reg.v: an exception sets EXL, eret clears it.
cp0_status == IF flush THEN ~Interrupt /\ mem.k = "eret" ELSE ie

-----------------------------------------------------------------------------

Init ==
    /\ ibus = Off /\ dbus = Off
    /\ pc \in PCs
    /\ id = Bubble /\ ex = Bubble /\ mem = Bubble /\ wb = Bubble
    /\ ie = FALSE /\ irq = FALSE
    /\ cyc = [m \in Masters |-> "none"] /\ cyc_r = cyc
    /\ grant = [s \in Slaves |-> "d"]
    /\ ram = [state |-> "idle", ack |-> FALSE, data |-> "0"]
    /\ uart = [ack |-> FALSE, start |-> FALSE, data |-> "0", busy |-> FALSE]

\* What the decoder is given and where the program goes are free; there is a
\* choice only in the clocks that look at it.
Fetching == ~flush /\ stall = "none"
Fetched == IF Fetching THEN {k \in Kinds : k \in Serial => ~ie} ELSE {"alu"}
Needs == IF Fetching THEN BOOLEAN ELSE {FALSE}
Targets == IF flush \/ stall = "none" THEN PCs ELSE {pc}

Clock ==
    /\ ibus' = wishbone_bus("i", FALSE, pc)
    /\ dbus' = wishbone_bus("d", mem.k \in Stores /\ ~flush,
                            IF mem.k \in Access THEN Addr[mem.k] ELSE "0")
    /\ \E next \in Targets : pc' = pc_reg(next)
    /\ \E k \in Fetched, needs \in Needs : id' = if_id(k, needs)
    /\ ex' = id_ex
    /\ mem' = ex_mem
    /\ wb' = mem_wb
    /\ ie' = cp0_status
    /\ irq' \in IF cp0_status THEN BOOLEAN ELSE {FALSE}
    /\ cyc' = [m \in Masters |-> Asks(m)] /\ cyc_r' = cyc
    /\ grant' = [s \in Slaves |-> wb_conmax_arb(s)]
    /\ ram' = sram_top
    /\ \E done \in IF uart.busy THEN BOOLEAN ELSE {FALSE} : uart' = uart_controller(done)

Next == Clock

\* The clock runs and a character that is being sent is sent in the end.
Spec == Init /\ [][Next]_vars /\ WF_vars(Clock /\ ~uart'.busy)

-----------------------------------------------------------------------------
(* Properties                                                              *)

\* An instruction leaves MEM only when its access was done, by itself and not by
\* the one before it: a load has the word of its own address, a store was
\* written, a character was sent, once.  The word that is decoded is the one at
\* the address it is taken to have, whatever flush or branch met its fetch
\* (wishbone_bus.v:61-158, ctrl.v:23-75, uart_controller.v:32-62).
AccessesMatch ==
    /\ wb.k \in Access \ Stores => wb.data = Addr[wb.k]
    /\ wb.k \in {"sw_A", "sb_B"} => wb.written
    /\ wb.k = "sb_D" => wb.sent = 1
    /\ TransmitterStarts => mem.k = "sb_D"
    /\ id.k # "none" => id.word = id.pc

\* Type invariant: every register has one of its values.
Words == PCs \cup {"0", "A", "B", "D", "S"}
BusTypeOK ==
    /\ {ibus, dbus} \subseteq [state : {"idle", "busy", "wait"}, stb : BOOLEAN,
                              we : BOOLEAN, addr : Words, rd_buf : Words]
    /\ pc \in PCs
    /\ id \in {Bubble} \cup [k : Kinds, needs : BOOLEAN, pc : PCs, word : Words]
    /\ ex \in [k : Kinds \cup {"none"}]
    /\ mem \in {Bubble} \cup [k : Kinds, written : BOOLEAN, sent : Nat]
    /\ wb \in {Bubble} \cup [k : Kinds, data : Words, written : BOOLEAN, sent : Nat]
    /\ ie \in BOOLEAN /\ irq \in BOOLEAN
    /\ cyc \in [Masters -> Slaves \cup {"none"}] /\ cyc_r \in [Masters -> Slaves \cup {"none"}]
    /\ grant \in [Slaves -> Masters]
    /\ ram \in [state : {"idle", "read", "read_before_write", "write0", "write1"},
                ack : BOOLEAN, data : Words]
    /\ uart \in [ack : BOOLEAN, start : BOOLEAN, data : Words, busy : BOOLEAN]

\* A master that is busy works for the stage it belongs to, and what it keeps is
\* for the instruction it was fetched for; the instructions are so far apart that
\* none enters MEM behind another one's wait.
MastersServe ==
    /\ \A m \in Masters : Bus(m).stb <=> Bus(m).state = "busy"
    /\ ibus.state = "busy" => ibus.addr = pc /\ ~ ibus.we
    /\ ibus.state = "wait" => ibus.rd_buf = pc
    /\ dbus.state = "busy" => /\ mem.k \in Access /\ dbus.addr = Addr[mem.k]
                              /\ dbus.we <=> mem.k \in Stores
    /\ dbus.state = "wait" => mem.k = "none"
    /\ ex.k # "none" => ibus.state = "idle" /\ dbus.state = "idle" /\ mem.k = "none"

\* Nothing interrupts an access of the serial port.
SerialUninterrupted ==
    /\ irq => ie
    /\ ie => id.k \notin Serial /\ ex.k \notin Serial /\ mem.k \notin Serial

\* Only the data master reaches the serial port.
ConmaxSound == cyc["i"] # "uart" /\ grant["uart"] = "d"

\* What the RAM is doing, it does for the access on the bus it listens to.
RamSound ==
    /\ ram.ack => ram.state = "idle"
    /\ LET b == Bus(grant["ram"])
       IN  b.stb /\ slv_sel(b.addr) = "ram" =>
              /\ ram.state = "read" => ~ b.we
              /\ ram.state \in {"read_before_write", "write0", "write1"} => b.we
              /\ ram.ack => IF b.we THEN mem.written ELSE ram.data = b.addr

\* The transmitter starts in the clock in which its store leaves MEM.
UartSound ==
    /\ uart.start => /\ ~ uart.busy /\ uart.ack
                     /\ dbus.state = "busy" /\ mem.k = "sb_D"
    /\ uart.ack /\ dbus.stb /\ slv_sel(dbus.addr) = "uart" =>
          IF dbus.we THEN uart.start ELSE uart.data = dbus.addr
    /\ mem.k = "sb_D" => mem.sent = 0

\* The inductive invariant behind AccessesMatch.
BusInv ==
    /\ BusTypeOK /\ MastersServe /\ SerialUninterrupted /\ ConmaxSound
    /\ RamSound /\ UartSound /\ AccessesMatch

\* The two masters do not wait on each other for ever: again and again nothing
\* is stalled (ctrl.v:59-75, wishbone_bus.v:85-116).
PipelineMoves == []<>(stall = "none")
=============================================================================
