----------------------------- MODULE BusProofs -----------------------------
(***************************************************************************)
(* Every access of an instruction is its own, wherever instructions are.   *)
(***************************************************************************)
EXTENDS Bus, TLAPS

\* What an access of each kind addresses.
LEMMA AddrFacts ==
    /\ Access = {"lw_A", "lw_B", "sw_A", "sb_B", "lb_D", "lb_S", "sb_D"}
    /\ Serial = {"lb_D", "lb_S", "sb_D"}
    /\ Kinds = Access \cup {"alu", "trap", "eret"}
    /\ \A k \in Access : /\ Addr[k] \in {"A", "B", "D", "S"}
                         /\ slv_sel(Addr[k]) = IF k \in Serial THEN "uart" ELSE "ram"
    /\ Addr["lb_D"] = "D" /\ Addr["lb_S"] = "S" /\ Addr["sb_D"] = "D"
    /\ \A a : slv_sel(a) \in Slaves
  BY DEF Access, Addr, Serial, Kinds, slv_sel, Slaves

\* Instructions are fetched from the RAM.
LEMMA FetchFacts == \A a \in PCs : slv_sel(a) = "ram"
  BY BusAssumption DEF slv_sel

\* ctrl.v: who stops whom.
LEMMA StallFacts ==
    /\ stall \in {"none", "mem", "front"}
    /\ flush => stall = "none"
    /\ stall = "mem" <=> ~flush /\ stallreq("d")
    /\ stall = "none" /\ ~flush => ~stallreq("d") /\ ~stallreq("i")
  BY DEF stall

\* When a master stops the pipeline.
LEMMA StallreqFacts ==
    ASSUME BusTypeOK, NEW m \in Masters
    PROVE  stallreq(m) <=> \/ Bus(m).state = "idle" /\ Ce(m) /\ ~flush
                           \/ Bus(m).state = "busy" /\ ~Ack(m)
  <1>1. Bus(m).state \in {"idle", "busy", "wait"}
    BY DEF Bus, Masters, BusTypeOK
  <1> QED BY <1>1 DEF stallreq

\* What an edge of the clock does to a master.
LEMMA MasterFacts ==
    ASSUME BusTypeOK, NEW m \in Masters, NEW we \in BOOLEAN, NEW addr \in Words,
           NEW b, b = wishbone_bus(m, we, addr)
    PROVE  /\ Bus(m).state = "idle" /\ Ce(m) /\ ~flush =>
                /\ b.state = "busy" /\ b.stb /\ b.we = we /\ b.addr = addr
           /\ Bus(m).state = "idle" /\ ~(Ce(m) /\ ~flush) => b = Bus(m)
           /\ Bus(m).state = "busy" /\ Ack(m) =>
                /\ b.state = IF stall = "none" THEN "idle" ELSE "wait"
                /\ ~ b.stb
                /\ ~ we => b.rd_buf = DataOf(m)
           /\ Bus(m).state = "busy" /\ ~Ack(m) => b = IF flush THEN Off ELSE Bus(m)
           /\ Bus(m).state = "wait" =>
                /\ b.state = IF stall = "none" THEN "idle" ELSE "wait"
                /\ b.stb = Bus(m).stb /\ b.rd_buf = Bus(m).rd_buf
           /\ b \in [state : {"idle", "busy", "wait"}, stb : BOOLEAN,
                     we : BOOLEAN, addr : Words, rd_buf : Words]
  <1> DEFINE R == [state : {"idle", "busy", "wait"}, stb : BOOLEAN,
                   we : BOOLEAN, addr : Words, rd_buf : Words]
  <1>1. Bus(m) \in R
    BY DEF Bus, Masters, BusTypeOK
  <1>2. DataOf(m) \in Words
    BY DEF DataOf, BusTypeOK
  <1>3. Off \in R /\ Off.state = "idle" /\ ~Off.stb
    BY DEF Off, Words
  <1>4. CASE Bus(m).state = "idle"
    <2>1. b = IF Ce(m) /\ ~flush
              THEN [state |-> "busy", stb |-> TRUE, we |-> we, addr |-> addr,
                    rd_buf |-> "0"]
              ELSE Bus(m)
      BY <1>4 DEF wishbone_bus
    <2> QED BY <1>1, <1>4, <2>1 DEF Words
  <1>5. CASE Bus(m).state = "busy" /\ Ack(m)
    <2>1. b = [Off EXCEPT !.state = IF stall = "none" THEN "idle" ELSE "wait",
                          !.rd_buf = IF we THEN Bus(m).rd_buf ELSE DataOf(m)]
      BY <1>5 DEF wishbone_bus
    <2> QED BY <1>1, <1>2, <1>3, <1>5, <2>1 DEF Off
  <1>6. CASE Bus(m).state = "busy" /\ ~Ack(m)
    <2>1. b = IF flush THEN Off ELSE Bus(m)
      BY <1>6 DEF wishbone_bus
    <2> QED BY <1>1, <1>3, <1>6, <2>1
  <1>7. CASE Bus(m).state = "wait"
    <2>1. b = IF stall = "none" THEN [Bus(m) EXCEPT !.state = "idle"] ELSE Bus(m)
      BY <1>7 DEF wishbone_bus
    <2> QED BY <1>1, <1>7, <2>1
  <1> QED BY <1>1, <1>4, <1>5, <1>6, <1>7

\* The data master is given an instruction that is in MEM.
LEMMA DataArguments ==
    ASSUME BusTypeOK
    PROVE  /\ (mem.k \in Stores /\ ~flush) \in BOOLEAN
           /\ (IF mem.k \in Access THEN Addr[mem.k] ELSE "0") \in Words
  BY AddrFacts DEF Words

LEMMA MemFacts ==
    ASSUME BusTypeOK
    PROVE  /\ mem.k = "none" => mem = Bubble
           /\ mem.k # "none" => mem \in [k : Kinds, written : BOOLEAN, sent : Nat]
           /\ id.k # "none" => id \in [k : Kinds, needs : BOOLEAN, pc : PCs, word : Words]
           /\ mem.k \in Kinds \cup {"none"} /\ ex.k \in Kinds \cup {"none"}
           /\ id.k \in Kinds \cup {"none"}
           /\ Served.k = mem.k /\ Served \in {Bubble} \cup [k : Kinds, written : BOOLEAN, sent : Nat]
           /\ Bubble.k = "none" /\ \A k : InMem(k).k = k
  <1>1. Bubble.k = "none" /\ \A k : InMem(k).k = k
    BY DEF Bubble, InMem
  <1>2. "none" \notin Kinds
    BY AddrFacts
  <1>3. /\ mem.k = "none" => mem = Bubble
        /\ mem.k # "none" => mem \in [k : Kinds, written : BOOLEAN, sent : Nat]
        /\ mem.k \in Kinds \cup {"none"}
    BY <1>1, <1>2 DEF BusTypeOK
  <1>4. /\ id.k # "none" => id \in [k : Kinds, needs : BOOLEAN, pc : PCs, word : Words]
        /\ id.k \in Kinds \cup {"none"} /\ ex.k \in Kinds \cup {"none"}
    BY <1>1, <1>2 DEF BusTypeOK
  <1>5. Served.k = mem.k /\ Served \in {Bubble} \cup [k : Kinds, written : BOOLEAN, sent : Nat]
    <2>1. CASE mem.k = "none"
      BY <1>3, <2>1 DEF Served
    <2>2. CASE mem.k # "none"
      <3>1. /\ (mem.written \/ (RamWrites /\ grant["ram"] = "d")) \in BOOLEAN
            /\ (IF TransmitterStarts THEN mem.sent + 1 ELSE mem.sent) \in Nat
        BY <1>3, <2>2
      <3> QED BY <1>3, <2>2, <3>1 DEF Served
    <2> QED BY <2>1, <2>2
  <1> QED BY <1>1, <1>3, <1>4, <1>5

\* What the data master asks for is still in MEM behind the edge.
LEMMA HeldFacts ==
    ASSUME BusInv, Clock, ~flush, stallreq("d")
    PROVE  /\ mem' = Served /\ ex' = ex /\ wb' = Bubble /\ pc' = pc /\ id' = id
           /\ mem'.k = mem.k
  <1>1. stall = "mem"
    BY StallFacts
  <1>2. mem' = Served /\ ex' = ex /\ wb' = Bubble
    BY <1>1 DEF Clock, ex_mem, id_ex, mem_wb
  <1>3. pc' = pc /\ id' = id
    BY <1>1 DEF Clock, pc_reg, if_id
  <1> QED BY <1>2, <1>3, MemFacts DEF BusInv

\* A word that is acknowledged to the instruction master is the one it asked for.
LEMMA FetchedWord ==
    ASSUME BusInv, ibus.state = "busy", Ack("i")
    PROVE  DataOf("i") = pc
  <1>1. /\ ibus.stb /\ ibus.addr = pc /\ ~ ibus.we /\ slv_sel(pc) = "ram"
        /\ Bus("i") = ibus
    BY FetchFacts DEF BusInv, MastersServe, BusTypeOK, Bus, Masters
  <1>2. grant["ram"] = "i" /\ ram.ack
    BY <1>1 DEF Ack
  <1> QED BY <1>1, <1>2 DEF BusInv, RamSound, DataOf

LEMMA MastersStep == ASSUME BusInv, Clock PROVE MastersServe'
  <1>1. BusTypeOK /\ MastersServe
    BY DEF BusInv
  <1>2. ibus' = wishbone_bus("i", FALSE, pc) /\ pc \in Words
    BY <1>1 DEF Clock, BusTypeOK, Words
  <1>3. dbus' = wishbone_bus("d", mem.k \in Stores /\ ~flush,
                             IF mem.k \in Access THEN Addr[mem.k] ELSE "0")
    BY DEF Clock
  <1>4. /\ Bus("i") = ibus /\ Bus("d") = dbus /\ (Bus("i") = ibus)' /\ (Bus("d") = dbus)'
        /\ Masters = {"i", "d"} /\ Ce("i") /\ (Ce("d") <=> mem.k \in Access)
    BY DEF Bus, Masters, Ce
  <1>5. /\ ibus.state \in {"idle", "busy", "wait"} /\ ibus.stb \in BOOLEAN
        /\ dbus.state \in {"idle", "busy", "wait"} /\ dbus.stb \in BOOLEAN
    BY <1>1 DEF BusTypeOK
  <1>6. /\ ibus.state = "idle" /\ ~flush =>
             ibus'.state = "busy" /\ ibus'.stb /\ ibus'.we = FALSE /\ ibus'.addr = pc
        /\ ibus.state = "idle" /\ flush => ibus' = ibus
        /\ ibus.state = "busy" /\ Ack("i") =>
             /\ ibus'.state = IF stall = "none" THEN "idle" ELSE "wait"
             /\ ~ ibus'.stb /\ ibus'.rd_buf = pc
        /\ ibus.state = "busy" /\ ~Ack("i") => ibus' = IF flush THEN Off ELSE ibus
        /\ ibus.state = "wait" =>
             /\ ibus'.state = IF stall = "none" THEN "idle" ELSE "wait"
             /\ ibus'.stb = ibus.stb /\ ibus'.rd_buf = ibus.rd_buf
    <2> DEFINE we == FALSE
    <2>1. we \in BOOLEAN /\ we = FALSE /\ ibus' = wishbone_bus("i", we, pc)
      BY <1>2
    <2> HIDE DEF we
    <2>2. /\ ibus.state = "idle" /\ ~flush =>
               ibus'.state = "busy" /\ ibus'.stb /\ ibus'.we = we /\ ibus'.addr = pc
          /\ ibus.state = "idle" /\ flush => ibus' = ibus
          /\ ibus.state = "busy" /\ Ack("i") =>
               /\ ibus'.state = IF stall = "none" THEN "idle" ELSE "wait"
               /\ ~ ibus'.stb /\ (~ we => ibus'.rd_buf = DataOf("i"))
          /\ ibus.state = "busy" /\ ~Ack("i") => ibus' = IF flush THEN Off ELSE ibus
          /\ ibus.state = "wait" =>
               /\ ibus'.state = IF stall = "none" THEN "idle" ELSE "wait"
               /\ ibus'.stb = ibus.stb /\ ibus'.rd_buf = ibus.rd_buf
      <3>1. "i" \in Masters /\ pc \in Words /\ BusTypeOK
        BY <1>1, <1>2, <1>4
      <3> DEFINE b == ibus'
      <3>2. b = wishbone_bus("i", we, pc)
        BY <2>1
      <3> HIDE DEF b
      <3>3. /\ Bus("i").state = "idle" /\ Ce("i") /\ ~flush =>
                 b.state = "busy" /\ b.stb /\ b.we = we /\ b.addr = pc
            /\ Bus("i").state = "idle" /\ ~(Ce("i") /\ ~flush) => b = Bus("i")
            /\ Bus("i").state = "busy" /\ Ack("i") =>
                 /\ b.state = IF stall = "none" THEN "idle" ELSE "wait"
                 /\ ~ b.stb
                 /\ ~ we => b.rd_buf = DataOf("i")
            /\ Bus("i").state = "busy" /\ ~Ack("i") => b = IF flush THEN Off ELSE Bus("i")
            /\ Bus("i").state = "wait" =>
                 /\ b.state = IF stall = "none" THEN "idle" ELSE "wait"
                 /\ b.stb = Bus("i").stb /\ b.rd_buf = Bus("i").rd_buf
        BY <2>1, <3>1, <3>2, MasterFacts
      <3> QED BY <1>4, <3>3 DEF b
    <2> QED BY <2>1, <2>2, FetchedWord
  <1>7. /\ dbus.state = "idle" /\ mem.k \in Access /\ ~flush =>
             /\ dbus'.state = "busy" /\ dbus'.stb
             /\ dbus'.we <=> mem.k \in Stores
             /\ dbus'.addr = Addr[mem.k]
        /\ dbus.state = "idle" /\ ~(mem.k \in Access /\ ~flush) => dbus' = dbus
        /\ dbus.state = "busy" /\ Ack("d") =>
             /\ dbus'.state = IF stall = "none" THEN "idle" ELSE "wait"
             /\ ~ dbus'.stb
        /\ dbus.state = "busy" /\ ~Ack("d") => dbus' = IF flush THEN Off ELSE dbus
        /\ dbus.state = "wait" =>
             /\ dbus'.state = IF stall = "none" THEN "idle" ELSE "wait"
             /\ dbus'.stb = dbus.stb
    <2> DEFINE we == mem.k \in Stores /\ ~flush
               addr == IF mem.k \in Access THEN Addr[mem.k] ELSE "0"
    <2>1. /\ we \in BOOLEAN /\ (we <=> mem.k \in Stores /\ ~flush)
          /\ addr \in Words /\ (mem.k \in Access => addr = Addr[mem.k])
          /\ dbus' = wishbone_bus("d", we, addr)
      BY <1>1, <1>3, DataArguments
    <2> HIDE DEF we, addr
    <2> QED BY <1>1, <1>4, <2>1, MasterFacts
  <1>8. /\ stallreq("i") <=> \/ ibus.state = "idle" /\ ~flush
                             \/ ibus.state = "busy" /\ ~Ack("i")
        /\ stallreq("d") <=> \/ dbus.state = "idle" /\ mem.k \in Access /\ ~flush
                             \/ dbus.state = "busy" /\ ~Ack("d")
    BY <1>1, <1>4, StallreqFacts
  <1>9. Off.state = "idle" /\ ~Off.stb
    BY DEF Off
  <1>10. CASE flush
    <2>1. ex' = Bubble /\ mem' = Bubble /\ stall = "none"
      BY <1>10, StallFacts DEF Clock, id_ex, ex_mem
    <2>2. /\ ibus'.state = "idle" /\ ~ibus'.stb
          /\ dbus'.state = "idle" /\ ~dbus'.stb
      BY <1>1, <1>4, <1>5, <1>6, <1>7, <1>9, <1>10, <2>1 DEF MastersServe
    <2> QED BY <1>4, <2>1, <2>2, MemFacts, <1>1 DEF MastersServe
  <1>11. CASE ~flush
    <2>1. \A m \in Masters : (Bus(m).stb <=> Bus(m).state = "busy")'
      <3>1. /\ ibus.stb <=> ibus.state = "busy"
            /\ dbus.stb <=> dbus.state = "busy"
        BY <1>1, <1>4 DEF MastersServe
      <3>2. ibus'.stb <=> ibus'.state = "busy"
        BY <1>5, <1>6, <1>11, <3>1
      <3>3. dbus'.stb <=> dbus'.state = "busy"
        BY <1>5, <1>7, <1>11, <3>1
      <3> QED BY <1>4, <3>2, <3>3
    <2>2. stall # "none" => pc' = pc
      BY <1>11 DEF Clock, pc_reg
    <2>3. ibus'.state = "busy" => ibus'.addr = pc' /\ ~ibus'.we
      <3>1. ibus'.state = "busy" => stallreq("i")
        BY <1>5, <1>6, <1>8, <1>11
      <3>2. stallreq("i") => pc' = pc
        BY <1>11, <2>2, StallFacts
      <3> QED BY <1>1, <1>5, <1>6, <1>11, <3>1, <3>2 DEF MastersServe
    <2>4. ibus'.state = "wait" => ibus'.rd_buf = pc'
      BY <1>1, <1>5, <1>6, <1>11, <2>2 DEF MastersServe
    <2>5. dbus'.state = "busy" => /\ mem'.k \in Access /\ dbus'.addr = Addr[mem'.k]
                                  /\ dbus'.we <=> mem'.k \in Stores
      <3>1. dbus'.state = "busy" => stallreq("d")
        BY <1>5, <1>7, <1>8, <1>11
      <3>2. stallreq("d") => mem'.k = mem.k
        BY <1>11, HeldFacts
      <3> QED BY <1>1, <1>5, <1>7, <1>11, <3>1, <3>2 DEF MastersServe
    <2>6. stall = "front" =>
             mem' = IF ex.k = "none" THEN Bubble ELSE InMem(ex.k)
      BY <1>11 DEF Clock, ex_mem
    <2>7. dbus'.state = "wait" => mem'.k = "none"
      <3>1. dbus'.state = "wait" => /\ dbus.state \in {"busy", "wait"}
                                    /\ ~stallreq("d") /\ stall # "none"
        BY <1>5, <1>7, <1>8, <1>11
      <3>2. ~stallreq("d") /\ stall # "none" => stall = "front"
        BY StallFacts
      <3>3. dbus.state \in {"busy", "wait"} => ex.k = "none"
        BY <1>1 DEF MastersServe
      <3> QED BY <3>1, <3>2, <3>3, <2>6, <1>1, MemFacts
    <2>8. ex'.k # "none" => /\ ibus'.state = "idle" /\ dbus'.state = "idle"
                            /\ mem'.k = "none"
      <3> SUFFICES ASSUME ex'.k # "none"
                   PROVE  ibus'.state = "idle" /\ dbus'.state = "idle" /\ mem'.k = "none"
        OBVIOUS
      <3>1. stall # "front"
        BY <1>1, MemFacts DEF Clock, id_ex
      <3>2. stall # "mem"
        <4>1. SUFFICES ASSUME stall = "mem" PROVE FALSE
          OBVIOUS
        <4>2. stallreq("d") /\ ex'.k = ex.k
          BY <1>11, <4>1, StallFacts, HeldFacts
        <4> QED BY <1>1, <1>8, <4>2, AddrFacts DEF MastersServe
      <3>3. stall = "none" /\ ~stallreq("i") /\ ~stallreq("d")
        BY <1>11, <3>1, <3>2, StallFacts
      <3>4. ibus.state # "idle" /\ ibus'.state = "idle"
        BY <1>5, <1>6, <1>8, <1>11, <3>3
      <3>5. dbus'.state = "idle"
        BY <1>5, <1>7, <1>8, <1>11, <3>3
      <3>6. ex.k = "none"
        BY <1>1, <3>4 DEF MastersServe
      <3>7. mem' = Bubble
        BY <1>11, <3>3, <3>6 DEF Clock, ex_mem
      <3> QED BY <3>4, <3>5, <3>7, <1>1, MemFacts
    <2> QED BY <2>1, <2>3, <2>4, <2>5, <2>7, <2>8 DEF MastersServe
  <1> QED BY <1>10, <1>11

\* A bus cycle goes on until it is acknowledged or flushed.
LEMMA CycleFacts ==
    ASSUME BusInv, Clock, NEW m \in Masters, Bus(m).stb
    PROVE  /\ Bus(m).state = "busy"
           /\ IF Ack(m) \/ flush THEN ~ Bus(m)'.stb ELSE Bus(m)' = Bus(m)
  <1>1. BusTypeOK /\ Bus(m).state = "busy"
    BY DEF BusInv, MastersServe
  <1>2. ~Off.stb /\ "i" \in Masters /\ "d" \in Masters
    BY DEF Off, Masters
  <1>3. \E we \in BOOLEAN, addr \in Words : Bus(m)' = wishbone_bus(m, we, addr)
    <2>1. CASE m = "i"
      <3>1. Bus(m)' = wishbone_bus(m, FALSE, pc) /\ pc \in Words
        BY <1>1, <2>1 DEF Clock, BusTypeOK, Words, Bus
      <3> QED BY <3>1
    <2>2. CASE m = "d"
      <3>1. Bus(m)' = wishbone_bus(m, mem.k \in Stores /\ ~flush,
                                   IF mem.k \in Access THEN Addr[mem.k] ELSE "0")
        BY <2>2 DEF Clock, Bus
      <3> QED BY <1>1, <3>1, DataArguments
    <2> QED BY <2>1, <2>2 DEF Masters
  <1>4. PICK we \in BOOLEAN, addr \in Words : Bus(m)' = wishbone_bus(m, we, addr)
    BY <1>3
  <1> DEFINE b == Bus(m)'
  <1>5. b = wishbone_bus(m, we, addr)
    BY <1>4
  <1> HIDE DEF b
  <1>6. /\ Ack(m) => ~ b.stb
        /\ ~Ack(m) => b = IF flush THEN Off ELSE Bus(m)
    BY <1>1, <1>5, MasterFacts
  <1> QED BY <1>1, <1>2, <1>6 DEF b

\* A cycle of the data master that goes on keeps its instruction in MEM.
LEMMA DataHeld ==
    ASSUME BusInv, Clock, dbus.stb, dbus'.stb
    PROVE  /\ dbus.state = "busy" /\ dbus' = dbus /\ ~Ack("d") /\ ~flush
           /\ mem' = Served /\ mem'.k = mem.k /\ mem.k \in Access
           /\ dbus.addr = Addr[mem.k] /\ (dbus.we <=> mem.k \in Stores)
           /\ mem \in [k : Kinds, written : BOOLEAN, sent : Nat]
  <1>1. /\ Bus("d") = dbus /\ Bus("d")' = dbus' /\ "d" \in Masters
    BY DEF Bus, Masters
  <1>2. dbus.state = "busy" /\ dbus' = dbus /\ ~Ack("d") /\ ~flush
    BY <1>1, CycleFacts
  <1>3. stallreq("d")
    BY <1>1, <1>2, StallreqFacts DEF BusInv
  <1>4. mem' = Served /\ mem'.k = mem.k
    BY <1>2, <1>3, HeldFacts
  <1>5. /\ mem.k \in Access
        /\ dbus.addr = Addr[mem.k] /\ (dbus.we <=> mem.k \in Stores)
    BY <1>2 DEF BusInv, MastersServe
  <1> QED BY <1>2, <1>4, <1>5, MemFacts, AddrFacts DEF BusInv

LEMMA SerialStep == ASSUME BusInv, Clock PROVE SerialUninterrupted'
  <1>1. BusTypeOK /\ SerialUninterrupted
    BY DEF BusInv
  <1>2. irq' => ie'
    BY DEF Clock
  <1>3. "none" \notin Serial
    BY AddrFacts
  <1>4. PICK k \in Fetched, needs \in Needs : id' = if_id(k, needs)
    BY DEF Clock
  <1>5. CASE flush
    <2>1. id' = Bubble /\ ex' = Bubble /\ mem' = Bubble
      BY <1>4, <1>5 DEF Clock, if_id, id_ex, ex_mem
    <2> QED BY <1>1, <1>2, <1>3, <2>1, MemFacts DEF SerialUninterrupted
  <1>6. CASE ~flush
    <2>1. ie' = ie
      BY <1>6 DEF Clock, cp0_status
    <2>2. id'.k = id.k \/ (Fetching /\ id'.k = k)
      BY <1>4, <1>6 DEF if_id, Fetching
    <2>3. ex'.k \in {"none", ex.k, id.k}
      BY <1>1, <1>6, MemFacts DEF Clock, id_ex
    <2>4. mem'.k \in {"none", mem.k, ex.k}
      BY <1>1, <1>6, MemFacts DEF Clock, ex_mem
    <2>5. ie /\ Fetching => k \notin Serial
      BY DEF Fetched
    <2> QED BY <1>1, <1>2, <1>3, <2>1, <2>2, <2>3, <2>4, <2>5 DEF SerialUninterrupted
  <1> QED BY <1>5, <1>6

LEMMA ConmaxStep == ASSUME BusInv, Clock PROVE ConmaxSound'
  <1>1. BusTypeOK /\ MastersServe /\ ConmaxSound
    BY DEF BusInv
  <1>2. cyc'["i"] = Asks("i")
    BY DEF Clock, Masters
  <1>3. Asks("i") # "uart"
    <2>1. ibus.stb => slv_sel(ibus.addr) = "ram"
      BY <1>1, FetchFacts DEF MastersServe, Bus, Masters, BusTypeOK
    <2> QED BY <2>1 DEF Asks, Bus
  <1>4. grant'["uart"] = wb_conmax_arb("uart")
    BY DEF Clock, Slaves
  <1>5. wb_conmax_arb("uart") = "d"
    <2>1. CASE cyc["d"] = "uart"
      BY <1>1, <2>1 DEF wb_conmax_arb, ConmaxSound
    <2>2. CASE cyc["d"] # "uart"
      <3>1. ~ \E m \in Masters : cyc[m] = "uart"
        BY <1>1, <2>2 DEF ConmaxSound, Masters
      <3> QED BY <1>1, <2>2, <3>1 DEF wb_conmax_arb, ConmaxSound
    <2> QED BY <2>1, <2>2
  <1> QED BY <1>2, <1>3, <1>4, <1>5 DEF ConmaxSound

LEMMA RamStep == ASSUME BusInv, Clock PROVE RamSound'
  <1>1. BusTypeOK /\ MastersServe /\ RamSound
    BY DEF BusInv
  <1>2. ram' = sram_top /\ grant'["ram"] = wb_conmax_arb("ram")
    BY DEF Clock, Slaves
  <1>3. CASE ~Accessed("ram")
    <2>1. ram' = [state |-> "idle", ack |-> FALSE, data |-> "0"]
      BY <1>2, <1>3 DEF sram_top
    <2> QED BY <2>1 DEF RamSound
  <1>4. CASE Accessed("ram")
    <2>0. PICK g \in Masters : g = grant["ram"]
      BY <1>1 DEF BusTypeOK, Slaves
    <2> DEFINE b == Bus(g)
    <2>1. /\ g \in Masters /\ b.stb /\ slv_sel(b.addr) = "ram" /\ cyc[g] = "ram"
      BY <2>0, <1>4 DEF Accessed
    <2>2. grant'["ram"] = g
      BY <1>2, <2>0, <2>1 DEF wb_conmax_arb
    <2>3. Bus(grant["ram"])' = Bus(g)'
      BY <2>1, <2>2 DEF Bus
    <2>4. /\ ram.state = "idle" =>
                /\ ram'.ack = FALSE
                /\ ram'.state = IF ~b.we THEN "read"
                                ELSE IF b.addr = "A" THEN "write0"
                                ELSE "read_before_write"
          /\ ram.state = "read" => /\ ram'.state = "idle" /\ ram'.ack = TRUE
                                   /\ ram'.data = b.addr
          /\ ram.state = "read_before_write" => ram'.state = "write0" /\ ram'.ack = ram.ack
          /\ ram.state = "write0" => ram'.state = "write1" /\ ram'.ack = ram.ack
          /\ ram.state = "write1" => ram'.state = "idle" /\ ram'.ack = TRUE
          /\ ram.state \in {"idle", "read", "read_before_write", "write0", "write1"}
      BY <1>1, <1>2, <1>4, <2>0 DEF sram_top, BusTypeOK
    <2>5. ram'.ack => ram'.state = "idle"
      BY <1>1, <2>4 DEF RamSound
    <2>6. ASSUME Bus(g)'.stb
          PROVE  /\ ram'.state = "read" => ~ Bus(g)'.we
                 /\ ram'.state \in {"read_before_write", "write0", "write1"} => Bus(g)'.we
                 /\ ram'.ack => IF Bus(g)'.we THEN mem'.written ELSE ram'.data = Bus(g)'.addr
      <3>1. Bus(g)' = b /\ ~Ack(g)
        BY <2>1, <2>6, CycleFacts
      <3>2. ~ram.ack
        BY <2>0, <2>1, <3>1 DEF Ack
      <3>3. /\ ram.state = "read" => ~ b.we
            /\ ram.state \in {"read_before_write", "write0", "write1"} => b.we
        BY <1>1, <2>0, <2>1 DEF RamSound
      <3>4. ASSUME ram.state = "write1" PROVE mem'.written
        <4>1. b.we
          BY <3>3, <3>4
        <4>2. g = "d"
          <5>1. ibus.stb => ~ibus.we
            BY <1>1 DEF MastersServe, Bus, Masters
          <5> QED BY <2>1, <4>1, <5>1 DEF Masters, Bus
        <4>3. dbus.stb /\ dbus'.stb
          BY <2>1, <2>6, <4>2 DEF Bus
        <4>4. /\ mem' = Served /\ mem.k \in Access
              /\ mem \in [k : Kinds, written : BOOLEAN, sent : Nat]
          BY <4>3, DataHeld
        <4>5. mem.k # "none"
          BY <4>4, AddrFacts
        <4>6. RamWrites /\ grant["ram"] = "d"
          BY <1>4, <2>0, <3>4, <4>1, <4>2 DEF RamWrites
        <4> QED BY <4>4, <4>5, <4>6 DEF Served
      <3> QED BY <2>4, <3>1, <3>2, <3>3, <3>4
    <2> QED BY <2>2, <2>3, <2>5, <2>6 DEF RamSound
  <1> QED BY <1>3, <1>4

LEMMA UartStep == ASSUME BusInv, Clock PROVE UartSound'
  <1>1. BusTypeOK /\ MastersServe /\ ConmaxSound /\ UartSound /\ SerialUninterrupted
    BY DEF BusInv
  <1>2. PICK done \in BOOLEAN : uart' = uart_controller(done)
    BY DEF Clock
  <1>3. /\ grant["uart"] = "d" /\ Bus("d") = dbus
    BY <1>1 DEF ConmaxSound, Bus
  <1>4. /\ uart'.ack <=> Accessed("uart") /\ ~(dbus.we /\ dbus.addr = "D" /\ TxD_busy)
        /\ uart'.start <=> Accessed("uart") /\ dbus.we /\ dbus.addr = "D" /\ ~TxD_busy
        /\ uart'.data = IF Accessed("uart") /\ ~dbus.we THEN dbus.addr ELSE "0"
        /\ uart'.busy <=> TransmitterStarts \/ (uart.busy /\ ~done)
    BY <1>2, <1>3 DEF uart_controller
  <1>5. Accessed("uart") => /\ dbus.stb /\ dbus.state = "busy" /\ mem.k \in Access
                            /\ dbus.addr = Addr[mem.k] /\ (dbus.we <=> mem.k \in Stores)
                            /\ mem.k \in Serial
    <2>1. Accessed("uart") => dbus.stb /\ slv_sel(dbus.addr) = "uart"
      BY <1>3 DEF Accessed
    <2>2. dbus.stb => /\ dbus.state = "busy" /\ mem.k \in Access
                      /\ dbus.addr = Addr[mem.k] /\ (dbus.we <=> mem.k \in Stores)
      BY <1>1, <1>3 DEF MastersServe, Masters
    <2> QED BY <2>1, <2>2, AddrFacts
  <1>6. uart'.start => /\ ~ uart'.busy /\ uart'.ack
                       /\ dbus'.state = "busy" /\ mem'.k = "sb_D"
    <2> SUFFICES ASSUME uart'.start
                 PROVE  /\ ~ uart'.busy /\ uart'.ack
                        /\ dbus'.state = "busy" /\ mem'.k = "sb_D"
      OBVIOUS
    <2>1. /\ Accessed("uart") /\ dbus.we /\ dbus.addr = "D" /\ ~uart.busy /\ ~uart.start
      BY <1>4 DEF TxD_busy
    <2>2. ~uart'.busy /\ uart'.ack
      BY <1>4, <2>1 DEF TransmitterStarts, TxD_busy
    <2>3. mem.k = "sb_D"
      BY <1>5, <2>1, AddrFacts DEF Stores
    <2>4. ~flush
      BY <1>1, <2>3, AddrFacts DEF flush, Interrupt, SerialUninterrupted
    <2>5. ~Ack("d")
      <3>1. slv_sel(dbus.addr) = "uart"
        BY <2>1 DEF slv_sel
      <3>2. ~uart.ack
        BY <1>1, <1>5, <2>1, <3>1 DEF UartSound
      <3> QED BY <1>3, <3>1, <3>2 DEF Ack
    <2>6. dbus' = dbus
      <3>1. Bus("d")' = dbus' /\ "d" \in Masters
        BY DEF Bus, Masters
      <3> QED BY <1>3, <1>5, <2>1, <2>4, <2>5, <3>1, CycleFacts
    <2>7. mem'.k = mem.k
      BY <1>5, <2>1, <2>6, DataHeld
    <2> QED BY <1>5, <2>1, <2>2, <2>3, <2>6, <2>7
  <1>7. ASSUME uart'.ack, dbus'.stb
        PROVE  IF dbus'.we THEN uart'.start ELSE uart'.data = dbus'.addr
    <2>1. Accessed("uart") /\ ~(dbus.we /\ dbus.addr = "D" /\ TxD_busy)
      BY <1>4, <1>7
    <2>2. dbus' = dbus
      BY <1>5, <1>7, <2>1, DataHeld
    <2>3. dbus.we => dbus.addr = "D"
      BY <1>5, <2>1, AddrFacts DEF Stores
    <2> QED BY <1>4, <2>1, <2>2, <2>3
  <1>8. mem'.k = "sb_D" => mem'.sent = 0
    <2> SUFFICES ASSUME mem'.k = "sb_D" PROVE mem'.sent = 0
      OBVIOUS
    <2>1. mem' # Bubble /\ mem' = ex_mem
      BY <1>1, MemFacts DEF Clock
    <2>2. CASE stall = "mem" /\ ~flush
      <3>1. mem' = Served /\ mem.k = "sb_D"
        BY <1>1, <2>1, <2>2, MemFacts DEF ex_mem
      <3>2. ~TransmitterStarts
        <4>1. stallreq("d") /\ "d" \in Masters
          BY <2>2, StallFacts DEF Masters
        <4>2. ~(dbus.state = "busy" /\ Ack("d"))
          BY <1>1, <1>3, <4>1, StallreqFacts
        <4>3. uart.start => dbus.state = "busy" /\ Ack("d")
          <5>1. dbus.state = "busy" => slv_sel(dbus.addr) = "uart"
            BY <1>1, <3>1, AddrFacts DEF MastersServe
          <5> QED BY <1>1, <1>3, <5>1 DEF UartSound, Ack
        <4> QED BY <4>2, <4>3 DEF TransmitterStarts
      <3>3. mem \in [k : Kinds, written : BOOLEAN, sent : Nat] /\ mem.sent = 0
        BY <1>1, <3>1, MemFacts DEF UartSound
      <3> QED BY <3>1, <3>2, <3>3 DEF Served
    <2>3. CASE ~(stall = "mem" /\ ~flush)
      BY <2>1, <2>3 DEF ex_mem, InMem
    <2> QED BY <2>2, <2>3
  <1> QED BY <1>6, <1>7, <1>8 DEF UartSound

\* What leaves MEM was acknowledged in that clock.
LEMMA LeavesAcknowledged ==
    ASSUME BusInv, Clock, ~flush, stall # "mem", mem.k \in Access
    PROVE  dbus.state = "busy" /\ Ack("d") /\ Bus("d") = dbus
  <1>1. dbus.state \in {"idle", "busy", "wait"} /\ BusTypeOK /\ Bus("d") = dbus
    BY DEF BusInv, BusTypeOK, Bus
  <1>2. ~stallreq("d") /\ "d" \in Masters
    BY StallFacts DEF Masters
  <1>3. dbus.state # "wait"
    BY AddrFacts DEF BusInv, MastersServe
  <1> QED BY <1>1, <1>2, <1>3, StallreqFacts DEF Ce

LEMMA AccessesStep == ASSUME BusInv, Clock PROVE AccessesMatch'
  <1>1. /\ BusTypeOK /\ MastersServe /\ ConmaxSound /\ RamSound /\ UartSound
        /\ AccessesMatch
    BY DEF BusInv
  <1>2. /\ Access = {"lw_A", "lw_B", "sw_A", "sb_B", "lb_D", "lb_S", "sb_D"}
        /\ Stores = {"sw_A", "sb_B", "sb_D"}
        /\ "none" \notin Access
    BY AddrFacts DEF Stores
  <1>3. /\ wb'.k \in Access \ Stores => wb'.data = Addr[wb'.k]
        /\ wb'.k \in {"sw_A", "sb_B"} => wb'.written
        /\ wb'.k = "sb_D" => wb'.sent = 1
    <2>1. CASE flush \/ stall = "mem" \/ mem.k \notin Access
      <3>1. wb' = Bubble \/ wb'.k \notin Access
        BY <2>1 DEF Clock, mem_wb
      <3> QED BY <1>1, <1>2, <3>1, MemFacts
    <2>2. CASE ~flush /\ stall # "mem" /\ mem.k \in Access
      <3>1. /\ dbus.state = "busy" /\ Ack("d") /\ Bus("d") = dbus
            /\ dbus.addr = Addr[mem.k] /\ (dbus.we <=> mem.k \in Stores)
            /\ dbus.stb
        BY <1>1, <2>2, LeavesAcknowledged DEF MastersServe, Masters
      <3>2. wb' = [k |-> mem.k, data |-> cpu_data_o("d"), written |-> Served.written,
                   sent |-> Served.sent]
        BY <1>2, <2>2 DEF Clock, mem_wb
      <3>3. /\ mem \in [k : Kinds, written : BOOLEAN, sent : Nat]
            /\ Served.written <=> mem.written \/ (RamWrites /\ grant["ram"] = "d")
            /\ Served.sent = IF TransmitterStarts THEN mem.sent + 1 ELSE mem.sent
        <4>1. mem \in [k : Kinds, written : BOOLEAN, sent : Nat] /\ mem.k # "none"
          BY <1>1, <1>2, <2>2, MemFacts
        <4> QED BY <4>1 DEF Served
      <3>4. CASE slv_sel(dbus.addr) = "ram"
        <4>1. grant["ram"] = "d" /\ ram.ack
          BY <3>1, <3>4 DEF Ack
        <4>2. IF dbus.we THEN mem.written ELSE ram.data = dbus.addr
          BY <1>1, <3>1, <3>4, <4>1 DEF RamSound
        <4>3. mem.k \notin Serial
          BY <2>2, <3>1, <3>4, AddrFacts
        <4>4. ~dbus.we => cpu_data_o("d") = ram.data
          BY <3>1, <3>4 DEF cpu_data_o, DataOf
        <4> QED BY <1>2, <3>1, <3>2, <3>3, <4>2, <4>3, <4>4, AddrFacts
      <3>5. CASE slv_sel(dbus.addr) = "uart"
        <4>1. uart.ack
          BY <3>1, <3>5 DEF Ack
        <4>2. IF dbus.we THEN uart.start ELSE uart.data = dbus.addr
          BY <1>1, <3>1, <3>5, <4>1 DEF UartSound
        <4>3. mem.k \in Serial
          BY <2>2, <3>1, <3>5, AddrFacts
        <4>4. ~dbus.we => cpu_data_o("d") = uart.data
          BY <3>1, <3>5 DEF cpu_data_o, DataOf
        <4>5. mem.k = "sb_D" => Served.sent = 1
          <5>1. mem.k = "sb_D" => TransmitterStarts /\ mem.sent = 0
            BY <1>1, <1>2, <3>1, <4>2 DEF UartSound, TransmitterStarts
          <5> QED BY <3>3, <5>1
        <4> QED BY <1>2, <3>1, <3>2, <4>2, <4>3, <4>4, <4>5, AddrFacts
      <3> QED BY <3>4, <3>5, AddrFacts DEF Slaves
    <2> QED BY <2>1, <2>2
  <1>4. TransmitterStarts' => mem'.k = "sb_D"
    BY UartStep DEF UartSound, TransmitterStarts
  <1>5. id'.k # "none" => id'.word = id'.pc
    <2>1. PICK k \in Fetched, needs \in Needs : id' = if_id(k, needs)
      BY DEF Clock
    <2>2. CASE flush \/ stall # "none"
      BY <1>1, <2>1, <2>2, MemFacts DEF if_id, AccessesMatch
    <2>3. CASE ~flush /\ stall = "none"
      <3>1. id' = [k |-> k, needs |-> needs, pc |-> pc, word |-> cpu_data_o("i")]
        BY <2>1, <2>3 DEF if_id
      <3>2. /\ ~stallreq("i") /\ "i" \in Masters /\ Bus("i") = ibus /\ Ce("i")
            /\ ibus.state \in {"idle", "busy", "wait"}
        BY <1>1, <2>3, StallFacts DEF Masters, Bus, Ce, BusTypeOK
      <3>3. (ibus.state = "busy" /\ Ack("i")) \/ ibus.state = "wait"
        BY <1>1, <2>3, <3>2, StallreqFacts
      <3>4. cpu_data_o("i") = pc
        <4>1. CASE ibus.state = "busy" /\ Ack("i")
          <5>1. DataOf("i") = pc /\ ~ibus.we
            BY <1>1, <4>1, FetchedWord DEF MastersServe
          <5> QED BY <3>2, <4>1, <5>1 DEF cpu_data_o
        <4>2. CASE ibus.state = "wait"
          BY <1>1, <3>2, <4>2 DEF cpu_data_o, MastersServe
        <4> QED BY <3>3, <4>1, <4>2
      <3> QED BY <3>1, <3>4
    <2> QED BY <2>2, <2>3
  <1> QED BY <1>3, <1>4, <1>5 DEF AccessesMatch

LEMMA BusTypeStep == ASSUME BusInv, Clock PROVE BusTypeOK'
  <1>1. BusTypeOK
    BY DEF BusInv
  <1>2. /\ Bus("i") = ibus /\ Bus("d") = dbus /\ "i" \in Masters /\ "d" \in Masters
        /\ "ram" \in Slaves /\ "uart" \in Slaves /\ pc \in Words
    BY <1>1 DEF Bus, Masters, Slaves, BusTypeOK, Words
  <1>3. ibus' \in [state : {"idle", "busy", "wait"}, stb : BOOLEAN,
                   we : BOOLEAN, addr : Words, rd_buf : Words]
    <2>1. \E we \in BOOLEAN : ibus' = wishbone_bus("i", we, pc)
      BY DEF Clock
    <2>2. PICK we \in BOOLEAN : ibus' = wishbone_bus("i", we, pc)
      BY <2>1
    <2> DEFINE b == ibus'
    <2>3. b = wishbone_bus("i", we, pc)
      BY <2>2
    <2> HIDE DEF b
    <2> QED BY <1>1, <1>2, <2>3, MasterFacts DEF b
  <1>4. dbus' \in [state : {"idle", "busy", "wait"}, stb : BOOLEAN,
                   we : BOOLEAN, addr : Words, rd_buf : Words]
    <2>1. \E we \in BOOLEAN, addr \in Words : dbus' = wishbone_bus("d", we, addr)
      BY <1>1, DataArguments DEF Clock
    <2>2. PICK we \in BOOLEAN, addr \in Words : dbus' = wishbone_bus("d", we, addr)
      BY <2>1
    <2> DEFINE b == dbus'
    <2>3. b = wishbone_bus("d", we, addr)
      BY <2>2
    <2> HIDE DEF b
    <2> QED BY <1>1, <1>2, <2>3, MasterFacts DEF b
  <1>5. pc' \in PCs
    BY <1>1 DEF Clock, pc_reg, Targets, BusTypeOK
  <1>6. \A m \in Masters : cpu_data_o(m) \in Words
    <2> SUFFICES ASSUME NEW m \in Masters PROVE cpu_data_o(m) \in Words
      OBVIOUS
    <2>1. DataOf(m) \in Words /\ Bus(m).rd_buf \in Words /\ "0" \in Words
      BY <1>1 DEF DataOf, BusTypeOK, Bus, Words
    <2> QED BY <2>1 DEF cpu_data_o
  <1>7. id' \in {Bubble} \cup [k : Kinds, needs : BOOLEAN, pc : PCs, word : Words]
    <2>1. PICK k \in Fetched, needs \in Needs : id' = if_id(k, needs)
      BY DEF Clock
    <2>2. k \in Kinds /\ needs \in BOOLEAN
      BY AddrFacts DEF Fetched, Needs
    <2> QED BY <1>1, <1>2, <1>6, <2>1, <2>2 DEF if_id, BusTypeOK
  <1>8. ex' \in [k : Kinds \cup {"none"}]
    <2>1. Bubble \in [k : Kinds \cup {"none"}] /\ id.k \in Kinds \cup {"none"}
      BY <1>1, MemFacts DEF Bubble
    <2> QED BY <1>1, <2>1 DEF Clock, id_ex, BusTypeOK
  <1>9. mem' \in {Bubble} \cup [k : Kinds, written : BOOLEAN, sent : Nat]
    <2>1. ex.k # "none" => InMem(ex.k) \in [k : Kinds, written : BOOLEAN, sent : Nat]
      BY <1>1, MemFacts DEF InMem
    <2> QED BY <1>1, <2>1, MemFacts DEF Clock, ex_mem
  <1>10. wb' \in {Bubble} \cup [k : Kinds, data : Words, written : BOOLEAN, sent : Nat]
    <2>1. mem.k # "none" => Served \in [k : Kinds, written : BOOLEAN, sent : Nat]
      BY <1>1, MemFacts
    <2>2. mem.k # "none" => mem.k \in Kinds
      BY <1>1, MemFacts
    <2> QED BY <1>2, <1>6, <2>1, <2>2 DEF Clock, mem_wb
  <1>11. ie' \in BOOLEAN /\ irq' \in BOOLEAN
    BY <1>1 DEF Clock, cp0_status, BusTypeOK
  <1>12. /\ cyc' \in [Masters -> Slaves \cup {"none"}]
         /\ cyc_r' \in [Masters -> Slaves \cup {"none"}]
    <2>1. \A m \in Masters : Asks(m) \in Slaves \cup {"none"}
      BY AddrFacts DEF Asks
    <2> QED BY <1>1, <2>1 DEF Clock, BusTypeOK
  <1>13. grant' \in [Slaves -> Masters]
    <2>1. \A s \in Slaves : wb_conmax_arb(s) \in Masters
      BY <1>1 DEF wb_conmax_arb, BusTypeOK
    <2> QED BY <2>1 DEF Clock
  <1>14. ram' \in [state : {"idle", "read", "read_before_write", "write0", "write1"},
                   ack : BOOLEAN, data : Words]
    <2>1. /\ Bus(grant["ram"]).addr \in Words /\ "0" \in Words
          /\ ram \in [state : {"idle", "read", "read_before_write", "write0", "write1"},
                      ack : BOOLEAN, data : Words]
      BY <1>1 DEF Bus, BusTypeOK, Words
    <2>2. CASE ~Accessed("ram")
      BY <2>1, <2>2 DEF Clock, sram_top
    <2>3. CASE Accessed("ram")
      BY <2>1, <2>3 DEF Clock, sram_top
    <2> QED BY <2>2, <2>3
  <1>15. uart' \in [ack : BOOLEAN, start : BOOLEAN, data : Words, busy : BOOLEAN]
    <2>1. PICK done \in BOOLEAN : uart' = uart_controller(done)
      BY DEF Clock
    <2>2. Bus(grant["uart"]).addr \in Words /\ "0" \in Words
      BY <1>1 DEF Bus, BusTypeOK, Words
    <2>3. /\ (Accessed("uart") /\ ~(Bus(grant["uart"]).we /\ Bus(grant["uart"]).addr = "D"
                                    /\ TxD_busy)) \in BOOLEAN
          /\ (Accessed("uart") /\ Bus(grant["uart"]).we /\ Bus(grant["uart"]).addr = "D"
                 /\ ~TxD_busy) \in BOOLEAN
          /\ (TransmitterStarts \/ (uart.busy /\ ~done)) \in BOOLEAN
          /\ (IF Accessed("uart") /\ ~Bus(grant["uart"]).we
              THEN Bus(grant["uart"]).addr ELSE "0") \in Words
      BY <2>2
    <2> QED BY <2>1, <2>3 DEF uart_controller
  <1> QED
    BY <1>3, <1>4, <1>5, <1>7, <1>8, <1>9, <1>10, <1>11, <1>12, <1>13, <1>14, <1>15
    DEF BusTypeOK

LEMMA BusInit == Init => BusInv
  <1> SUFFICES ASSUME Init PROVE BusInv
    OBVIOUS
  <1>1. /\ Bubble.k = "none" /\ ~Off.stb /\ Off.state = "idle"
        /\ "none" \notin Access /\ "none" \notin Serial
        /\ Off \in [state : {"idle", "busy", "wait"}, stb : BOOLEAN,
                    we : BOOLEAN, addr : Words, rd_buf : Words]
    BY AddrFacts DEF Bubble, Off, Words
  <1>2. /\ \A m \in Masters : Bus(m) = Off
        /\ id = Bubble /\ ex = Bubble /\ mem = Bubble /\ wb = Bubble
        /\ ie = FALSE /\ irq = FALSE /\ uart.start = FALSE /\ uart.ack = FALSE
        /\ ram.ack = FALSE /\ ram.state = "idle"
        /\ grant["uart"] = "d" /\ grant["ram"] = "d" /\ cyc["i"] = "none"
        /\ ibus = Off /\ dbus = Off
    BY DEF Init, Bus, Masters, Slaves
  <1>3. BusTypeOK
    <2>1. /\ cyc \in [Masters -> Slaves \cup {"none"}]
          /\ cyc_r \in [Masters -> Slaves \cup {"none"}]
          /\ grant \in [Slaves -> Masters]
      BY DEF Init, Masters, Slaves
    <2>2. ram \in [state : {"idle", "read", "read_before_write", "write0", "write1"},
                   ack : BOOLEAN, data : Words]
      BY DEF Init, Words
    <2>3. uart \in [ack : BOOLEAN, start : BOOLEAN, data : Words, busy : BOOLEAN]
      BY DEF Init, Words
    <2>4. pc \in PCs
      BY DEF Init
    <2>5. ex \in [k : Kinds \cup {"none"}]
      BY <1>2 DEF Bubble
    <2> QED BY <1>1, <1>2, <2>1, <2>2, <2>3, <2>4, <2>5 DEF BusTypeOK
  <1>4. MastersServe
    BY <1>1, <1>2 DEF MastersServe
  <1>5. SerialUninterrupted /\ ConmaxSound
    BY <1>1, <1>2 DEF SerialUninterrupted, ConmaxSound
  <1>6. RamSound /\ UartSound
    BY <1>1, <1>2 DEF RamSound, UartSound, Bus
  <1>7. AccessesMatch
    BY <1>1, <1>2, AddrFacts DEF AccessesMatch, TransmitterStarts
  <1> QED BY <1>3, <1>4, <1>5, <1>6, <1>7 DEF BusInv

LEMMA BusStep == BusInv /\ [Next]_vars => BusInv'
  <1> SUFFICES ASSUME BusInv, [Next]_vars PROVE BusInv'
    OBVIOUS
  <1>1. CASE Clock
    BY <1>1, BusTypeStep, MastersStep, SerialStep, ConmaxStep, RamStep, UartStep,
       AccessesStep DEF BusInv
  <1>2. CASE UNCHANGED vars
    BY <1>2 DEF vars, BusInv, BusTypeOK, MastersServe, SerialUninterrupted,
       ConmaxSound, RamSound, UartSound, AccessesMatch, TransmitterStarts, Bus
  <1> QED BY <1>1, <1>2 DEF Next

\* Whatever is fetched, branched to, interrupted or flushed, an instruction that
\* leaves MEM had its own access done, and done once.
THEOREM AccessesAlwaysMatch == Spec => []AccessesMatch
  <1>1. BusInv => AccessesMatch
    BY DEF BusInv
  <1> QED BY <1>1, BusInit, BusStep, PTL DEF Spec
=============================================================================
