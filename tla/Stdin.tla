------------------------------- MODULE Stdin -------------------------------
(***************************************************************************)
(* The way of a byte from the serial line to the processes that read       *)
(* stdin: the FIFO of the UART, the console ring of kern/driver/console.c  *)
(* and the buffer of kern/fs/devs/dev_stdin.c with its wait queue.         *)
(*                                                                         *)
(* A reader between its calls of schedule() and the interrupt handler run  *)
(* with interrupts off.  The reader's code is one action; the handler is   *)
(* one for every byte it fetches, because the line goes on during it, and  *)
(* one for its end.  A byte is the position at which it was received       *)
(* together with its value, so that the properties can tell equal bytes    *)
(* apart.                                                                  *)
(***************************************************************************)
EXTENDS Integers, Sequences, FiniteSets, FiniteSetsExt, SequencesExt

CONSTANTS
    Readers,        \* the processes that read stdin
    FifoDepth,      \* depth of the UART's scfifo
    ConsBufSize,    \* CONSBUFSIZE
    StdinBufSize,   \* STDIN_BUFSIZE
    Bytes,          \* the values that are received
    MaxReceived,    \* bound on the bytes received
    MaxLen          \* bound on the len of a read

VARIABLES
    fifo,          \* received, not yet fetched
    in_handler,    \* serial_int_handler runs
    cons,          \* the console ring: buf, rpos and wpos
    stdin_buffer, p_rpos, p_wpos,
    wait_queue,    \* the readers in the wait queue of stdin
    wakeup_flags,  \* wait->wakeup_flags of a reader's wait_t
    asleep,        \* the readers that are PROC_SLEEPING with WT_KBD
    left,          \* len - ret of the read a reader is in, 0 outside one
    exiting,       \* the readers with PF_EXITING set
    input,         \* every byte the line ever carried
    taken,         \* every byte the handler ever read from the data register
    output,        \* every byte a reader ever got, in that order
    overrun        \* the buffers that were ever full when a byte came

vars == <<fifo, in_handler, cons, stdin_buffer, p_rpos, p_wpos, wait_queue,
          wakeup_flags, asleep, left, exiting, input, taken, output, overrun>>

NoByte == [at |-> 0, c |-> 0]

Init ==
    /\ fifo = <<>> /\ in_handler = FALSE
    /\ cons = [buf |-> [i \in 0 .. ConsBufSize - 1 |-> NoByte],
               rpos |-> 0, wpos |-> 0]
    /\ stdin_buffer = [i \in 0 .. StdinBufSize - 1 |-> NoByte]
    /\ p_rpos = 0 /\ p_wpos = 0
    /\ wait_queue = <<>>
    /\ wakeup_flags = [r \in Readers |-> "WT_INTERRUPTED"]
    /\ asleep = {}
    /\ left = [r \in Readers |-> 0]
    /\ exiting = {}
    /\ input = <<>> /\ taken = <<>> /\ output = <<>> /\ overrun = {}

-----------------------------------------------------------------------------
(* From the line to stdin_buffer                                           *)

\* A byte arrives; a full FIFO drops it.
Receive ==
    /\ Len(input) < MaxReceived
    /\ \E c \in Bytes :
          LET byte == [at |-> Len(input) + 1, c |-> c] IN
          /\ input' = Append(input, byte)
          /\ \/ /\ Len(fifo) < FifoDepth
                /\ fifo' = Append(fifo, byte)
                /\ UNCHANGED overrun
             \/ /\ Len(fifo) = FifoDepth
                /\ overrun' = overrun \union {"fifo"}
                /\ UNCHANGED fifo
    /\ UNCHANGED <<in_handler, cons, stdin_buffer, p_rpos, p_wpos, wait_queue,
                   wakeup_flags, asleep, left, exiting, taken, output>>

\* The FIFO after a read of the data register: fifo_rd is up for two clocks,
\* so the byte behind the one that is read goes as well.
AfterRead(f) == SubSeq(f, 3, Len(f))

\* serial_proc_data: DEL becomes backspace.
Backspaced(byte) == [byte EXCEPT !.c = IF byte.c = 127 THEN 8 ELSE byte.c]

\* cons_intr writes a byte without a look at rpos.
Put(ring, byte) ==
    [ring EXCEPT !.buf = [ring.buf EXCEPT ![ring.wpos] = byte],
                 !.wpos = (ring.wpos + 1) % ConsBufSize]

\* cons_getc on a ring that was just fed: the byte it returns, and the ring it
\* leaves.
GetcByte(ring) == IF ring.rpos # ring.wpos THEN ring.buf[ring.rpos] ELSE NoByte
GetcRing(ring) ==
    IF ring.rpos # ring.wpos
    THEN [ring EXCEPT !.rpos = (ring.rpos + 1) % ConsBufSize]
    ELSE ring

\* How many bytes of the ring have not been returned by cons_getc.
Pending(ring) == (ring.wpos - ring.rpos) % ConsBufSize

StdinFull == p_wpos - p_rpos >= StdinBufSize

\* wakeup_queue(wait_queue, WT_KBD, 1): every waiter leaves the queue.
WakeupFirst ==
    /\ wakeup_flags' = [r \in Readers |->
                          IF wait_queue # <<>> /\ r = Head(wait_queue)
                          THEN "WT_KBD" ELSE wakeup_flags[r]]
    /\ asleep' = IF wait_queue = <<>> THEN asleep
                                      ELSE asleep \ {Head(wait_queue)}
    /\ wait_queue' = IF wait_queue = <<>> THEN <<>> ELSE Tail(wait_queue)
WakeupFlagsOnly ==
    /\ wakeup_flags' = [r \in Readers |-> IF r \in ToSet(wait_queue)
                                          THEN "WT_KBD" ELSE wakeup_flags[r]]
    /\ wait_queue' = <<>>
    /\ UNCHANGED asleep
WakeupQueue ==
    /\ wakeup_flags' = [r \in Readers |-> IF r \in ToSet(wait_queue)
                                          THEN "WT_KBD" ELSE wakeup_flags[r]]
    /\ asleep' = asleep \ ToSet(wait_queue)
    /\ wait_queue' = <<>>

\* dev_stdin_write(c): the slot is written before the buffer is found full.
StdinWrite(byte) ==
    \/ /\ byte.c # 0
       /\ stdin_buffer' = [stdin_buffer EXCEPT ![p_wpos % StdinBufSize] = byte]
       /\ p_wpos' = IF StdinFull THEN p_wpos ELSE p_wpos + 1
       /\ WakeupQueue
    \/ /\ byte.c = 0
       /\ UNCHANGED <<stdin_buffer, p_wpos, wakeup_flags, asleep, wait_queue>>

\* One turn of cons_intr, which leaves out the zeros.  The UART interrupts while
\* its FIFO is not empty; the interrupt is taken together with the first turn.
Fetch ==
    /\ fifo # <<>>
    /\ in_handler' = TRUE
    /\ fifo' = AfterRead(fifo)
    /\ taken' = Append(taken, Head(fifo))
    /\ LET byte == Backspaced(Head(fifo)) IN
       \/ /\ byte.c # 0
          /\ cons' = Put(cons, byte)
          /\ overrun' = IF Pending(cons) + 1 = ConsBufSize
                        THEN overrun \union {"cons"} ELSE overrun
       \/ byte.c = 0 /\ UNCHANGED <<cons, overrun>>
    /\ UNCHANGED <<stdin_buffer, p_rpos, p_wpos, wait_queue, wakeup_flags,
                   asleep, left, exiting, input, output>>

\* serial_int_handler once cons_intr found the FIFO empty: one byte of the ring
\* is passed on, however many were fetched.
HandlerEnd ==
    /\ in_handler /\ fifo = <<>>
    /\ in_handler' = FALSE
    /\ cons' = GetcRing(cons)
    /\ StdinWrite(GetcByte(cons))
    /\ overrun' = IF StdinFull /\ GetcByte(cons).c # 0
                  THEN overrun \union {"stdin"} ELSE overrun
    /\ UNCHANGED <<fifo, p_rpos, left, exiting, input, taken, output>>

-----------------------------------------------------------------------------
(* dev_stdin_read                                                          *)

Unread == [i \in 1 .. p_wpos - p_rpos |->
              stdin_buffer[(p_rpos + i - 1) % StdinBufSize]]

\* wait_current_del: a wait_t that is still in the queue leaves it.
WaitCurrentDel(r) ==
    IF r \in ToSet(wait_queue)
    THEN RemoveAt(wait_queue, CHOOSE i \in DOMAIN wait_queue : wait_queue[i] = r)
    ELSE wait_queue

\* The loop of dev_stdin_read from try_again on, with len - ret = n: it copies
\* what there is and returns, or goes on waiting for the rest.  A killed
\* reader ends with the return of its trap; r then names another process.
ReadLoop(r, n) ==
    LET got == Min({n, p_wpos - p_rpos}) IN
    /\ output' = output \o SubSeq(Unread, 1, got)
    /\ p_rpos' = p_rpos + got
    /\ left' = [left EXCEPT ![r] = n - got]
    /\ \/ /\ got = n
          /\ exiting' = exiting \ {r}
          /\ wait_queue' = WaitCurrentDel(r)
          /\ UNCHANGED <<wakeup_flags, asleep>>
       \/ /\ got < n
          /\ wakeup_flags' = [wakeup_flags EXCEPT ![r] = "WT_INTERRUPTED"]
          /\ asleep' = asleep \union {r}
          /\ wait_queue' = Append(WaitCurrentDel(r), r)
          /\ UNCHANGED exiting

Read(r) ==
    /\ ~ in_handler
    /\ left[r] = 0
    /\ \E len \in 1 .. MaxLen : ReadLoop(r, len)
    /\ UNCHANGED <<fifo, in_handler, cons, stdin_buffer, p_wpos, input, taken,
                   overrun>>

\* After schedule(): wait_current_del, then the loop again if a byte came, and
\* the return of what was read so far if a kill did.
ResumeBreaks(r) ==
    /\ ~ in_handler
    /\ left[r] > 0 /\ r \notin asleep
    /\ left' = [left EXCEPT ![r] = 0]
    /\ exiting' = exiting \ {r}
    /\ wait_queue' = WaitCurrentDel(r)
    /\ p_rpos' = IF wakeup_flags[r] = "WT_KBD" THEN p_rpos + 1 ELSE p_rpos
    /\ UNCHANGED <<output, wakeup_flags, asleep>>
    /\ UNCHANGED <<fifo, in_handler, cons, stdin_buffer, p_wpos, input, taken,
                   overrun>>
Resume(r) ==
    /\ ~ in_handler
    /\ left[r] > 0 /\ r \notin asleep
    /\ \/ /\ wakeup_flags[r] = "WT_KBD"
          /\ ReadLoop(r, left[r])
       \/ /\ wakeup_flags[r] # "WT_KBD"
          /\ left' = [left EXCEPT ![r] = 0]
          /\ exiting' = exiting \ {r}
          /\ wait_queue' = WaitCurrentDel(r)
          /\ UNCHANGED <<output, p_rpos, wakeup_flags, asleep>>
    /\ UNCHANGED <<fifo, in_handler, cons, stdin_buffer, p_wpos, input, taken,
                   overrun>>

\* do_kill of a process inside a read: WT_KBD has the WT_INTERRUPTED bit, so
\* a sleeper is woken.  Its wait_t stays in the queue until it runs.
Kill(r) ==
    /\ ~ in_handler
    /\ left[r] > 0
    /\ r \notin exiting
    /\ exiting' = exiting \union {r}
    /\ asleep' = asleep \ {r}
    /\ UNCHANGED <<fifo, in_handler, cons, stdin_buffer, p_rpos, p_wpos,
                   wait_queue, wakeup_flags, left, input, taken, output, overrun>>

Handler == Fetch \/ HandlerEnd

Next ==
    \/ Receive \/ Handler
    \/ \E r \in Readers : Read(r) \/ Resume(r) \/ Kill(r)

\* The handler, once it runs, runs on; a process that was woken is run
\* (RunnableRuns of module Proc).
Fairness ==
    /\ WF_vars(in_handler /\ Handler)
    /\ \A r \in Readers : WF_vars(Resume(r))

-----------------------------------------------------------------------------
(* Properties                                                              *)

\* What becomes of the bytes s that are read from the data register.
Fetched(s) ==
    LET got[i \in 0 .. Len(s)] ==
            IF i = 0 THEN <<>>
            ELSE IF Backspaced(s[i]).c = 0 THEN got[i - 1]
            ELSE Append(got[i - 1], Backspaced(s[i]))
    IN  got[Len(s)]

\* Every byte the handler read that is on its way to the readers or was read,
\* first to be read first.
RingBytes == [i \in 1 .. Pending(cons) |->
                 cons.buf[(cons.rpos + i - 1) % ConsBufSize]]
Pipeline == output \o Unread \o RingBytes

\* While neither buffer of the kernel overran, the readers together get exactly
\* the bytes the handler read from the UART: in order, each once, without the
\* zeros, whatever the interleaving of interrupts, reads and kills
\* (console.c:145-156, dev_stdin.c:21-68).
NothingLost == overrun \subseteq {"fifo"} => Pipeline = Fetched(taken)

\* While the FIFO did not overrun, the handler misses no byte but the one right
\* behind one that it read, and never two in a row (uart_controller.v:53).
MissesOnlyNeighbours == "fifo" \notin overrun =>
    \A i \in DOMAIN input :
        \/ input[i] \in ToSet(taken \o fifo)
        \/ i > 1 /\ input[i - 1] \in ToSet(taken)

\* A full FIFO and a wrapped console ring lose bytes but never reorder or
\* repeat them: only the write into a full stdin_buffer (dev_stdin.c:27) does.
InOrder == "stdin" \notin overrun =>
    \A i, j \in DOMAIN Pipeline : i < j => Pipeline[i].at < Pipeline[j].at

\* Even when stdin_buffer overran no byte is read twice, and none is read that
\* the handler did not read from the UART.
ReadOnce ==
    /\ IsInjective(Pipeline)
    /\ ToSet(Pipeline) \subseteq ToSet(Fetched(taken))

\* A reader asleep in dev_stdin_read has nothing to read: the check of p_wpos
\* and the entry into the wait queue cannot miss a byte (dev_stdin.c:47-55).
SleepersHaveNothing ==
    \A r \in Readers : r \in asleep => p_rpos = p_wpos /\ r \in ToSet(wait_queue)

\* When there is a byte for readers that wait and were not killed, one of them
\* takes it, although all are woken for it and only one can have it.
WaitingReadersServed ==
    \A n \in 0 .. MaxReceived :
       (p_rpos = n /\ n < p_wpos
          /\ \E r \in Readers : left[r] > 0 /\ r \notin exiting)
       ~> (p_rpos > n \/ \A r \in Readers : left[r] = 0 \/ r \in exiting)
=============================================================================
