------------------------------ MODULE MCWaits ------------------------------
(* The users of wait queues: a semaphore, and the readers of stdin behind  *)
(* the serial line.  A behaviour exercises one of them.                    *)
EXTENDS Sem

CONSTANTS Readers, FifoDepth, ConsBufSize, StdinBufSize, Bytes, MaxReceived,
          MaxLen

ASSUME WaitsAssumption ==
    /\ FifoDepth \in Nat /\ MaxLen \in Nat /\ Bytes \subseteq Nat
    /\ ConsBufSize \in Nat \ {0} /\ StdinBufSize \in Nat \ {0}

VARIABLES
    part,
    fifo, in_handler, cons, stdin_buffer, p_rpos, p_wpos, readers_queue,
    readers_flags, asleep, left, readers_exiting, input, taken, output, overrun

T == INSTANCE Stdin WITH wait_queue <- readers_queue,
                         wakeup_flags <- readers_flags,
                         exiting <- readers_exiting

stdinvars == <<fifo, in_handler, cons, stdin_buffer, p_rpos, p_wpos,
               readers_queue, readers_flags, asleep, left, readers_exiting,
               input, taken, output, overrun>>

WaitsInit == part \in {"sem", "stdin"} /\ Init /\ T!Init

WaitsNext ==
    /\ UNCHANGED part
    /\ \/ part = "sem" /\ Next /\ UNCHANGED stdinvars
       \/ part = "stdin" /\ T!Next /\ UNCHANGED vars

WaitsSpec ==
    /\ WaitsInit /\ [][WaitsNext]_<<part, vars, stdinvars>>
    /\ Fairness /\ T!Fairness

-----------------------------------------------------------------------------
(* Properties                                                              *)

\* What the readers get is what the handler read from the UART, in its order
\* and each byte once, and that is the line but for the byte behind one that was
\* read; a buffer that overran loses bytes and no more than that (console.c:
\* 145-156, dev_stdin.c:21-68, uart_controller.v:53).
ReadsAreTheInput ==
    part = "stdin" => /\ T!NothingLost /\ T!InOrder /\ T!ReadOnce
                      /\ T!MissesOnlyNeighbours

\* What the comment on the console buffer says (console.c:127-131): the handler
\* stashes the characters received from the serial port.  Where the FIFO did
\* not overrun, each one that is not still in it was read.  The code breaks it:
\* a read of the data register takes two bytes (uart_controller.v:53).
EveryByteStashed ==
    part = "stdin" /\ overrun = {}
        => T!ToSet(input) \subseteq T!ToSet(taken \o fifo)

\* A reader asleep in dev_stdin_read has nothing to read: the check of p_wpos
\* and the entry into the wait queue cannot miss a byte (dev_stdin.c:47-55).
SleepersHaveNothing == part = "stdin" => T!SleepersHaveNothing

\* When there is a byte for readers that wait and were not killed, one of them
\* takes it, although all are woken for it and only one can have it
\* (dev_stdin.c:31-33, 47-57).
WaitingReadersServed == T!WaitingReadersServed
=============================================================================
