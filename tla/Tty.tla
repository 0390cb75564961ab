--------------------------------- MODULE Tty ---------------------------------
(***************************************************************************)
(* One terminal: traps/tty.c with the handlers trapTtyReceive and          *)
(* trapTtyTransmit of traps/traps.c.  The terminals share no state, and a  *)
(* call with a terminal number out of range returns before it changes      *)
(* anything, so one terminal is enough.                                    *)
(*                                                                         *)
(* As in Sync, a system call is atomic up to the point where it sleeps;    *)
(* at[p] says where p continues.  Interrupts are off in the kernel, so the *)
(* two terminal interrupts are atomic steps of the hardware.               *)
(*                                                                         *)
(* A line and a message are represented by their lengths.  Processes do    *)
(* not die in this model.  When malloc cannot serve the node of a process  *)
(* that has to wait for input or for another writer, the loop around       *)
(* sleepOnWaitQueue spins in the kernel for ever with interrupts off; that *)
(* step is left out, nothing follows it.                                   *)
(***************************************************************************)
EXTENDS WaitQueue

CONSTANTS
  Proc,               \* the processes that use the terminal
  NoProc,             \* write_current = 0
  TERMINAL_MAX_LINE,  \* the most one TtyTransmit or TtyReceive moves
  ReadLengths,        \* values of u_length in calls of TtyRead
  WriteLengths,       \* values of length in calls of TtyWrite
  MaxLines,           \* bound on the lines typed at the terminal
  MaxTransmitting,    \* bound on the transmissions the terminal is handed
  NodeMayFail         \* can malloc fail for the waitqueue node of a writer?

ASSUME TtyAssumption ==
  /\ NoProc \notin Proc
  /\ TERMINAL_MAX_LINE \in Nat \ {0}
  /\ ReadLengths \subseteq Nat /\ WriteLengths \subseteq Nat
  /\ MaxLines \in Nat /\ MaxTransmitting \in Nat
  /\ NodeMayFail \in BOOLEAN

VARIABLES
  state,                 \* "running" or "waiting"
  at,                    \* where p continues when it runs
  arg,                   \* the length argument of the call p is in
  position,              \* the local variable of ttyWrite
  write_current, write_queue,
  read_queue,
  read_buffer,           \* is ttys[tty].read_buffer non-null?
  read_buffer_size, read_buffer_position,
  transmitting,          \* hardware: the transmissions it was handed
  printed,               \* history: bytes of p's write that are on the screen
  lines                  \* history: lines typed so far

procVars  == <<state, at, arg, position>>
readVars  == <<read_queue, read_buffer, read_buffer_size,
               read_buffer_position, lines>>
writeVars == <<write_current, write_queue, transmitting, printed>>
vars == <<procVars, readVars, writeVars>>

Init ==
  /\ state = [p \in Proc |-> "running"]
  /\ at = [p \in Proc |-> "user"]
  /\ arg = [p \in Proc |-> 0]
  /\ position = [p \in Proc |-> 0]
  /\ write_current = NoProc /\ write_queue = <<>>
  /\ read_queue = <<>> /\ read_buffer = FALSE
  /\ read_buffer_size = 0 /\ read_buffer_position = 0
  /\ transmitting = <<>>
  /\ printed = [p \in Proc |-> 0]
  /\ lines = 0

------------------------------------------------------------------------------
Runs(p, place) == state[p] = "running" /\ at[p] = place

wakeUpProcess(woken) ==
  state' = [p \in Proc |-> IF p \in woken THEN "running" ELSE state[p]]

\* signalWaitQueue on a queue, waking one exclusive sleeper.
signalWaitQueue(queue) == wakeUpProcess(SignalWakes(queue, TRUE))

putProcessToSleep(p, place) ==
  /\ state' = [state EXCEPT ![p] = "waiting"]
  /\ at' = [at EXCEPT ![p] = place]

Smaller(a, b) == IF a > b THEN b ELSE a

------------------------------------------------------------------------------
\* Input.

ReadReady == read_buffer /\ read_buffer_position < read_buffer_size

\* A version that leaves it to the next line to wake the next reader.
ReadChunkSilent(p, u_length) ==
  /\ ReadReady
  /\ read_buffer_position' = read_buffer_position
       + Smaller(read_buffer_size - read_buffer_position, u_length)
  /\ at' = [at EXCEPT ![p] = "user"]
  /\ arg' = [arg EXCEPT ![p] = 0]
  /\ UNCHANGED <<state, read_queue>>

\* The part of ttyRead after its loop: copy what fits, then pass the wakeup on.
ReadChunk(p, u_length) ==
  /\ ReadReady
  /\ read_buffer_position' = read_buffer_position
       + Smaller(read_buffer_size - read_buffer_position, u_length)
  /\ read_queue' = SignalLeaves(read_queue, TRUE)
  /\ signalWaitQueue(read_queue)
  /\ at' = [at EXCEPT ![p] = "user"]
  /\ arg' = [arg EXCEPT ![p] = 0]

ReadSleep(p, u_length) ==
  /\ ~ReadReady
  /\ read_queue' = addNodeToWaitQueue(WaitQueueNode(p, TRUE), read_queue)
  /\ putProcessToSleep(p, "read")
  /\ arg' = [arg EXCEPT ![p] = u_length]
  /\ UNCHANGED read_buffer_position

\* One round of the loop of ttyRead.
ReadRound(p, u_length) ==
  /\ ReadChunk(p, u_length) \/ ReadSleep(p, u_length)
  /\ UNCHANGED <<position, read_buffer, read_buffer_size, lines, writeVars>>

ttyRead(p, u_length) == Runs(p, "user") /\ ReadRound(p, u_length)

ttyReadWoken(p) == Runs(p, "read") /\ ReadRound(p, arg[p])

\* A version that carries on at the old position in the new line.
ttyReadBeginKeepingPosition(length) ==
  /\ lines < MaxLines /\ lines' = lines + 1
  /\ read_buffer' = TRUE
  /\ read_buffer_size' = length
  /\ read_queue' = SignalLeaves(read_queue, TRUE)
  /\ signalWaitQueue(read_queue)
  /\ UNCHANGED <<at, arg, position, read_buffer_position, writeVars>>

\* TRAP_TTY_RECEIVE: the new line replaces whatever the buffer held.  A length
\* of 0 is an end of file.
ttyReadBegin(length) ==
  /\ lines < MaxLines /\ lines' = lines + 1
  /\ read_buffer' = TRUE
  /\ read_buffer_size' = length
  /\ read_buffer_position' = 0
  /\ read_queue' = SignalLeaves(read_queue, TRUE)
  /\ signalWaitQueue(read_queue)
  /\ UNCHANGED <<at, arg, position, writeVars>>

\* The same interrupt when the kernel heap has no room for the buffer.
ttyReadBeginNoSpace ==
  /\ lines < MaxLines /\ lines' = lines + 1
  /\ read_buffer' = FALSE
  /\ UNCHANGED <<procVars, read_queue, read_buffer_size,
                 read_buffer_position, writeVars>>

------------------------------------------------------------------------------
\* Output.

\* What the loop of ttyWrite transmits from position pos on, chunk by chunk.
Chunks(p, length, pos) ==
  [i \in 1..((length - pos + TERMINAL_MAX_LINE - 1) \div TERMINAL_MAX_LINE) |->
     [process |-> p,
      bytes |-> Smaller(length - pos - (i - 1) * TERMINAL_MAX_LINE,
                        TERMINAL_MAX_LINE)]]

\* The loop of ttyWrite from position pos.  It sleeps, in front of everyone
\* else, after each TtyTransmit; but it does not look at what
\* sleepOnWaitQueueWithOptions returns, so when there is no memory for the
\* waitqueue node it goes straight on to the next chunk.  unslept counts the
\* chunks that happens to.
TransmitAndSleep(p, length, pos, unslept) ==
  /\ unslept < Len(Chunks(p, length, pos))
  /\ transmitting' = transmitting
       \o SubSeq(Chunks(p, length, pos), 1, unslept + 1)
  /\ write_current' = p
  /\ write_queue' = addNodeToWaitQueue(WaitQueueNode(p, FALSE), write_queue)
  /\ putProcessToSleep(p, "transmit")
  /\ arg' = [arg EXCEPT ![p] = length]
  /\ position' = [position EXCEPT ![p] = pos + unslept * TERMINAL_MAX_LINE]

WriteDone(p, length, pos, unslept) ==
  /\ unslept = Len(Chunks(p, length, pos))
  /\ transmitting' = transmitting \o Chunks(p, length, pos)
  /\ write_current' = NoProc
  /\ at' = [at EXCEPT ![p] = "user"]
  /\ arg' = [arg EXCEPT ![p] = 0]
  /\ position' = [position EXCEPT ![p] = 0]
  /\ UNCHANGED <<state, write_queue>>

WriteLoop(p, length, pos) ==
  \E unslept \in IF NodeMayFail THEN 0..Len(Chunks(p, length, pos))
                 ELSE {0} :
    /\ Len(transmitting) + unslept <= MaxTransmitting
    /\ \/ TransmitAndSleep(p, length, pos, unslept)
       \/ WriteDone(p, length, pos, unslept)

\* A version that does not look at write_current.
WaitForTerminalBarging(p, length) ==
  WriteLoop(p, length, 0) /\ printed' = [printed EXCEPT ![p] = 0]

\* The first half of ttyWrite: wait until nobody is writing, then write.
WaitForTerminal(p, length) ==
  \/ /\ write_current = NoProc
     /\ WriteLoop(p, length, 0)
     /\ printed' = [printed EXCEPT ![p] = 0]
  \/ /\ write_current # NoProc
     /\ write_queue' = addNodeToWaitQueue(WaitQueueNode(p, TRUE), write_queue)
     /\ putProcessToSleep(p, "write")
     /\ arg' = [arg EXCEPT ![p] = length]
     /\ UNCHANGED <<position, write_current, transmitting, printed>>

ttyWrite(p, length) ==
  /\ Runs(p, "user")
  /\ WaitForTerminal(p, length)
  /\ UNCHANGED readVars

ttyWriteWoken(p) ==
  /\ Runs(p, "write")
  /\ WaitForTerminal(p, arg[p])
  /\ UNCHANGED readVars

ttyWriteNextChunk(p) ==
  /\ Runs(p, "transmit")
  /\ WriteLoop(p, arg[p], position[p] + TERMINAL_MAX_LINE)
  /\ UNCHANGED <<printed, readVars>>

\* The queue once its leading non-exclusive nodes have been made exclusive.
MarkExclusive(queue) ==
  [i \in 1..Len(queue) |->
     IF \A j \in 1..i : ~queue[j].is_exclusive
     THEN [queue[i] EXCEPT !.is_exclusive = TRUE] ELSE queue[i]]

\* TRAP_TTY_TRANSMIT: the terminal has printed the oldest transmission it was
\* handed, and ttyWriteFinished signals the write queue.
ttyWriteFinished ==
  LET queue == MarkExclusive(write_queue)
  IN /\ transmitting # <<>>
     /\ printed' = [printed EXCEPT ![Head(transmitting).process] =
                      @ + Head(transmitting).bytes]
     /\ transmitting' = Tail(transmitting)
     /\ write_queue' = SignalLeaves(queue, TRUE)
     /\ signalWaitQueue(queue)
     /\ UNCHANGED <<at, arg, position, write_current, readVars>>

------------------------------------------------------------------------------
Next ==
  \/ \E p \in Proc :
       \/ \E u_length \in ReadLengths : ttyRead(p, u_length)
       \/ ttyReadWoken(p)
       \/ \E length \in WriteLengths : ttyWrite(p, length)
       \/ ttyWriteWoken(p)
       \/ ttyWriteNextChunk(p)
  \/ \E length \in 0..TERMINAL_MAX_LINE : ttyReadBegin(length)
  \/ ttyReadBeginNoSpace
  \/ ttyWriteFinished

\* A runnable process continues its call (schedule is round robin), and the
\* terminal interrupts when a transmission is complete.
Fairness ==
  /\ \A p \in Proc : /\ WF_vars(ttyReadWoken(p))
                     /\ WF_vars(ttyWriteWoken(p))
                     /\ WF_vars(ttyWriteNextChunk(p))
  /\ WF_vars(ttyWriteFinished)

Spec == Init /\ [][Next]_vars /\ Fairness

------------------------------------------------------------------------------
\* Properties.

Node == [process : Proc, is_exclusive : BOOLEAN]

\* Every variable has the type of its declaration, and the read position
\* never leaves the line that ttyReadBegin put in the buffer.
TypeOK ==
  /\ state \in [Proc -> {"running", "waiting"}]
  /\ at \in [Proc -> {"user", "read", "write", "transmit"}]
  /\ arg \in [Proc -> Nat] /\ position \in [Proc -> Nat]
  /\ write_current \in Proc \cup {NoProc}
  /\ write_queue \in Seq(Node) /\ read_queue \in Seq(Node)
  /\ read_buffer \in BOOLEAN
  /\ read_buffer_size \in Nat
  /\ read_buffer_position \in 0..read_buffer_size
  /\ transmitting \in Seq([process : Proc, bytes : Nat])
  /\ printed \in [Proc -> Nat]
  /\ lines \in 0..MaxLines

\* Input that is waiting while readers sleep has a reader on its way to it:
\* ttyRead passes the wakeup of one line on from reader to reader, whoever
\* got to the line first.
NoLostReader ==
  ReadReady /\ read_queue # <<>> => \E p \in Proc : Runs(p, "read")

\* A line is read to its end, or everyone who slept for it has been served.
LineDrained ==
  (ReadReady /\ read_queue # <<>>) ~> (~ReadReady \/ read_queue = <<>>)

\* TtyTransmit is only called when the terminal has finished the last one.
OneTransmission == Len(transmitting) <= 1

\* The chunks of one ttyWrite are not mixed with those of another: whoever is
\* between two chunks is write_current.
WritesDoNotMix ==
  \A p \in Proc : at[p] = "transmit" => write_current = p

\* ttyWrite returns only when the terminal has printed all of its message:
\* no signal but the interrupt for its own last chunk lets it go on.
ReturnsPrinted ==
  [][\A p \in Proc : at[p] = "transmit" /\ at'[p] = "user"
                       => printed[p] = arg[p]]_vars

\* A process that got the terminal for its output is done with it some day.
WriterFinishes ==
  \A p \in Proc : at[p] = "transmit" ~> at[p] = "user"

\* A free terminal that processes wait to write to has a process on its way
\* to it, as NoLostReader says for input.
NoLostWriter ==
  write_current = NoProc /\ write_queue # <<>> /\ transmitting = <<>>
    => \E p \in Proc : Runs(p, "write")
==============================================================================
