-------------------------------- MODULE Uart --------------------------------
(***************************************************************************)
(* The console: bytes that main prints pass through the TX FIFO to the     *)
(* line and are copied to a ring in RAM; the panic handler saves the ring  *)
(* in the crash dump, and the next boot prints it again.  FIFO, shift      *)
(* register and UartRing are external.                                     *)
(***************************************************************************)
EXTENDS Naturals, Sequences, FiniteSets, Tails

CONSTANTS
    Text,       \* printable bytes
    Lines,      \* the strings main prints
    Capacity,   \* UART_TXFIFO_CAPACITY
    RingLen,    \* UART_TAIL_LEN
    MaxLines,   \* bound: strings printed in one boot
    MaxBoots    \* bound: boots

Byte == Text \cup {"\n", "\r", "other"}     \* "other": a byte of a non-ASCII character

ASSUME UartAssumption ==
    /\ {"\n", "\r", "other"} \cap Text = {}
    /\ "x" \in Text
    /\ Lines \subseteq Seq(Byte \ {"\r"})
    /\ Capacity \in Nat \ {0}
    /\ RingLen \in Nat \ {0}
    /\ MaxLines \in Nat
    /\ MaxBoots \in Nat

VARIABLES
    phase,      \* where main is
    todo,       \* what write_str has still to write
    half,       \* the "\r" before the next "\n" has been written
    fifo,       \* the TX FIFO
    shift,      \* the byte being sent, if any
    wire,       \* history: what has been sent in this boot
    left,       \* the rest of the dump's tail that is being printed
    ring,       \* UART_RING, oldest byte first
    dump,       \* the tail in the crashdump partition, <<>> if there is none
    log,        \* history: what was given to write_str in this boot
    lastWords,  \* history: what the boot that wrote the dump had printed
    stuck,      \* the UART has stopped sending
    lines,
    boots

hart == <<phase, todo, half, left>>
line == <<fifo, shift, wire>>
tail == <<dump, lastWords>>

vars == <<phase, todo, half, left, fifo, shift, wire, ring, dump, log, lastWords, stuck, lines,
          boots>>

Phase == {"early", "report", "print", "drain", "arm", "jump", "app", "heartbeat", "halted"}

\* The FIFO and the ring never hold more than they have room for.
TypeOK ==
    /\ phase \in Phase
    /\ todo \in Seq(Byte)
    /\ half \in BOOLEAN
    /\ left \in Seq(Byte)
    /\ fifo \in Seq(Byte) /\ Len(fifo) <= Capacity
    /\ shift \in Seq(Byte) /\ Len(shift) <= 1
    /\ wire \in Seq(Byte)
    /\ ring \in Seq(Byte) /\ Len(ring) <= RingLen
    /\ dump \in Seq(Byte) /\ Len(dump) <= RingLen
    /\ log \in Seq(Byte)
    /\ lastWords \in Seq(Byte)
    /\ stuck \in BOOLEAN
    /\ lines \in 0..MaxLines
    /\ boots \in 0..MaxBoots

Init ==
    /\ phase = "early"
    /\ todo = <<>>
    /\ half = FALSE
    /\ left = <<>>
    /\ fifo = <<>>
    /\ shift = <<>>
    /\ wire = <<>>
    /\ ring = <<>>
    /\ dump = <<>>
    /\ log = <<>>
    /\ lastWords = <<>>
    /\ stuck = FALSE
    /\ lines = 0
    /\ boots = 0

-----------------------------------------------------------------------------
(***************************************************************************)
(* Uart0.                                                                  *)
(***************************************************************************)
\* A write to UART_FIFO_REG: the hardware drops it when there is no room.
FifoPush(b) == fifo' = IF Len(fifo) < Capacity THEN Append(fifo, b) ELSE fifo

\* UartRing::push forgets the oldest byte when the ring is full.
RingPush(b) == ring' = Appended(ring, b, RingLen)

FifoFullOffByOne == Len(fifo) > Capacity    \* mutant: > for >=

FifoFull == Len(fifo) >= Capacity

PutUnteedCr(b) ==       \* mutant
    ~FifoFull /\ FifoPush(b) /\ (IF b = "\r" THEN UNCHANGED ring ELSE RingPush(b))

PutWithoutRingLimit(b) == ~FifoFull /\ FifoPush(b) /\ ring' = Append(ring, b)   \* mutant

\* write_byte, which spins while the FIFO is full, and the copy to the ring.
Put(b) == ~FifoFull /\ FifoPush(b) /\ RingPush(b)

WriteByte ==
    /\ todo # <<>>
    /\ IF Head(todo) = "\n" /\ ~half
       THEN Put("\r") /\ half' = TRUE /\ UNCHANGED todo
       ELSE Put(Head(todo)) /\ half' = FALSE /\ todo' = Tail(todo)
    /\ UNCHANGED <<phase, left, shift, wire, tail, log, stuck, lines, boots>>

\* The caller gives write_str a string.
Say(s) == todo = <<>> /\ todo' = s /\ log' = log \o s

WriteStr(s) ==
    /\ phase \in {"early", "print", "heartbeat"}
    /\ lines < MaxLines
    /\ lines' = lines + 1
    /\ Say(s)
    /\ UNCHANGED <<phase, half, left, line, ring, tail, stuck, boots>>

\* How print_escaped_bytes shows a byte: a "\r" comes back with its "\n", and
\* what is not ASCII as four characters.
EscapedVerbatim(b) == IF b = "other" THEN <<"x", "x", "x", "x">> ELSE <<b>>     \* mutant

Escaped(b) ==
    IF b = "\r" THEN <<>>
    ELSE IF b = "other" THEN <<"x", "x", "x", "x">>
    ELSE <<b>>

\* print_if_present finds a dump, or nothing to print.
BeginReport ==
    /\ phase = "early"
    /\ todo = <<>>
    /\ left' = dump
    /\ phase' = "report"
    /\ UNCHANGED <<todo, half, line, ring, tail, log, stuck, lines, boots>>

PrintEscaped ==
    /\ phase = "report"
    /\ left # <<>>
    /\ Say(Escaped(Head(left)))
    /\ left' = Tail(left)
    /\ UNCHANGED <<phase, half, line, ring, tail, stuck, lines, boots>>

EndReport ==
    /\ phase = "report"
    /\ left = <<>>
    /\ todo = <<>>
    /\ phase' = "print"
    /\ UNCHANGED <<todo, half, left, line, ring, tail, log, stuck, lines, boots>>

-----------------------------------------------------------------------------
(***************************************************************************)
(* The end of main.                                                        *)
(***************************************************************************)
FallIntoHeartbeat ==
    /\ phase = "print"
    /\ todo = <<>>
    /\ phase' = "heartbeat"
    /\ UNCHANGED <<todo, half, left, line, ring, tail, log, stuck, lines, boots>>

StartDrain ==
    /\ phase = "print"
    /\ todo = <<>>
    /\ phase' = "drain"
    /\ UNCHANGED <<todo, half, left, line, ring, tail, log, stuck, lines, boots>>

DrainedNever ==         \* mutant: drain_uart waits while count >= 0
    /\ phase = "drain"
    /\ Len(fifo) < 0
    /\ phase' = "arm"
    /\ UNCHANGED <<todo, half, left, line, ring, tail, log, stuck, lines, boots>>

DrainedToHalf ==        \* mutant: drain_uart waits for room instead
    /\ phase = "drain"
    /\ ~FifoFull
    /\ phase' = "arm"
    /\ UNCHANGED <<todo, half, left, line, ring, tail, log, stuck, lines, boots>>

\* drain_uart returns.
Drained ==
    /\ phase = "drain"
    /\ Len(fifo) = 0
    /\ phase' = "arm"
    /\ UNCHANGED <<todo, half, left, line, ring, tail, log, stuck, lines, boots>>

\* enable_timg1_reset
Arm ==
    /\ phase = "arm"
    /\ phase' = "jump"
    /\ UNCHANGED <<todo, half, left, line, ring, tail, log, stuck, lines, boots>>

Jump ==
    /\ phase = "jump"
    /\ phase' = "app"
    /\ UNCHANGED <<todo, half, left, line, ring, tail, log, stuck, lines, boots>>

\* panic(), called between two strings: copy_chronological and record_panic.
Panic ==
    /\ phase \in {"early", "report", "print"}
    /\ todo = <<>>
    /\ dump' = ring
    /\ lastWords' = wire \o shift \o fifo
    /\ phase' = "halted"
    /\ UNCHANGED <<todo, half, left, line, ring, log, stuck, lines, boots>>

-----------------------------------------------------------------------------
(***************************************************************************)
(* The UART and the world (external).                                      *)
(***************************************************************************)
\* The transmitter takes a byte from the FIFO.
Load ==
    /\ ~stuck
    /\ shift = <<>>
    /\ fifo # <<>>
    /\ shift' = <<Head(fifo)>>
    /\ fifo' = Tail(fifo)
    /\ UNCHANGED <<hart, wire, ring, tail, log, stuck, lines, boots>>

\* Its last bit is on the line.
Send ==
    /\ ~stuck
    /\ shift # <<>>
    /\ wire' = wire \o shift
    /\ shift' = <<>>
    /\ UNCHANGED <<hart, fifo, ring, tail, log, stuck, lines, boots>>

\* The UART loses its clock.
LoseClock ==
    /\ ~stuck
    /\ stuck' = TRUE
    /\ UNCHANGED <<hart, line, ring, tail, log, lines, boots>>

\* A reset: RAM and UART start anew, flash stays.
Reset ==
    /\ boots < MaxBoots
    /\ boots' = boots + 1
    /\ phase' = "early"
    /\ todo' = <<>>
    /\ half' = FALSE
    /\ left' = <<>>
    /\ fifo' = <<>>
    /\ shift' = <<>>
    /\ wire' = <<>>
    /\ ring' = <<>>
    /\ log' = <<>>
    /\ stuck' = FALSE
    /\ lines' = 0
    /\ UNCHANGED tail

\* The app erases the dump it has forwarded.
AppErasesDump ==
    /\ phase = "app"
    /\ dump' = <<>>
    /\ lastWords' = <<>>
    /\ UNCHANGED <<hart, line, ring, log, stuck, lines, boots>>

\* Nothing is left to do within the bounds, or the hart spins on the FIFO.
Idle == boots = MaxBoots /\ UNCHANGED vars

Main ==
    \/ WriteByte
    \/ \E s \in Lines : WriteStr(s)
    \/ BeginReport \/ PrintEscaped \/ EndReport
    \/ FallIntoHeartbeat \/ StartDrain \/ Drained \/ Arm \/ Jump
    \/ Panic

Transmitter == Load \/ Send

Next == Main \/ Transmitter \/ LoseClock \/ Reset \/ AppErasesDump \/ Idle

\* The hart runs, and a UART that has its clock sends.
Spec == Init /\ [][Next]_vars /\ WF_vars(Main) /\ WF_vars(Transmitter)

-----------------------------------------------------------------------------
(***************************************************************************)
(* Properties.                                                             *)
(***************************************************************************)
Emitted == wire \o shift \o fifo

\* Where the n-th byte of s is on the line, every "\n" up to there having a
\* "\r" in front.
LinePos(s, n) == n + Cardinality({k \in 1..n : s[k] = "\n"})

\* l shows the first n bytes of s to a reader of the line.
Shown(l, s, n) ==
    \A k \in 1..n :
        /\ LinePos(s, k) <= Len(l)
        /\ l[LinePos(s, k)] = s[k]
        /\ s[k] = "\n" => l[LinePos(s, k) - 1] = "\r"

\* The bytes of log that write_str is done with.
Written == Len(log) - Len(todo)

\* Nothing main prints is lost, doubled or reordered between write_str and
\* the line, however full the FIFO was (the busy-wait of write_byte): each
\* byte is where it belongs, and there is nothing else on the line.
NothingLost ==
    /\ Len(todo) <= Len(log)
    /\ \A k \in 1..Len(todo) : todo[k] = log[Written + k]
    /\ Shown(Emitted, log, Written)
    /\ Len(Emitted) = LinePos(log, Written) + (IF half THEN 1 ELSE 0)

\* Every "\n" on the line follows a "\r" and every "\r" comes before a "\n",
\* also where a dump's tail, which has "\r"s of its own and may begin between
\* the two, is printed again.
LineEnds ==
    LET e == Emitted IN
    \A i \in 1..Len(e) :
        /\ e[i] = "\n" => i > 1 /\ e[i - 1] = "\r"
        /\ e[i] = "\r" => IF i = Len(e) THEN half ELSE e[i + 1] = "\n"

\* The tail in a crash dump is what the panicking boot printed last, up to
\* the very last byte, sent or not.
DumpIsLastWords == dump = LastOf(lastWords, RingLen)

\* When the watchdog is armed all of the log has left the FIFO ("after
\* draining UART so the boot log is fully flushed first"): at most one byte,
\* in the shift register, is not yet on the line.
FlushedWhenArmed ==
    phase \in {"jump", "app"} => fifo = <<>> /\ LinePos(log, Len(log)) <= Len(wire) + 1

\* The hart does not wait for the console for ever: main ends in the app, in
\* heartbeat or in the panic handler, unless the UART stops.
BootEnds ==
    phase \in {"early", "report", "print", "drain", "arm", "jump"} ~>
        (phase \in {"app", "heartbeat", "halted"} \/ stuck)

\* What main printed is on the line in the end, though nobody waits for the
\* last bytes of it.
LogComesOut ==
    phase \in {"app", "heartbeat", "halted"} ~>
        (Shown(wire, log, Len(log)) \/ stuck \/ phase = "early")

-----------------------------------------------------------------------------
(***************************************************************************)
(* The inductive invariant (UartProofs proves it).                         *)
(***************************************************************************)
\* How the console's state is tied to what has been emitted.
ByteInv ==
    /\ todo \in Seq(Byte \ {"\r"})
    /\ half => todo # <<>> /\ Head(todo) = "\n"
    /\ half => Len(Emitted) > 0 /\ Emitted[Len(Emitted)] = "\r"
    /\ ring = LastOf(Emitted, RingLen)

\* From the drain on main has no more to say, and from Drained on the FIFO
\* has no more to send.
DrainInv ==
    /\ phase \in {"drain", "arm", "jump", "app"} => todo = <<>>
    /\ phase \in {"arm", "jump", "app"} => fifo = <<>>

IInv == TypeOK /\ ByteInv /\ DrainInv /\ NothingLost /\ LineEnds /\ DumpIsLastWords
=============================================================================
