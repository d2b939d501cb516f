----------------------------- MODULE TinySerial -----------------------------
(***************************************************************************)
(* tty/tiny_serial.c: a serial port without hardware.  The serial core     *)
(* opens, closes and flushes the port and fills the ring of characters to  *)
(* send; a timer puts a character in and, without the lock of the port,    *)
(* sends from the ring.                                                    *)
(***************************************************************************)
EXTENDS Integers, Sequences

CONSTANTS
    Old,           \* TRUE: a kernel before 4.15, which hands the handler timer->data
    Flushes,       \* TRUE: processes may throw away what is not sent
    Fifosize,      \* of the port; nobody but setserial makes it more than 0
    UART_XMIT_SIZE,
    WAKEUP_CHARS,  \* fewer than the ring holds
    MaxOpens       \* bound: how often the port is opened

VARIABLES
    made, pending,         \* there is a timer; it is in the wheel
    handler, count,        \* where tiny_timer is; its count of characters
    open, opens, stopped,  \* state->port.tty is set; how often it was; ^S
    buf, head, tail,       \* state->xmit
    x_char, waiting,       \* a character out of order; a writer waits for room
    status,                \* "up", or how the kernel came to grief
    next, queue, misread   \* history: the next character, those not yet sent,
                           \* and that another one was sent

timerVars == <<made, pending, handler, count>>
ringVars  == <<buf, head, tail, next, queue, misread>>
portVars  == <<open, opens, stopped, x_char, waiting>>
vars      == <<timerVars, ringVars, portVars, status>>

Char == 0 .. UART_XMIT_SIZE

Init ==
    /\ made = FALSE /\ pending = FALSE /\ handler = "idle" /\ count = 0
    /\ open = FALSE /\ opens = 0 /\ stopped = FALSE /\ x_char = FALSE /\ waiting = FALSE
    /\ buf = [i \in 0 .. UART_XMIT_SIZE - 1 |-> 0] /\ head = 0 /\ tail = 0
    /\ status = "up"
    /\ next = 0 /\ queue = <<>> /\ misread = FALSE

After(i)      == (i + 1) % UART_XMIT_SIZE
chars_pending == (head + UART_XMIT_SIZE - tail) % UART_XMIT_SIZE
Full          == After(head) = tail

Empty(h, t) == h = t

-----------------------------------------------------------------------------
(* tiny_startup and tiny_shutdown, at the first open and the last close.   *)
(* The core clears the ring before the one and frees it after the other.   *)
Submits_New(found) == ~found                         \* slip: add_timer only with kmalloc
Submits(found) == TRUE

StartUp ==
    /\ ~open /\ opens < MaxOpens
    /\ open' = TRUE /\ opens' = opens + 1
    /\ made' = TRUE
    /\ pending' = (pending \/ Submits(made))
    /\ status' = IF pending /\ Submits(made) THEN "timer added twice" ELSE "up"
    /\ head' = 0 /\ tail' = 0 /\ queue' = <<>>
    /\ UNCHANGED <<handler, count, buf, next, misread, stopped, x_char, waiting>>

StartUpNomem ==
    /\ ~open /\ ~made /\ opens < MaxOpens
    /\ opens' = opens + 1
    /\ UNCHANGED <<timerVars, ringVars, open, stopped, x_char, waiting, status>>

Shutdown ==
    /\ open /\ ~waiting
    /\ open' = FALSE /\ stopped' = FALSE /\ x_char' = FALSE
    /\ pending' = FALSE
    /\ queue' = <<>>
    /\ UNCHANGED <<made, handler, count, buf, head, tail, next, misread, opens, waiting, status>>

-----------------------------------------------------------------------------
(* What the serial core and processes do meanwhile.                        *)
Write ==
    /\ open /\ ~waiting
    /\ IF Full THEN waiting' = TRUE /\ UNCHANGED <<buf, head, next, queue>>
       ELSE /\ buf' = [buf EXCEPT ![head] = next] /\ head' = After(head)
            /\ next' = (next + 1) % (UART_XMIT_SIZE + 1)
            /\ queue' = Append(queue, next)
            /\ UNCHANGED waiting
    /\ UNCHANGED <<timerVars, tail, misread, open, opens, stopped, x_char, status>>

Flush ==
    /\ Flushes /\ open
    /\ head' = 0 /\ tail' = 0 /\ queue' = <<>> /\ waiting' = FALSE
    /\ UNCHANGED <<timerVars, buf, next, misread, open, opens, stopped, x_char, status>>

FlowControl ==
    /\ open
    /\ \/ stopped' = ~stopped /\ UNCHANGED x_char
       \/ x_char' = TRUE /\ UNCHANGED stopped
    /\ UNCHANGED <<timerVars, ringVars, open, opens, waiting, status>>

-----------------------------------------------------------------------------
(* tiny_timer.  Since 4.15 its argument is the timer, not the port: what   *)
(* it takes for port->state lies behind the timer in memory.               *)
Handler(from, to) == handler = from /\ handler' = to

TimerFires ==
    /\ pending /\ Handler("idle", "look") /\ pending' = FALSE
    /\ UNCHANGED <<made, count, ringVars, portVars, status>>

Look ==
    /\ Old /\ Handler("look", IF open THEN "add" ELSE "idle")
    /\ UNCHANGED <<made, pending, count, ringVars, portVars, status>>

LookAstray ==
    /\ ~Old /\ Handler("look", "idle")
    /\ status' \in {"up", "not a port"}
    /\ UNCHANGED <<made, pending, count, ringVars, portVars>>

Feed ==
    /\ Handler("add", "send")
    /\ pending' = TRUE
    /\ status' = IF ~open THEN "used after close"
                 ELSE IF pending THEN "timer added twice" ELSE "up"
    /\ UNCHANGED <<made, count, ringVars, portVars>>

-----------------------------------------------------------------------------
(* tiny_tx_chars. *)
SendXChar ==
    /\ x_char /\ Handler("send", "idle")
    /\ x_char' = FALSE
    /\ UNCHANGED <<made, pending, count, ringVars, open, opens, stopped, waiting, status>>

SendNone ==
    /\ ~x_char /\ (Empty(head, tail) \/ stopped) /\ Handler("send", "idle")
    /\ UNCHANGED <<made, pending, count, ringVars, portVars, status>>

SendFirst ==
    /\ ~x_char /\ ~Empty(head, tail) /\ ~stopped /\ Handler("send", "take")
    /\ count' = Fifosize \div 2
    /\ UNCHANGED <<made, pending, ringVars, portVars, status>>

More(n) == n - 1 > 0

Take ==
    /\ tail' = After(tail)
    /\ Handler("take", IF ~Empty(head, tail') /\ More(count) THEN "take" ELSE "wake")
    /\ count' = count - 1
    /\ misread' = (misread \/ queue = <<>> \/ buf[tail] # Head(queue))
    /\ queue' = IF queue = <<>> THEN queue ELSE Tail(queue)
    /\ status' = IF open THEN "up" ELSE "used after close"
    /\ UNCHANGED <<made, pending, buf, head, next, portVars>>

Few_Empty(n) == n = 0                                \* slip: waits for the whole ring
Few(n) == n < WAKEUP_CHARS

Wake ==
    /\ Handler("wake", "idle")
    /\ waiting' = (waiting /\ ~Few(chars_pending))
    /\ UNCHANGED <<made, pending, count, ringVars, open, opens, stopped, x_char, status>>

Sending == SendXChar \/ SendNone \/ SendFirst \/ Take \/ Wake

Next ==
    /\ status = "up"
    /\ \/ StartUp \/ StartUpNomem \/ Shutdown
       \/ Write \/ Flush \/ FlowControl
       \/ TimerFires \/ Look \/ LookAstray \/ Feed \/ Sending

Spec == Init /\ [][Next]_vars

-----------------------------------------------------------------------------
TypeOK ==
    /\ made \in BOOLEAN /\ pending \in BOOLEAN /\ (pending => made)
    /\ handler \in {"idle", "look", "add", "send", "take", "wake"}
    /\ count \in -1 .. Fifosize \div 2
    /\ open \in BOOLEAN /\ opens \in 0 .. MaxOpens /\ stopped \in BOOLEAN
    /\ buf \in [0 .. UART_XMIT_SIZE - 1 -> Char]
    /\ head \in DOMAIN buf /\ tail \in DOMAIN buf
    /\ x_char \in BOOLEAN /\ waiting \in BOOLEAN
    /\ status \in {"up", "timer added twice", "used after close", "not a port"}
    /\ next \in Char /\ queue \in Seq(Char) /\ misread \in BOOLEAN

(***************************************************************************)
(* tiny_startup and tiny_timer: while the port is open the timer is in the *)
(* wheel, or the handler is about to put it there, however often the port  *)
(* was opened before.  This is so where the handler is given the port.     *)
(***************************************************************************)
FeedsOpenPort == status = "up" /\ open => pending \/ handler \in {"look", "add"}

(***************************************************************************)
(* tiny_tx_chars: though it takes no lock, the characters of a port go out *)
(* once and in order, whatever is written meanwhile, until it is closed    *)
(* and opened again under the handler's hands.                             *)
(***************************************************************************)
SentInOrder == status = "up" /\ opens < 2 => ~misread

(***************************************************************************)
(* tiny_tx_chars: a writer that waits for room is woken before the ring    *)
(* runs low, also when XON and XOFF are sent out of order in between.      *)
(***************************************************************************)
WriterWoken ==
    status = "up" /\ waiting => chars_pending >= WAKEUP_CHARS \/ handler \in {"take", "wake"}

-----------------------------------------------------------------------------
(* The code's texts also state what follows, which the code does not keep: *)
(* TLC refutes each of them; SentInOrder, too, where there are flushes, and*)
(* FeedsOpenPort since Linux 4.15.                                         *)

(***************************************************************************)
(* "shut down our timer" (tiny_serial.c:222): a port that is closed has no *)
(* timer and no handler that works on it, and one that opens adds its      *)
(* timer to the wheel once.                                                *)
(***************************************************************************)
TimerShutDown == ~open => ~pending /\ handler \in {"idle", "look"}
AddedOnce     == status # "timer added twice"
=============================================================================
