------------------------------ MODULE TinyTty ------------------------------
(***************************************************************************)
(* tty/tiny_tty.c: one port of a tty driver without hardware.  The tty     *)
(* core calls open and close under its lock of the tty, and the rest       *)
(* without it; a timer feeds characters to the port while it is open.      *)
(***************************************************************************)
EXTENDS Naturals, FiniteSets

CONSTANTS
    Process,     \* processes that open the port
    Lines,       \* lines a process may ask for: a subset of {"DTR", "RTS"}
    Nomem,       \* TRUE if kmalloc may fail
    MaxTty,      \* bound: how often the tty core makes a tty
    None

VARIABLES
    tiny,                    \* tiny_table[index]: "null", "made" or "freed"
    open_count, mcr,         \* of *tiny
    pending, handler,        \* the timer is in the wheel; its handler runs
    core,                    \* the tty core: who has the lock, whether a tty is
                             \* there, its driver_data, how many there have been
    status,                  \* "up", "down" after tiny_exit, "broken"
    pc, call                 \* of a process, and what its call is about

portVars  == <<tiny, open_count, mcr>>
timerVars == <<pending, handler>>
vars      == <<portVars, timerVars, core, status, pc, call>>

NoCall == [set |-> {}, clear |-> {}, mcr |-> {}, answer |-> None]

Init ==
    /\ tiny = "null" /\ open_count = 0 /\ mcr = {}
    /\ pending = FALSE /\ handler = FALSE
    /\ core = [lock |-> None, tty |-> FALSE, data |-> FALSE, made |-> 0]
    /\ status = "up"
    /\ pc = [p \in Process |-> "closed"] /\ call = [p \in Process |-> NoCall]

Go(p, from, to) == status = "up" /\ pc[p] = from /\ pc' = [pc EXCEPT ![p] = to]

-----------------------------------------------------------------------------
(* tiny_open, called with the lock of the tty. *)
OpenClear(p) ==
    /\ core.lock = None /\ Go(p, "closed", "opening")
    /\ core.tty \/ core.made < MaxTty
    /\ core' = [lock |-> p, tty |-> TRUE, data |-> FALSE,
                made |-> IF core.tty THEN core.made ELSE core.made + 1]
    /\ UNCHANGED <<portVars, timerVars, status, call>>

OpenNomem(p) ==
    /\ Nomem /\ tiny = "null" /\ Go(p, "opening", "failed")
    /\ core' = [core EXCEPT !.lock = None]
    /\ UNCHANGED <<portVars, timerVars, status, call>>

(* What kmalloc returns is not cleared; a timer that is set up while it is *)
(* in the wheel breaks the wheel.                                          *)
OpenPort(p) ==
    /\ Go(p, "opening", "open")
    /\ tiny' = "made"
    /\ IF tiny = "null" THEN mcr' \in SUBSET {"DTR", "RTS"} ELSE UNCHANGED mcr
    /\ open_count' = open_count + 1
    /\ pending' = (pending \/ open_count' = 1)
    /\ status' = IF pending /\ open_count' = 1 THEN "broken" ELSE "up"
    /\ core' = [core EXCEPT !.lock = None, !.data = TRUE]
    /\ UNCHANGED <<handler, call>>

-----------------------------------------------------------------------------
(* tiny_close and do_close.  The tty core also calls it for an open that   *)
(* failed, having let go of the lock in between, and frees the tty when    *)
(* nobody is left.                                                         *)
Closed_Kept(n) == n                                  \* slip: not counted down
Closed(n) == n - 1

LastUser_Early(n) == n <= 1                          \* slip: one user too early
LastUser(n) == n <= 0

DoClose ==
    /\ open_count' = IF open_count = 0 THEN 0 ELSE Closed(open_count)
    /\ pending' = (pending /\ ~(open_count > 0 /\ LastUser(open_count')))

Close(p) ==
    /\ core.lock = None
    /\ Go(p, "open", "closed") \/ Go(p, "failed", "closed")
    /\ IF core.data THEN DoClose ELSE UNCHANGED <<open_count, pending>>
    /\ core' = IF \E q \in Process : pc'[q] # "closed" THEN core
               ELSE [core EXCEPT !.tty = FALSE, !.data = FALSE]
    /\ UNCHANGED <<tiny, mcr, handler, status, call>>

-----------------------------------------------------------------------------
(* tiny_timer: feed the tty, and add the timer again. *)
TimerFires ==
    /\ status # "broken" /\ pending /\ ~handler
    /\ pending' = FALSE /\ handler' = TRUE
    /\ UNCHANGED <<portVars, core, status, pc, call>>

TimerAgain ==
    /\ status # "broken" /\ handler
    /\ handler' = FALSE
    /\ pending' = TRUE
    /\ status' = IF pending THEN "broken" ELSE status
    /\ UNCHANGED <<portVars, core, pc, call>>

-----------------------------------------------------------------------------
(* tiny_tiocmset, which takes no lock and does not look for a null.  DTR   *)
(* and RTS both stand for the bit of RTS.                                  *)
Mcr(c) ==
    (c.mcr \cup (IF c.set # {} THEN {"RTS"} ELSE {})) \ (IF c.clear # {} THEN {"RTS"} ELSE {})

SetLoad(p) ==
    /\ Go(p, "open", IF core.data THEN "store" ELSE "oops")
    /\ \E s, c \in SUBSET Lines :
            call' = [call EXCEPT ![p] = [set |-> s, clear |-> c, mcr |-> mcr, answer |-> None]]
    /\ UNCHANGED <<portVars, timerVars, core, status>>

SetStore(p) ==
    /\ Go(p, "store", "set")
    /\ mcr' = Mcr(call[p])
    /\ UNCHANGED <<tiny, open_count, timerVars, core, status, call>>

Return(p) ==
    /\ Go(p, "set", "open") \/ Go(p, "answered", "open")
    /\ call' = [call EXCEPT ![p] = NoCall]
    /\ UNCHANGED <<portVars, timerVars, core, status>>

-----------------------------------------------------------------------------
(* The calls that change nothing and answer.  tiny_write and               *)
(* tiny_write_room look for a null and for a port that was not opened;     *)
(* tiny_write has one answer for whatever it then does.                    *)
Answer(p, a) ==
    /\ Go(p, "open", "answered")
    /\ call' = [call EXCEPT ![p].answer = a]
    /\ UNCHANGED <<portVars, timerVars, core, status>>

Opened == core.data /\ open_count # 0

WriteAnswer == IF core.data THEN "EINVAL" ELSE "ENODEV"
RoomAnswer  == IF Opened THEN "255 bytes" ELSE WriteAnswer

Write(p) ==
    \/ Opened  /\ Answer(p, [logged |-> TRUE,  returns |-> WriteAnswer])
    \/ ~Opened /\ Answer(p, [logged |-> FALSE, returns |-> WriteAnswer])

WriteRoom(p) == Answer(p, [room |-> RoomAnswer])

(* tiny_tiocmget, and the ioctls, look for no null.  What TIOCGSERIAL and  *)
(* TIOCGICOUNT copy nobody has set.  Nor has anybody set up the queue that *)
(* TIOCMIWAIT joins: what happens there is up to what the memory held.     *)
TiocmGet(p)  == core.data /\ Answer(p, [lines |-> mcr])
TiocgCopy(p) == core.data /\ Answer(p, [copied |-> "as kmalloc left it"])

TiocmWait(p) ==
    /\ core.data
    /\ Go(p, "open", "oops") \/ Go(p, "open", "stuck")
    /\ UNCHANGED <<portVars, timerVars, core, status, call>>

NullCall(p) ==
    /\ ~core.data /\ Go(p, "open", "oops")
    /\ UNCHANGED <<portVars, timerVars, core, status, call>>

-----------------------------------------------------------------------------
(* tiny_exit: the module goes when no file is open. *)
Exit ==
    /\ status = "up" /\ \A p \in Process : pc[p] = "closed"
    /\ status' = "down"
    /\ IF tiny = "made" THEN tiny' = "freed" /\ pending' = FALSE
       ELSE UNCHANGED <<tiny, pending>>
    /\ UNCHANGED <<open_count, mcr, handler, core, pc, call>>

Next ==
    \/ \E p \in Process : OpenClear(p) \/ OpenNomem(p) \/ OpenPort(p) \/ Close(p)
                          \/ SetLoad(p) \/ SetStore(p) \/ Return(p)
                          \/ Write(p) \/ WriteRoom(p)
                          \/ TiocmGet(p) \/ TiocgCopy(p) \/ TiocmWait(p) \/ NullCall(p)
    \/ TimerFires \/ TimerAgain \/ Exit

Spec == Init /\ [][Next]_vars

-----------------------------------------------------------------------------
InCall == {"store", "set", "answered", "oops", "stuck"}
Users  == {p \in Process : pc[p] \in {"open"} \cup InCall}

TypeOK ==
    /\ tiny \in {"null", "made", "freed"}
    /\ open_count \in 0 .. Cardinality(Process) /\ mcr \subseteq {"DTR", "RTS"}
    /\ pending \in BOOLEAN /\ handler \in BOOLEAN
    /\ status \in {"up", "down", "broken"} /\ core.made \in 0 .. MaxTty
    /\ pc \in [Process -> {"closed", "opening", "failed", "open"} \cup InCall]

(***************************************************************************)
(* "The port is being closed by the last user" (tiny_tty.c:149): the count *)
(* of the port is the number of processes that have it open.               *)
(***************************************************************************)
CountsUsers == status = "up" => open_count = Cardinality(Users)

(* Characters come for as long as the port is open, whoever else closes    *)
(* it: the timer is in the wheel or its handler is about to put it there.  *)
FeedsOpenPort == status = "up" /\ Users # {} => pending \/ handler

-----------------------------------------------------------------------------
(* The code's texts also state what follows, which the code does not keep: *)
(* TLC refutes each of them.                                               *)

(***************************************************************************)
(* "shut down our timer" (tiny_tty.c:152): of a port that is closed the    *)
(* timer is not in the wheel.                                              *)
(***************************************************************************)
TimerShutDown == status = "up" /\ open_count = 0 => ~pending

(***************************************************************************)
(* "shut down all of the timers and free the memory" (tiny_tty.c:553): no  *)
(* handler uses a structure that is freed.                                 *)
(***************************************************************************)
FreedUnused == tiny = "freed" => ~handler /\ ~pending

(***************************************************************************)
(* "save our structure within the tty structure" (tiny_tty.c:119): a call  *)
(* on an open port finds the structure, set up.                            *)
(***************************************************************************)
CallFindsPort == \A p \in Process : pc[p] \notin {"oops", "stuck"}

(***************************************************************************)
(* "fake sending the data out a hardware port" (tiny_tty.c:183): a write   *)
(* whose data went out, into a port with room, does not tell that it failed*)
(***************************************************************************)
SentIsTold == \A p \in Process :
    pc[p] = "answered" /\ "logged" \in DOMAIN call[p].answer /\ call[p].answer.logged
        => call[p].answer.returns # "EINVAL"

(***************************************************************************)
(* tiocmget tells the bit that it says means "DTR is set" (tiny_tty.c:318):*)
(* it is what a request to set DTR, carried out alone, has set.            *)
(***************************************************************************)
DtrSet == \A p \in Process :
    pc[p] = "set" /\ "DTR" \in call[p].set \ call[p].clear => "DTR" \in mcr
=============================================================================
