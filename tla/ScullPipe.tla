----------------------------- MODULE ScullPipe -----------------------------
(***************************************************************************)
(* scull/pipe.c: a pipe in a circular buffer, whose readers and writers    *)
(* sleep on two wait queues.  Its lock protects the pointers, but the      *)
(* conditions sleepers wait for are read without it.                       *)
(*                                                                         *)
(* Pointers are offsets from dev->buffer.  A file is used by one process   *)
(* at a time.  A sleeper is woken when it is taken off its queue.          *)
(***************************************************************************)
EXTENDS Integers, Sequences, FiniteSets

CONSTANTS
    File,      \* open files
    Sizes,     \* what scull_p_buffer can be set to
    Data,      \* the byte sequences a write can carry
    Count,     \* the sizes a read can ask for
    NoByte,    \* a byte never written
    Nobody     \* owner of an unlocked mutex

ASSUME SizesAssumption ==
    Sizes \subseteq Nat \ {0, 1} /\ \E n \in Sizes : \A k \in Sizes : k <= n
ASSUME FileAssumption == IsFiniteSet(File)
ASSUME NobodyAssumption == Nobody \notin File
ASSUME CountAssumption == Count \subseteq Nat

Byte == (UNION {{d[i] : i \in 1 .. Len(d)} : d \in Data}) \cup {NoByte}

ASSUME DataAssumption == Data \subseteq Seq(Byte)

Largest == CHOOSE n \in Sizes : \A k \in Sizes : k <= n
Modes   == {{"r"}, {"w"}, {"r", "w"}}

VARIABLES
    scull_p_buffer,       \* the module's parameter
    allocated,            \* bytes at dev->buffer; 0 when it is NULL
    buffersize, rp, wp,
    bytes,                \* what the buffer, and the memory after it, holds
    nreaders, nwriters,
    lock, inq, outq,
    mode,                 \* mode[f]: how f was opened
    pc,                   \* pc[f]: where the system call on f is
    got,                  \* history: the bytes the last read returned
    emptied               \* history: an open threw bytes away

memVars == <<scull_p_buffer, allocated, buffersize, nreaders, nwriters, mode, emptied>>
vars == <<memVars, rp, wp, bytes, lock, inq, outq, pc, got>>

TypeOK ==
    /\ scull_p_buffer \in Sizes
    /\ allocated \in Sizes \cup {0} /\ buffersize \in Sizes \cup {0}
    /\ rp \in 0 .. buffersize /\ wp \in 0 .. buffersize
    /\ nreaders \in 0 .. Cardinality(File) /\ nwriters \in 0 .. Cardinality(File)
    /\ lock \in File \cup {Nobody}
    /\ inq \subseteq File /\ outq \subseteq File
    /\ mode \in [File -> SUBSET {"r", "w"}]
    /\ pc \in [File -> {"closed", "open", "pollin", "pollout",
                        "rlock", "rcheck", "rwrap", "rwake", "rwait", "rqueue", "rcond", "rsleep",
                        "wlock", "wcheck", "wwrap", "wwake", "wwait", "wcond", "wsleep"}]

Init ==
    /\ scull_p_buffer \in Sizes
    /\ allocated = 0 /\ buffersize = 0 /\ rp = 0 /\ wp = 0
    /\ bytes = [i \in 0 .. Largest - 1 |-> NoByte]
    /\ nreaders = 0 /\ nwriters = 0
    /\ lock = Nobody /\ inq = {} /\ outq = {}
    /\ mode = [f \in File |-> {}]
    /\ pc = [f \in File |-> "closed"]
    /\ got = <<>> /\ emptied = FALSE

Go(f, from, to) == pc[f] = from /\ pc' = [pc EXCEPT ![f] = to]
Smaller(a, b)   == IF a < b THEN a ELSE b

(***************************************************************************)
(* Open and close, each one critical section.  Every open starts the       *)
(* pointers from the beginning; only the first one allocates.              *)
(***************************************************************************)
Open(f, m) ==
    /\ Go(f, "closed", "open") /\ lock = Nobody
    /\ allocated' = IF allocated = 0 THEN scull_p_buffer ELSE allocated
    /\ buffersize' = scull_p_buffer
    /\ rp' = 0 /\ wp' = 0
    /\ nreaders' = nreaders + Cardinality(m \cap {"r"})
    /\ nwriters' = nwriters + Cardinality(m \cap {"w"})
    /\ mode' = [mode EXCEPT ![f] = m]
    /\ emptied' = (emptied \/ rp # wp)
    /\ UNCHANGED <<scull_p_buffer, bytes, lock, inq, outq, got>>

Last_Readers == nreaders' = 0                     \* slip: writers not counted
Last == nreaders' + nwriters' = 0

Ends_All(f, k) == 1                               \* slip: f_mode not looked at
Ends(f, k) == Cardinality(mode[f] \cap {k})

Release(f) ==
    /\ Go(f, "open", "closed") /\ lock = Nobody
    /\ nreaders' = nreaders - Ends(f, "r")
    /\ nwriters' = nwriters - Ends(f, "w")
    /\ allocated' = IF Last THEN 0 ELSE allocated
    /\ mode' = [mode EXCEPT ![f] = {}]
    /\ UNCHANGED <<scull_p_buffer, buffersize, rp, wp, bytes, lock, inq, outq, got,
                   emptied>>

(* SCULL_P_IOCTSIZE, on any device, with no lock. *)
SetSize(n) ==
    /\ n # scull_p_buffer
    /\ scull_p_buffer' = n
    /\ UNCHANGED <<allocated, buffersize, nreaders, nwriters, mode, emptied, rp, wp,
                   bytes, lock, inq, outq, pc, got>>

spacefree_Whole ==                                \* slip: no slot kept empty
    IF rp = wp THEN buffersize ELSE (rp + buffersize - wp) % buffersize
spacefree == IF rp = wp THEN buffersize - 1
             ELSE ((rp + buffersize - wp) % buffersize) - 1

(***************************************************************************)
(* A call starts, waits for the lock, and may be interrupted there or in   *)
(* its sleep; interrupted, it returns and no longer waits.                 *)
(***************************************************************************)
Call(f) ==
    /\ \/ "r" \in mode[f] /\ Go(f, "open", "rlock")
       \/ "w" \in mode[f] /\ Go(f, "open", "wlock")
    /\ UNCHANGED <<memVars, rp, wp, bytes, lock, inq, outq, got>>

Lock(f) ==
    /\ lock = Nobody /\ lock' = f
    /\ Go(f, "rlock", "rcheck") \/ Go(f, "wlock", "wcheck")
    /\ UNCHANGED <<memVars, rp, wp, bytes, inq, outq, got>>

Interrupted(f) ==
    /\ pc[f] \in {"rlock", "wlock", "rsleep", "wsleep", "pollin", "pollout"}
    /\ pc' = [pc EXCEPT ![f] = "open"]
    /\ inq' = inq \ {f} /\ outq' = outq \ {f}
    /\ UNCHANGED <<memVars, rp, wp, bytes, lock, got>>

(***************************************************************************)
(* scull_p_read.                                                           *)
(***************************************************************************)
Readable(n) == Smaller(n, IF wp > rp THEN wp - rp ELSE buffersize - rp)

(* Data is there: copy it and move rp, which wraps in the next step. *)
ReadData(f) ==
    /\ rp # wp
    /\ \/ \E n \in Count :
            /\ Go(f, "rcheck", "rwrap")
            /\ got' = [i \in 1 .. Readable(n) |-> bytes[rp + i - 1]]
            /\ rp' = rp + Readable(n)
            /\ UNCHANGED lock
       \/ /\ Go(f, "rcheck", "open") /\ lock' = Nobody       \* -EFAULT
          /\ UNCHANGED <<got, rp>>
    /\ UNCHANGED <<memVars, wp, bytes, inq, outq>>

(* Nothing to read: -EAGAIN, or to sleep. *)
ReadEmpty(f) ==
    /\ rp = wp
    /\ Go(f, "rcheck", "open") \/ Go(f, "rcheck", "rwait")
    /\ lock' = Nobody
    /\ UNCHANGED <<memVars, rp, wp, bytes, inq, outq, got>>

ReadWrap(f) ==
    /\ Go(f, "rwrap", "rwake")
    /\ rp' = IF rp = buffersize THEN 0 ELSE rp
    /\ lock' = Nobody
    /\ UNCHANGED <<memVars, wp, bytes, inq, outq, got>>

ReadWake(f) ==
    /\ Go(f, "rwake", "open")
    /\ outq' = {}
    /\ UNCHANGED <<memVars, rp, wp, bytes, lock, inq, got>>

(* wait_event_interruptible: look, queue up, look again, sleep. *)
ReadWait(f) ==
    /\ Go(f, "rwait", IF rp # wp THEN "rlock" ELSE "rqueue")
    /\ UNCHANGED <<memVars, rp, wp, bytes, lock, inq, outq, got>>

ReadQueue(f) ==
    /\ Go(f, "rqueue", "rcond")
    /\ inq' = inq \cup {f}
    /\ UNCHANGED <<memVars, rp, wp, bytes, lock, outq, got>>

Nothing_NotAgain == TRUE                          \* slip: sleeps unlooked
Nothing == rp = wp

ReadCond(f) ==
    /\ IF Nothing THEN Go(f, "rcond", "rsleep") /\ UNCHANGED inq
                  ELSE Go(f, "rcond", "rlock") /\ inq' = inq \ {f}
    /\ UNCHANGED <<memVars, rp, wp, bytes, lock, outq, got>>

ReadWoken(f) ==
    /\ f \notin inq /\ Go(f, "rsleep", "rwait")
    /\ UNCHANGED <<memVars, rp, wp, bytes, lock, inq, outq, got>>

(***************************************************************************)
(* scull_p_write and scull_getwritespace.                                  *)
(***************************************************************************)
Writable(n) == Smaller(Smaller(n, spacefree),
                       IF wp >= rp THEN buffersize - wp ELSE rp - wp - 1)

WriteData(f) ==
    /\ spacefree # 0
    /\ \/ \E d \in Data :
            /\ Go(f, "wcheck", "wwrap")
            /\ bytes' = [i \in DOMAIN bytes |->
                            IF i \in wp .. wp + Writable(Len(d)) - 1
                            THEN d[i - wp + 1] ELSE bytes[i]]
            /\ wp' = wp + Writable(Len(d))
            /\ UNCHANGED lock
       \/ /\ Go(f, "wcheck", "open") /\ lock' = Nobody       \* -EFAULT
          /\ UNCHANGED <<bytes, wp>>
    /\ UNCHANGED <<memVars, rp, inq, outq, got>>

WriteFull(f) ==
    /\ spacefree = 0
    /\ Go(f, "wcheck", "open") \/ Go(f, "wcheck", "wwait")
    /\ lock' = Nobody
    /\ UNCHANGED <<memVars, rp, wp, bytes, inq, outq, got>>

WriteWrap(f) ==
    /\ Go(f, "wwrap", "wwake")
    /\ wp' = IF wp = buffersize THEN 0 ELSE wp
    /\ lock' = Nobody
    /\ UNCHANGED <<memVars, rp, bytes, inq, outq, got>>

WriteWake(f) ==
    /\ Go(f, "wwake", "open")
    /\ inq' = {}
    /\ UNCHANGED <<memVars, rp, wp, bytes, lock, outq, got>>

WriteWait(f) ==
    /\ Go(f, "wwait", "wcond")
    /\ outq' = outq \cup {f}
    /\ UNCHANGED <<memVars, rp, wp, bytes, lock, inq, got>>

NoSpace_NotAgain == TRUE                          \* slip: sleeps unlooked
NoSpace == spacefree = 0

WriteCond(f) ==
    /\ IF NoSpace THEN Go(f, "wcond", "wsleep") /\ UNCHANGED outq
                  ELSE Go(f, "wcond", "wlock") /\ outq' = outq \ {f}
    /\ UNCHANGED <<memVars, rp, wp, bytes, lock, inq, got>>

WriteWoken(f) ==
    /\ f \notin outq /\ Go(f, "wsleep", "wlock")
    /\ UNCHANGED <<memVars, rp, wp, bytes, lock, inq, outq, got>>

(***************************************************************************)
(* scull_p_poll, one critical section, for a process that waits for input  *)
(* ("pollin") or for room ("pollout").  It stands in both queues, and what *)
(* empties either one has it poll again.                                   *)
(***************************************************************************)
HasPolled(s) == IF s = "pollin" THEN rp # wp ELSE spacefree # 0

PollSleeps(f, s) ==
    /\ lock = Nobody /\ ~HasPolled(s)
    /\ pc[f] = s => f \notin inq \cap outq
    /\ \/ s = "pollin" /\ "r" \in mode[f]
       \/ s = "pollout" /\ "w" \in mode[f]
    /\ Go(f, "open", s) \/ Go(f, s, s)
    /\ inq' = inq \cup {f} /\ outq' = outq \cup {f}
    /\ UNCHANGED <<memVars, rp, wp, bytes, lock, got>>

PollReturns(f, s) ==
    /\ lock = Nobody /\ HasPolled(s) /\ f \notin inq \cap outq
    /\ Go(f, s, "open")
    /\ inq' = inq \ {f} /\ outq' = outq \ {f}
    /\ UNCHANGED <<memVars, rp, wp, bytes, lock, got>>

Inside(f) ==
    \/ ReadData(f)  \/ ReadEmpty(f) \/ ReadWrap(f)  \/ ReadWake(f)
    \/ ReadWait(f)  \/ ReadQueue(f) \/ ReadCond(f) \/ ReadWoken(f)
    \/ WriteData(f) \/ WriteFull(f) \/ WriteWrap(f) \/ WriteWake(f)
    \/ WriteWait(f) \/ WriteCond(f) \/ WriteWoken(f)

Next ==
    \/ \E n \in Sizes : SetSize(n)
    \/ \E f \in File :
        \/ \E m \in Modes : Open(f, m)
        \/ \E s \in {"pollin", "pollout"} : PollSleeps(f, s) \/ PollReturns(f, s)
        \/ Release(f) \/ Call(f) \/ Lock(f) \/ Interrupted(f) \/ Inside(f)

Spec == Init /\ [][Next]_vars

(* Whoever is inside a call runs on, and the mutex goes to its waiters in turn. *)
FairSpec == Spec /\ \A f \in File : WF_vars(Inside(f)) /\ SF_vars(Lock(f))

-----------------------------------------------------------------------------
(***************************************************************************)
(* scull_p_open and scull_p_release: pointers and counters are in their    *)
(* ranges, the buffer is there for everybody who holds the lock to use it, *)
(* and it goes away when the last reader or writer does.                   *)
(***************************************************************************)
BufferOfUsers ==
    /\ TypeOK
    /\ \A f \in File : pc[f] # "closed" => allocated > 0
    /\ allocated > 0 => nreaders + nwriters > 0

(***************************************************************************)
(* No wake-up is lost, in read and write or in poll: who is asleep waiting *)
(* for data while there is some, or for room while there is some, is about *)
(* to be woken by whoever made it so.  Only an open that threw bytes away  *)
(* made room and told nobody.                                              *)
(***************************************************************************)
AsleepIn  == {f \in inq  : pc[f] = "rsleep" \/ (pc[f] = "pollin" /\ f \in outq)}
AsleepOut == {f \in outq : pc[f] = "wsleep" \/ (pc[f] = "pollout" /\ f \in inq)}

NoLostWakeup ==
    /\ AsleepIn # {} /\ rp # wp => \E f \in File : pc[f] \in {"wwrap", "wwake"}
    /\ AsleepOut # {} /\ spacefree > 0 =>
          emptied \/ \E f \in File : pc[f] \in {"rwrap", "rwake"}

(***************************************************************************)
(* scull_p_read and scull_p_write: the pipe is a FIFO of at most           *)
(* buffersize - 1 bytes, whatever is read and written in pieces around the *)
(* end of the buffer, and only opening and closing it throws bytes away.   *)
(***************************************************************************)
Held == IF allocated = 0 THEN 0 ELSE (wp + buffersize - rp) % buffersize

Fifo == INSTANCE ByteFifo WITH
    Capacity <- Largest - 1,
    queue <- [i \in 1 .. Held |-> bytes[(rp + i - 1) % buffersize]]

ImplementsFifo ==
    /\ Fifo!Init
    /\ [][IF mode' # mode THEN Fifo!Clear ELSE Fifo!Put \/ Fifo!Get]_(Fifo!vars)

(***************************************************************************)
(* A reader that sleeps on a pipe with data in it gets up.                 *)
(***************************************************************************)
ReaderWakes == \A f \in File : pc[f] = "rsleep" /\ rp # wp ~> pc[f] # "rsleep"

-----------------------------------------------------------------------------
(* The code's texts also state what follows, which the code does not keep: *)
(* TLC refutes each of them.                                               *)

(***************************************************************************)
(* dev->end is the "end of buf" (pipe.c:40): no pointer leaves the memory. *)
(***************************************************************************)
EndIsEnd == allocated > 0 => buffersize <= allocated

(***************************************************************************)
(* "Wait for space for writing" (pipe.c:162): a writer that sleeps on a    *)
(* pipe with space in it gets up.                                          *)
(***************************************************************************)
WriterWakes == \A f \in File : pc[f] = "wsleep" /\ spacefree > 0 ~> pc[f] # "wsleep"
=============================================================================
