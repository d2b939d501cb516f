----------------------------- MODULE AesdSocket -----------------------------
(***************************************************************************)
(* server/aesdsocket.c, built with USE_AESD_CHAR_DEVICE: the main thread   *)
(* sets a socket up, may leave its parent to become a daemon, accepts      *)
(* connections and starts one thread for each; a thread receives a packet, *)
(* writes it to /dev/aesdchar, and sends back what the device holds, under *)
(* data_mutex.  The device is the LineDevice that the driver is shown to   *)
(* implement (AesdChar).                                                   *)
(*                                                                         *)
(* A connection stands for its client, its thread, its slist_data_s and    *)
(* its open file of the device.  Its bytes are the connection itself, so   *)
(* that replies tell whose lines they carry.                               *)
(***************************************************************************)
EXTENDS Naturals, Sequences, FiniteSets

CONSTANTS
    Conn,       \* connections
    Tid,        \* values of pthread_t, which the library uses again
    Lines,      \* lines the device keeps
    NL,         \* the newline byte
    Nobody,     \* no thread
    MaxPart,    \* bound on the bytes of a packet before its newline comes
    Chunks,     \* what recv returns: subset of {"line", "part", "empty"}
    Faults      \* what can fail: subset of FaultKinds

SetUpFaults == {"mutex", "socket", "setsockopt", "bind", "fork", "session", "listen"}

FaultKinds == SetUpFaults \cup {
               "parent",   \* a signal reaches the process that forked
               "close",    \* a client closes before its newline
               "open", "write", "send", "malloc", "create", "accept",
               "reset",    \* recv returns -1
               "garbage"}  \* strchr finds a newline in uninitialised memory

ASSUME FaultsAssumption == Faults \subseteq FaultKinds
ASSUME ChunksAssumption == Chunks \subseteq {"line", "part", "empty"}
ASSUME NobodyAssumption == Nobody \notin Conn
ASSUME NewlineAssumption == NL \notin Conn \cup {Nobody}
ASSUME LinesAssumption == Lines \in Nat \ {0}
ASSUME PartAssumption == MaxPart \in Nat

VARIABLES
    mpc,        \* where main is
    sock,       \* the file sockfd names: "stdin" while it is 0, "none" if -1
    parent,     \* the process that forked has not left yet
    iter,       \* main's datap: the entries its SLIST_FOREACH has still to visit
    list,       \* the linked list, head first
    signal_exit_code,
    tid,        \* tid[c]: thread_param.mythread
    holder,     \* holder[i]: the thread, not yet joined, whose id is i
    pc,         \* pc[c]: where the thread of c is
    thread_complete,
    owner,      \* holder of data_mutex
    end_pos,    \* the global count of bytes written
    rd,         \* rd[c]: read_buffer
    new_line,   \* new_line[c]: the local is not NULL
    wr,         \* wr[c]: write_buffer
    sent,       \* sent[c]: what the client of c was sent
    lines, partial, pos, answer  \* the device

setUp == <<sock, parent>>
mainVars == <<mpc, setUp, iter, list, signal_exit_code, tid, holder>>
dev  == <<lines, partial, pos, answer>>
bufs == <<rd, new_line, wr, sent>>
vars == <<mainVars, pc, thread_complete, owner, end_pos, bufs, dev>>

Device == INSTANCE LineDevice WITH
    N <- Lines, Handle <- Conn, Data <- {}, Count <- {1}, Garbage <- Nobody

Junk == "uninitialised"          \* mythread before pthread_create sets it

ASSUME TidAssumption == Junk \notin Tid

Init ==
    /\ mpc = "signal" /\ sock = "stdin" /\ parent = FALSE
    /\ iter = <<>> /\ list = <<>>
    /\ signal_exit_code = FALSE
    /\ tid = [c \in Conn |-> Junk]
    /\ holder = [i \in Tid |-> Nobody]
    /\ pc = [c \in Conn |-> "none"]
    /\ thread_complete = [c \in Conn |-> FALSE]
    /\ owner = Nobody
    /\ end_pos = 0
    /\ rd = [c \in Conn |-> <<>>] /\ wr = [c \in Conn |-> <<>>]
    /\ new_line = [c \in Conn |-> FALSE]
    /\ sent = [c \in Conn |-> <<>>]
    /\ Device!Init

-----------------------------------------------------------------------------
(***************************************************************************)
(* The thread of connection c (thread_func).                               *)
(***************************************************************************)
Running == mpc \notin {"exited", "crashed", "killed", "returned"}

Go(c, from, to) == pc[c] = from /\ pc' = [pc EXCEPT ![c] = to]

OpenDevice(c) ==
    /\ \/ Go(c, "open", "recv")
       \/ "open" \in Faults /\ Go(c, "open", "exited")
    /\ UNCHANGED <<mainVars, thread_complete, owner, end_pos, bufs, dev>>

(* The receive loop: until the client is done or a newline is seen. *)
Bytes(c, chunk) == CASE chunk = "line"  -> <<c, NL>>
                     [] chunk = "part"  -> <<c>>
                     [] chunk = "empty" -> <<NL>>

Recv(c) ==
    /\ \E chunk \in Chunks :
        /\ chunk = "part" => Len(rd[c]) < MaxPart
        /\ rd' = [rd EXCEPT ![c] = @ \o Bytes(c, chunk)]
        /\ \/ chunk # "part" /\ Go(c, "recv", "lockwrite")
           \/ chunk = "part" /\ Go(c, "recv", "recv")
           \/ chunk = "part" /\ "garbage" \in Faults /\ Go(c, "recv", "lockwrite")
    /\ UNCHANGED <<mainVars, thread_complete, owner, end_pos, new_line, wr, sent, dev>>

RecvClosed(c) ==
    /\ "close" \in Faults
    /\ Go(c, "recv", "lockwrite")
    /\ UNCHANGED <<mainVars, thread_complete, owner, end_pos, bufs, dev>>

(* recv's -1 becomes the length of a memcpy, which faults; so does a buffer*)
(* whose malloc or realloc failed, as the thread goes on with NULL.        *)
Crash(c) ==
    /\ \/ "reset" \in Faults /\ pc[c] = "recv"
       \/ "malloc" \in Faults /\ pc[c] \in {"recv", "read"}
    /\ mpc' = "crashed"
    /\ UNCHANGED <<setUp, iter, list, signal_exit_code, tid, holder, pc, thread_complete,
                   owner, end_pos, bufs, dev>>

MutexFree_Ignored == TRUE                         \* slip: no lock taken
MutexFree == owner = Nobody

LockWrite(c) ==
    /\ MutexFree /\ owner' = c
    /\ Go(c, "lockwrite", "write")
    /\ UNCHANGED <<mainVars, thread_complete, end_pos, bufs, dev>>

(* write: everything, or an error path that leaves without unlocking. *)
AfterShortWrite_Continues == "publish"            \* slip: error not acted on
AfterShortWrite == "exited"

Write(c) ==
    /\ \/ /\ Go(c, "write", "publish")
          /\ Device!Write(c, rd[c], Len(rd[c]))
       \/ /\ "write" \in Faults
          /\ Go(c, "write", AfterShortWrite)
          /\ \/ UNCHANGED dev
             \/ Device!FailedWrite
             \/ \E k \in 0 .. Len(rd[c]) - 1 : Device!Write(c, rd[c], k)
    /\ UNCHANGED <<mainVars, thread_complete, owner, end_pos, bufs>>

Unlock_Forgotten == UNCHANGED owner               \* slip: no unlock
Unlock == owner' = Nobody

Publish(c) ==
    /\ Go(c, "publish", "more")
    /\ end_pos' = end_pos + Len(rd[c])
    /\ Unlock
    /\ UNCHANGED <<mainVars, thread_complete, bufs, dev>>

(* while (bytes < end_pos), read with no lock; bytes is what was sent. *)
Remaining_Late(c) == Len(sent[c]) <= end_pos      \* slip: one read too many
Remaining(c) == Len(sent[c]) < end_pos

More(c) ==
    /\ IF Remaining(c)
       THEN \/ Go(c, "more", "lockread")
            \/ "malloc" \in Faults /\ Go(c, "more", "exited")
       ELSE Go(c, "more", "finish")
    /\ wr' = [wr EXCEPT ![c] = <<>>]
    /\ UNCHANGED <<mainVars, thread_complete, owner, end_pos, rd, new_line, sent, dev>>

LockRead(c) ==
    /\ MutexFree /\ owner' = c
    /\ Go(c, "lockread", "read")
    /\ UNCHANGED <<mainVars, thread_complete, end_pos, bufs, dev>>

(* One byte, or none at the end of the device, which rewinds the file.  The*)
(* newline is looked for only when two bytes are there, and the answer of  *)
(* an earlier round of the outer loop is never cleared.                    *)
ReadByte(c) ==
    /\ pc[c] = "read"
    /\ Device!Read(c, 1)
    /\ wr' = [wr EXCEPT ![c] = @ \o answer']
    /\ LET two   == Len(wr'[c]) > 1
           found == Device!Occurs(NL, wr'[c])
       IN  \E seen \in IF two THEN {found, found \/ "garbage" \in Faults}
                             ELSE {new_line[c]} :
             /\ new_line' = [new_line EXCEPT ![c] = seen]
             /\ IF seen THEN Go(c, "read", "send") /\ Unlock
                        ELSE UNCHANGED <<pc, owner>>
    /\ UNCHANGED <<mainVars, thread_complete, end_pos, rd, sent>>

Send(c) ==
    /\ \/ /\ Go(c, "send", "more")
          /\ sent' = [sent EXCEPT ![c] = @ \o wr[c]]
       \/ /\ "send" \in Faults
          /\ Go(c, "send", "exited")
          /\ UNCHANGED sent
    /\ UNCHANGED <<mainVars, thread_complete, owner, end_pos, rd, new_line, wr, dev>>

Finish(c) ==
    /\ Go(c, "finish", "exited")
    /\ thread_complete' = [thread_complete EXCEPT ![c] = TRUE]
    /\ UNCHANGED <<mainVars, owner, end_pos, bufs, dev>>

Thread(c) ==
    /\ Running
    /\ \/ OpenDevice(c) \/ Recv(c) \/ RecvClosed(c) \/ Crash(c)
       \/ LockWrite(c) \/ Write(c) \/ Publish(c)
       \/ More(c) \/ LockRead(c) \/ ReadByte(c) \/ Send(c) \/ Finish(c)

-----------------------------------------------------------------------------
(***************************************************************************)
(* The main thread sets up.  A call that fails goes to the cleanup label,  *)
(* but those of the daemon just return.                                    *)
(***************************************************************************)
Threads == <<iter, list, tid, holder, pc, thread_complete, owner, end_pos, bufs, dev>>

Call(name, next, socket) ==
    /\ mpc = name
    /\ \/ mpc' = next /\ sock' = socket
       \/ name \in Faults /\ mpc' = "cleanup" /\ UNCHANGED sock
    /\ UNCHANGED <<parent, signal_exit_code, Threads>>

InstallHandlers == Call("signal", "mutex", sock)
InitMutex       == Call("mutex", "socket", sock)
SetSockOpt      == Call("setsockopt", "bind", sock)
Bind            == Call("bind", "daemon", sock)
Listen          == Call("listen", "while", "listening")

Socket ==
    /\ mpc = "socket"
    /\ \/ mpc' = "setsockopt" /\ sock' = "open"
       \/ "socket" \in Faults /\ mpc' = "cleanup" /\ sock' = "none"
    /\ UNCHANGED <<parent, signal_exit_code, Threads>>

(* With -d: fork, whose parent exits, then setsid and chdir.  Until it does*)
(* all it can do is catch a signal.                                        *)
Daemonise ==
    /\ mpc = "daemon"
    /\ \/ mpc' = "listen" /\ UNCHANGED parent
       \/ mpc' = "session" /\ parent' = ("parent" \in Faults)
       \/ "fork" \in Faults /\ mpc' = "returned" /\ UNCHANGED parent
    /\ UNCHANGED <<sock, signal_exit_code, Threads>>

Session ==
    /\ mpc = "session"
    /\ mpc' = "listen" \/ ("session" \in Faults /\ mpc' = "returned")
    /\ UNCHANGED <<setUp, signal_exit_code, Threads>>

SetUp == InstallHandlers \/ InitMutex \/ Socket \/ SetSockOpt \/ Bind \/ Listen
         \/ Daemonise \/ Session

(***************************************************************************)
(* Signals.  The handler shuts the socket down, which makes accept fail if *)
(* the socket listens, and does nothing to it before.  The parent has the  *)
(* same handler and the same socket until it exits.                        *)
(***************************************************************************)
ShutDown_Missed == sock                           \* slip: accept not woken
ShutDown == IF sock = "listening" THEN "shut" ELSE sock

Signal ==
    /\ Running /\ ~signal_exit_code
    /\ IF mpc = "signal" THEN mpc' = "killed" /\ UNCHANGED <<sock, signal_exit_code>>
       ELSE signal_exit_code' = TRUE /\ sock' = ShutDown /\ UNCHANGED mpc
    /\ UNCHANGED <<parent, Threads>>

ParentSignal ==
    /\ parent
    /\ sock' = ShutDown
    /\ UNCHANGED <<mpc, parent, signal_exit_code, Threads>>

ParentExit ==
    /\ parent /\ parent' = FALSE
    /\ UNCHANGED <<mpc, sock, signal_exit_code, Threads>>

-----------------------------------------------------------------------------
(***************************************************************************)
(* The main thread serves.  pthread_join waits for the thread that has the *)
(* id now; an id no thread has, or none was ever stored, is undefined: the *)
(* library returns an error, or the process crashes on a value it never set*)
(***************************************************************************)
While ==
    /\ mpc = "while"
    /\ IF signal_exit_code THEN mpc' = "cleanup" /\ iter' = list
       ELSE mpc' = "accept" /\ UNCHANGED iter
    /\ UNCHANGED <<setUp, list, signal_exit_code, tid, holder, pc, thread_complete, owner,
                   end_pos, bufs, dev>>

Accept(c) ==
    /\ mpc = "accept" /\ sock = "listening"
    /\ pc[c] = "none" /\ tid[c] = Junk /\ c \notin {list[k] : k \in 1 .. Len(list)}
    /\ list' = <<c>> \o list
    /\ \/ \E i \in {i \in Tid : holder[i] = Nobody} :
            /\ tid' = [tid EXCEPT ![c] = i]
            /\ holder' = [holder EXCEPT ![i] = c]
            /\ pc' = [pc EXCEPT ![c] = "open"]
            /\ mpc' = "scan"
       \/ /\ "create" \in Faults
          /\ mpc' = "cleanup"
          /\ UNCHANGED <<tid, holder, pc>>
    /\ iter' = list'
    /\ UNCHANGED <<setUp, signal_exit_code, thread_complete, owner, end_pos, bufs, dev>>

(* The malloc of the list entry is not checked either. *)
AcceptNoMem ==
    /\ mpc = "accept" /\ sock = "listening" /\ "malloc" \in Faults
    /\ mpc' = "crashed"
    /\ UNCHANGED <<setUp, signal_exit_code, Threads>>

AcceptFails ==
    /\ mpc = "accept" /\ (sock # "listening" \/ "accept" \in Faults)
    /\ mpc' = "cleanup"
    /\ iter' = list
    /\ UNCHANGED <<setUp, list, signal_exit_code, tid, holder, pc, thread_complete, owner,
                   end_pos, bufs, dev>>

Join(c) ==
    \/ /\ tid[c] = Junk
       /\ UNCHANGED <<mpc, holder>> \/ (mpc' = "crashed" /\ UNCHANGED holder)
    \/ /\ tid[c] # Junk /\ holder[tid[c]] = Nobody
       /\ UNCHANGED <<mpc, holder>>
    \/ /\ tid[c] # Junk /\ holder[tid[c]] # Nobody
       /\ pc[holder[tid[c]]] = "exited"
       /\ holder' = [holder EXCEPT ![tid[c]] = Nobody]
       /\ UNCHANGED mpc

(* After each accept: join the entries whose thread says it is complete.   *)
Joinable_Any(c) == TRUE                           \* slip: flag not looked at
Joinable(c) == thread_complete[c]

Scan ==
    /\ mpc = "scan" /\ iter # <<>>
    /\ IF Joinable(Head(iter)) THEN Join(Head(iter)) ELSE UNCHANGED <<mpc, holder>>
    /\ iter' = Tail(iter)
    /\ UNCHANGED <<setUp, list, signal_exit_code, tid, pc, thread_complete, owner, end_pos,
                   bufs, dev>>

ScanDone ==
    /\ mpc = "scan" /\ iter = <<>>
    /\ mpc' = "while"
    /\ UNCHANGED <<setUp, signal_exit_code, Threads>>

(* The cleanup label: join every entry, free the list, close, leave. *)
JoinAtExit_Skipped(c) == UNCHANGED <<mpc, holder>>  \* slip: no join
JoinAtExit(c) == Join(c)

Cleanup ==
    /\ mpc = "cleanup" /\ iter # <<>>
    /\ JoinAtExit(Head(iter))
    /\ iter' = Tail(iter)
    /\ UNCHANGED <<setUp, list, signal_exit_code, tid, pc, thread_complete, owner, end_pos,
                   bufs, dev>>

CloseAll == sock' = IF sock \in {"stdin", "none"} THEN sock ELSE "closed"

Exit ==
    /\ mpc = "cleanup" /\ iter = <<>>
    /\ mpc' = "exited"
    /\ list' = <<>> /\ CloseAll
    /\ UNCHANGED <<parent, iter, signal_exit_code, tid, holder, pc, thread_complete, owner,
                   end_pos, bufs, dev>>

Main == SetUp \/ While \/ AcceptFails \/ Scan \/ ScanDone \/ Cleanup \/ Exit

Next ==
    \/ Main \/ Signal \/ ParentSignal \/ ParentExit \/ AcceptNoMem
    \/ \E c \in Conn : Accept(c) \/ Thread(c)

Spec == Init /\ [][Next]_vars

(***************************************************************************)
(* Fairness: every thread keeps running while it can.  data_mutex is not   *)
(* fair, so a thread is not promised the mutex, only that it moves if it   *)
(* can for ever.  Clients send what they announced.  Nothing makes a new   *)
(* client connect, or the signal come.                                     *)
(***************************************************************************)
FairSpec == Spec /\ WF_vars(Main) /\ \A c \in Conn : WF_vars(Thread(c))

-----------------------------------------------------------------------------
InMutex == {c \in Conn : pc[c] \in {"write", "publish", "read"}}

TypeOK ==
    /\ mpc \in {"signal", "mutex", "socket", "setsockopt", "bind", "daemon", "session", "listen",
               "while", "accept", "scan", "cleanup", "exited", "crashed", "killed", "returned"}
    /\ sock \in {"stdin", "none", "open", "listening", "shut", "closed"} /\ parent \in BOOLEAN
    /\ iter \in Seq(Conn) /\ list \in Seq(Conn)
    /\ signal_exit_code \in BOOLEAN
    /\ tid \in [Conn -> Tid \cup {Junk}]
    /\ holder \in [Tid -> Conn \cup {Nobody}]
    /\ pc \in [Conn -> {"none", "open", "recv", "lockwrite", "write", "publish",
                        "more", "lockread", "read", "send", "finish", "exited"}]
    /\ thread_complete \in [Conn -> BOOLEAN]
    /\ owner \in Conn \cup {Nobody}
    /\ end_pos \in Nat
    /\ new_line \in [Conn -> BOOLEAN]
    /\ \A c \in Conn : {rd[c], wr[c], sent[c]} \subseteq Seq(Conn \cup {NL, Nobody})

(***************************************************************************)
(* main's own order, where no call fails: it stops serving only for a      *)
(* signal (569-609), whenever that comes, also while the socket is not yet *)
(* there; and as long as the library has given no id twice, "completed     *)
(* threads" (627) are all that the accept loop joins.                      *)
(***************************************************************************)
StopsWhenAsked ==
    Faults = {} /\ mpc \in {"cleanup", "exited"} => signal_exit_code

JoinsCompleted ==
    /\ mpc = "scan" /\ iter # <<>> /\ Joinable(Head(iter))
    /\ \A c, d \in Conn : tid[c] = tid[d] /\ c # d => tid[c] = Junk
    => thread_complete[Head(iter)]

MainInv == TypeOK /\ StopsWhenAsked /\ JoinsCompleted

(***************************************************************************)
(* data_mutex: a thread between pthread_mutex_lock and unlock holds it, and*)
(* nobody else is in there.                                                *)
(***************************************************************************)
MutualExclusion == \A c \in InMutex : owner = c

Joined(ls) == LET upTo[k \in 0 .. Len(ls)] ==
                      IF k = 0 THEN <<>> ELSE upTo[k - 1] \o ls[k]
              IN  upTo[Len(ls)]

File == Joined(lines)

(***************************************************************************)
(* end_pos, which tells the reading loops how far to go, never promises    *)
(* bytes the device did not accept, whichever write fails (192, 311, 329). *)
(***************************************************************************)
EndPosBehindDevice == Len(lines) < Lines => end_pos <= Len(File) + Len(partial)

(***************************************************************************)
(* While nothing was evicted and every line has two bytes, a client gets   *)
(* the file from its start and without repetitions, however the threads    *)
(* interleave, and its own packet is in what it got when its thread ends.  *)
(***************************************************************************)
IsPrefixOf(s, t) == Len(s) <= Len(t) /\ s = SubSeq(t, 1, Len(s))

ReplyIsTheFile == Len(lines) < Lines =>
    \A c \in Conn :
        /\ IsPrefixOf(sent[c], File)
        /\ thread_complete[c] => \E k \in 1 .. Len(sent[c]) : sent[c][k] = c

(***************************************************************************)
(* main frees the list, and destroys the mutex, when no thread can still   *)
(* use them.                                                               *)
(***************************************************************************)
NothingRunsAtExit ==
    mpc = "exited" => \A c \in Conn : pc[c] \in {"none", "exited"}

(***************************************************************************)
(* Every accepted client is served to the end.                             *)
(***************************************************************************)
EveryClientServed == \A c \in Conn : pc[c] = "open" ~> thread_complete[c]

(***************************************************************************)
(* "function to gracefully shut down everything" (87): after SIGINT or     *)
(* SIGTERM the server exits.                                               *)
(***************************************************************************)
SignalStopsServer == signal_exit_code ~> mpc = "exited"

-----------------------------------------------------------------------------
(* The code's texts also state what follows, which the code does not keep: *)
(* TLC refutes each of them.                                               *)

(***************************************************************************)
(* "close server socket" (aesdsocket.c:95): not when the mutex could not be*)
(* made, as sockfd is then still 0; nor when a step of the daemon fails.   *)
(***************************************************************************)
ClosesSocket == mpc \in {"exited", "returned"} => sock \in {"closed", "none"}

(***************************************************************************)
(* "till we get a signal" (596): not when it was the process that forked   *)
(* which got one.                                                          *)
(***************************************************************************)
ServesTillSignal == Faults = {"parent"} /\ mpc = "cleanup" => signal_exit_code

(***************************************************************************)
(* "execute read and send untill end of file reached" (aesdsocket.c:328):  *)
(* a reply never has more bytes than the file.                             *)
(***************************************************************************)
ReplyEndsWithFile == \A c \in Conn : Len(sent[c]) <= Len(File)

(***************************************************************************)
(* "search through the linked list to check completed threads" (627): the  *)
(* join in the accept loop is only for a thread that is complete.          *)
(***************************************************************************)
ScanJoinsCompleted ==
    mpc = "scan" /\ iter # <<>> /\ Joinable(Head(iter)) =>
        LET c == Head(iter)
        IN  holder[tid[c]] # Nobody => thread_complete[holder[tid[c]]]
=============================================================================
