---------------------------- MODULE ScullAccess ----------------------------
(***************************************************************************)
(* scull/access.c: four devices that differ from the bare one in who may   *)
(* open them: one file at a time (single), one user at a time (uid, which  *)
(* refuses others, and wuid, which makes them wait), and a device of its   *)
(* own for every terminal (priv).  A section under a spinlock is one step, *)
(* but for the one that allocates.                                         *)
(*                                                                         *)
(* Inside an open device only what its mutex is about is left: a call holds*)
(* it, and the trim of an open for writing does not take it.               *)
(***************************************************************************)
EXTENDS Integers, FiniteSets

CONSTANTS Process, User, Nobody,
    uid, euid,   \* the user of a process, and the one it acts for
    Root,        \* the processes with CAP_DAC_OVERRIDE
    tty,         \* the terminal of a process
    NoTty

ASSUME ProcessAssumption ==
    /\ IsFiniteSet(Process)
    /\ uid \in [Process -> User] /\ euid \in [Process -> User]
    /\ Root \subseteq Process /\ Nobody \notin Process \cup User

VARIABLES
    s_available,     \* scull_s_available
    count, owner,    \* scull_u_count, scull_w_count, scull_u_owner, scull_w_owner
    c_lock, c_list,  \* who holds scull_c_lock; the cloned devices <<key, n>>
    waiting,         \* scull_w_wait
    pc, dev          \* of a process: where it is, and <<name or key, n>> of its device

gate == <<s_available, count, owner, c_lock, c_list, waiting>>
vars == <<gate, pc, dev>>

Init ==
    /\ s_available = 1
    /\ count = [d \in {"uid", "wuid"} |-> 0]
    /\ owner = [d \in {"uid", "wuid"} |-> Nobody]
    /\ c_lock = Nobody /\ c_list = {} /\ waiting = {}
    /\ pc = [p \in Process |-> "idle"]
    /\ dev = [p \in Process |-> Nobody]

Go(p, from, to) == pc[p] = from /\ pc' = [pc EXCEPT ![p] = to]

(* The device is p's: "everything else is copied from the bare device".    *)
Opened(p, from, d, n) ==
    /\ dev' = [dev EXCEPT ![p] = <<d, n>>]
    /\ Go(p, from, "open") \/ Go(p, from, "trim")    \* O_WRONLY trims it first

Leave(p) == Go(p, "open", "idle") /\ dev' = [dev EXCEPT ![p] = Nobody]

-----------------------------------------------------------------------------
(* The single-open device. *)
DecAndTest_NotBelow == s_available >= 0           \* slip: tested before
DecAndTest == s_available = 1                     \* atomic_dec_and_test

SOpen(p) ==
    /\ DecAndTest /\ Opened(p, "idle", "single", 0)
    /\ s_available' = s_available - 1
    /\ UNCHANGED <<count, owner, c_lock, c_list, waiting>>

SBusy(p) ==
    /\ ~DecAndTest /\ Go(p, "idle", "s_busy")
    /\ s_available' = s_available - 1
    /\ UNCHANGED <<count, owner, c_lock, c_list, waiting, dev>>

Back_Lost == s_available                          \* slip: taken and kept
Back == s_available + 1

SBack(p) ==                                       \* and -EBUSY
    /\ Go(p, "s_busy", "idle")
    /\ s_available' = Back
    /\ UNCHANGED <<count, owner, c_lock, c_list, waiting, dev>>

SRelease(p) ==
    /\ dev[p] = <<"single", 0>> /\ Leave(p)
    /\ s_available' = s_available + 1
    /\ UNCHANGED <<count, owner, c_lock, c_list, waiting>>

-----------------------------------------------------------------------------
(* The devices of one user, the owner, and of root. *)
Available(p, d) ==
    \/ count[d] = 0
    \/ owner[d] \in {uid[p], euid[p]}
    \/ p \in Root

Owner_Last(p, d) == uid[p]                        \* slip: grabbed every time
Owner(p, d) == IF count[d] = 0 THEN uid[p] ELSE owner[d]

Grab(p, from, d) ==
    /\ Available(p, d) /\ Opened(p, from, d, 0)
    /\ owner' = [owner EXCEPT ![d] = Owner(p, d)]
    /\ count' = [count EXCEPT ![d] = @ + 1]

UOpen(p) ==
    /\ Grab(p, "idle", "uid")
    /\ UNCHANGED <<s_available, c_lock, c_list, waiting>>

URelease(p) ==
    /\ dev[p] = <<"uid", 0>> /\ Leave(p)
    /\ count' = [count EXCEPT !["uid"] = @ - 1]
    /\ UNCHANGED <<s_available, owner, c_lock, c_list, waiting>>

(* Refused, an open has done nothing (O_NONBLOCK) or goes to wait_event:   *)
(* queue up, look without the lock, sleep; once awake, look again.         *)
WOpen(p) ==
    /\ Grab(p, "idle", "wuid") \/ Grab(p, "w_again", "wuid")
    /\ UNCHANGED <<s_available, c_lock, c_list, waiting>>

WRefused(p) ==
    /\ ~Available(p, "wuid") /\ pc[p] \in {"idle", "w_again"}
    /\ pc' = [pc EXCEPT ![p] = "w_look"]
    /\ waiting' = waiting \cup {p}
    /\ UNCHANGED <<s_available, count, owner, c_lock, c_list, dev>>

WLook(p) ==
    /\ IF Available(p, "wuid")
       THEN Go(p, "w_look", "w_again") /\ waiting' = waiting \ {p}
       ELSE Go(p, "w_look", "w_sleep") /\ UNCHANGED waiting
    /\ UNCHANGED <<s_available, count, owner, c_lock, c_list, dev>>

WWoken(p) ==
    /\ p \notin waiting /\ Go(p, "w_sleep", "w_look")
    /\ waiting' = waiting \cup {p}
    /\ UNCHANGED <<s_available, count, owner, c_lock, c_list, dev>>

WGiveUp(p) ==                                     \* a signal: -ERESTARTSYS
    /\ Go(p, "w_sleep", "idle")
    /\ waiting' = waiting \ {p}
    /\ UNCHANGED <<s_available, count, owner, c_lock, c_list, dev>>

Last_Before == count["wuid"] = 0                  \* slip: temp read too early
Last == count'["wuid"] = 0

WRelease(p) ==
    /\ dev[p] = <<"wuid", 0>>
    /\ dev' = [dev EXCEPT ![p] = Nobody]
    /\ count' = [count EXCEPT !["wuid"] = @ - 1]
    /\ IF Last THEN Go(p, "open", "w_wake") ELSE Go(p, "open", "idle")
    /\ UNCHANGED <<s_available, owner, c_lock, c_list, waiting>>

WWake(p) ==
    /\ Go(p, "w_wake", "idle") /\ waiting' = {}
    /\ UNCHANGED <<s_available, count, owner, c_lock, c_list, dev>>

-----------------------------------------------------------------------------
(* The private devices; a process without a terminal has none. *)
Locked_Not == TRUE                                \* slip: the list not locked
Locked == c_lock = Nobody

Clones == 1 .. Cardinality(Process)   \* never more: a terminal needs one

COpen(p) ==
    /\ tty[p] # NoTty /\ Locked
    /\ \E n \in Clones : <<tty[p], n>> \in c_list /\ Opened(p, "idle", tty[p], n)
    /\ UNCHANGED gate

CMissing(p) ==
    /\ tty[p] # NoTty /\ Locked
    /\ ~ \E n \in Clones : <<tty[p], n>> \in c_list
    /\ Go(p, "idle", "c_new") /\ c_lock' = p
    /\ UNCHANGED <<s_available, count, owner, c_list, waiting, dev>>

(* The new device is trimmed here too, before anybody can know of it. *)
CAdd(p) == \E n \in Clones :
    /\ <<tty[p], n>> \notin c_list
    /\ c_list' = c_list \cup {<<tty[p], n>>}
    /\ Opened(p, "c_new", tty[p], n)
    /\ c_lock' = Nobody
    /\ UNCHANGED <<s_available, count, owner, waiting>>

CNoMemory(p) ==
    /\ Go(p, "c_new", "idle") /\ c_lock' = Nobody
    /\ UNCHANGED <<s_available, count, owner, c_list, waiting, dev>>

CRelease(p) ==
    /\ dev[p] \in c_list /\ Leave(p)
    /\ UNCHANGED gate

-----------------------------------------------------------------------------
(* Inside the device. *)
Trimmed(p) == Go(p, "trim", "open") /\ UNCHANGED <<gate, dev>>

Lock(p) ==
    /\ Go(p, "open", "call")
    /\ ~ \E q \in Process : pc[q] = "call" /\ dev[q] = dev[p]
    /\ UNCHANGED <<gate, dev>>

Unlock(p) == Go(p, "call", "open") /\ UNCHANGED <<gate, dev>>

(* The module goes only when nothing is open or being opened. *)
Cleanup ==
    /\ \A p \in Process : pc[p] = "idle"
    /\ c_list' = {}
    /\ UNCHANGED <<s_available, count, owner, c_lock, waiting, pc, dev>>

Inside(p) ==
    \/ SBack(p) \/ WLook(p) \/ WWoken(p) \/ WWake(p) \/ CAdd(p) \/ CNoMemory(p)
    \/ Trimmed(p) \/ Unlock(p)

Next ==
    \/ Cleanup
    \/ \E p \in Process :
        \/ SOpen(p) \/ SBusy(p) \/ SRelease(p)
        \/ UOpen(p) \/ URelease(p)
        \/ WOpen(p) \/ WRefused(p) \/ WGiveUp(p) \/ WRelease(p)
        \/ COpen(p) \/ CMissing(p) \/ CRelease(p)
        \/ Lock(p)  \/ Inside(p)

Spec == Init /\ [][Next]_vars

(* Whoever is inside a call of the module runs on. *)
FairSpec == Spec /\ \A p \in Process : WF_vars(Inside(p))

-----------------------------------------------------------------------------
Has(p, d) == dev[p] = <<d, 0>> /\ pc[p] \in {"trim", "open", "call"}
Users(d)  == {p \in Process : Has(p, d)}

(***************************************************************************)
(* Types; and the counts are those of the files that are open, each        *)
(* refused open of the single device having taken one more for a moment.   *)
(***************************************************************************)
TypeOK ==
    /\ owner \in [{"uid", "wuid"} -> User \cup {Nobody}]
    /\ c_lock \in Process \cup {Nobody}
    /\ waiting \subseteq Process

(***************************************************************************)
(* The counters count: those of the uid and wuid devices the files that are*)
(* open, and scull_s_available who has the single device or is being       *)
(* refused it.  So the single device has one file, and nobody else is in it*)
(* when an open trims it, although the trim takes no lock.                 *)
(***************************************************************************)
SingleOpen ==
    /\ TypeOK
    /\ \A d \in {"uid", "wuid"} : count[d] = Cardinality(Users(d))
    /\ s_available = 1 - Cardinality(Users("single"))
                       - Cardinality({p \in Process : pc[p] = "s_busy"})
    /\ Cardinality(Users("single")) <= 1

(***************************************************************************)
(* Who has a device of one user is that user, acts for that user, or is    *)
(* root, however opens and closes interleave and whoever closes first.     *)
(***************************************************************************)
OneUser == \A d \in {"uid", "wuid"} : \A p \in Users(d) :
    p \in Root \/ owner[d] \in {uid[p], euid[p]}

(***************************************************************************)
(* An open that could go on sleeps only while the last close is on its way *)
(* to wake it.                                                             *)
(***************************************************************************)
NoLostWakeup == \A p \in waiting :
    pc[p] = "w_sleep" /\ Available(p, "wuid") => \E q \in Process : pc[q] = "w_wake"

(***************************************************************************)
(* Every terminal has at most one private device.                          *)
(***************************************************************************)
OnePerTerminal == \A c, d \in c_list : c[1] = d[1] => c = d

(***************************************************************************)
(* A sleeping open of the waiting device gets to look again once the       *)
(* device is free, unless a signal comes first.                            *)
(***************************************************************************)
SleeperLooks == \A p \in Process :
    pc[p] = "w_sleep" /\ count["wuid"] = 0 ~> pc[p] # "w_sleep"

-----------------------------------------------------------------------------
(* The code's texts also state what follows, which the code does not keep: *)
(* TLC refutes each of them.                                               *)

(***************************************************************************)
(* "must be called with the device semaphore held" (main.c:60).            *)
(***************************************************************************)
TrimAlone == \A p, q \in Process :
    pc[p] = "trim" /\ pc[q] \in {"call", "trim"} /\ p # q => dev[p] # dev[q]

(***************************************************************************)
(* An open that is refused finds the device "already open" (access.c:62).  *)
(***************************************************************************)
BusyIsOpen == [][\A p \in Process : SBusy(p) => Users("single") # {}]_vars
=============================================================================
