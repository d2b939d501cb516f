------------------------------ MODULE ProcMem ------------------------------
(***************************************************************************)
(* The files under /proc that list the scull devices: scullmem and scullseq*)
(* of scull/main.c, scullpipe of scull/pipe.c, and scullpmem, scullvmem,   *)
(* scullcmem and sculldmem.  A listing goes from device to device with the *)
(* mutex of one at a time, while others write to the devices and trim them.*)
(*                                                                         *)
(* The items of a device are numbered as they are allocated, in order; an  *)
(* item is the number of quanta it has, or None while its array is NULL.   *)
(* The unit of output is the longest line, and that is what a listing keeps*)
(* free at the end of its page (limit).                                    *)
(***************************************************************************)
EXTENDS Naturals, Sequences

CONSTANTS
    Driver,                     \* whose listing it is: those of Drivers
    N, Qset, PageLines,         \* devices; quanta of an item; lines of the page
    MaxItems, MaxTrims,         \* bounds on a list, and on how often one is trimmed
    None

Drivers == {"scullmem", "scullseq", "scullpipe", "scullp", "scullv", "scullc", "sculld"}
Paged   == {"scullp", "scullv", "scullc", "sculld"}   \* the device is the first item

VARIABLES
    driver,
    list, gen,   \* of a device: its items, and how often it was trimmed
    owner,       \* of a device: the listing holds its mutex
    pc,          \* "idle", "device", "lock" (scullmem only), "walk"
    i, at,       \* the device, and the item to be shown next
    qs,          \* the gen and the item read before the lock; otherwise None
    count,       \* lines in the page
    shown,       \* history: items of the device shown so far
    freed        \* history: an item was used that was no longer there

devVars  == <<list, gen>>
listVars == <<pc, i, at, qs, count, shown, freed>>
vars     == <<driver, devVars, owner, listVars>>

Device == 1 .. N
Limit == PageLines - 1
Fresh == IF driver \in Paged THEN <<None>> ELSE <<>>

Init ==
    /\ driver \in Driver
    /\ list = [d \in Device |-> Fresh] /\ gen = [d \in Device |-> 0]
    /\ owner = [d \in Device |-> FALSE]
    /\ pc = "idle" /\ i = 1 /\ at = 1 /\ qs = None /\ count = 0
    /\ shown = 0 /\ freed = FALSE

-----------------------------------------------------------------------------
(* The others, each with the mutex: a write adds items, gives the last one *)
(* its array and its quanta; an open for writing trims.                    *)
Waits_Not(d) == TRUE                              \* slip: the mutex not taken
Waits(d) == ~owner[d]

Others(d) == Waits(d) /\ driver # "scullpipe" /\ UNCHANGED <<driver, owner, listVars>>

AddItem(d) ==
    /\ Others(d) /\ Len(list[d]) < MaxItems
    /\ list' = [list EXCEPT ![d] = Append(@, None)]
    /\ UNCHANGED gen

AddQuanta(d) ==
    /\ Others(d)
    /\ \E k \in 1 .. Len(list[d]), n \in 0 .. Qset :
        /\ IF list[d][k] = None THEN TRUE ELSE list[d][k] < n
        /\ list' = [list EXCEPT ![d][k] = n]
    /\ UNCHANGED gen

Trim(d) ==
    /\ Others(d) /\ gen[d] < MaxTrims
    /\ list' = [list EXCEPT ![d] = Fresh]
    /\ gen' = [gen EXCEPT ![d] = @ + 1]

-----------------------------------------------------------------------------
(* scullmem and its kind list all devices in one call; scullseq is called  *)
(* for one after the other (start, next, stop), each time with a new page  *)
(* where the page runs out, which the file layer sees to.                  *)
Open ==
    /\ pc = "idle" /\ pc' = "device"
    /\ i' = 1 /\ count' = IF driver = "scullpipe" THEN 1 ELSE 0
    /\ shown' = 0 /\ UNCHANGED <<driver, devVars, owner, at, qs, freed>>

RoomLeft == driver = "scullseq" \/ count <= Limit

Done ==
    /\ pc = "device" /\ (i > N \/ ~RoomLeft)
    /\ pc' = "idle" /\ i' = 1 /\ count' = 0 /\ shown' = 0
    /\ UNCHANGED <<driver, devVars, owner, at, qs, freed>>

(* scull_read_procmem finds the first item before it has the mutex.        *)
ReadHead ==
    /\ driver = "scullmem" /\ pc = "device" /\ i <= N /\ RoomLeft
    /\ pc' = "lock"
    /\ qs' = <<gen[i], Len(list[i])>>
    /\ UNCHANGED <<driver, devVars, owner, i, at, count, shown, freed>>

MayLock ==
    /\ \/ driver = "scullmem" /\ pc = "lock"
       \/ driver # "scullmem" /\ pc = "device" /\ i <= N /\ RoomLeft
    /\ ~owner[i]

(* The mutex, and the line of the device: from a list that was empty when  *)
(* it was looked at, or is no longer there, nothing more is shown.         *)
Start ==
    /\ MayLock
    /\ owner' = [owner EXCEPT ![i] = TRUE] /\ pc' = "walk"
    /\ at' = IF qs # None /\ qs[2] = 0 THEN Len(list[i]) + 1 ELSE 1
    /\ freed' = (freed \/ (qs # None /\ qs[2] > 0 /\ qs[1] # gen[i]))
    /\ shown' = 0 /\ qs' = None
    /\ count' = (IF driver = "scullseq" THEN 0 ELSE count) + 1
    /\ UNCHANGED <<driver, devVars, i>>

Interrupted ==
    /\ MayLock /\ pc' = "idle"
    /\ i' = 1 /\ qs' = None /\ count' = 0 /\ shown' = 0
    /\ UNCHANGED <<driver, devVars, owner, at, freed>>

(* A line for the item, and, if it is the last and has an array, one for   *)
(* each quantum.                                                           *)
QuantaOf(d, k) ==
    IF list[d][k] # None /\ k = Len(list[d]) THEN list[d][k] ELSE 0

(* The listings of scull look at the limit before an item.                 *)
ItemOfScull ==
    /\ driver \in {"scullmem", "scullseq"} /\ pc = "walk" /\ ~freed
    /\ at <= Len(list[i]) /\ RoomLeft
    /\ count' = count + 1 + QuantaOf(i, at)
    /\ at' = at + 1 /\ shown' = shown + 1
    /\ UNCHANGED <<driver, devVars, owner, pc, i, qs, freed>>

(* The others show the first item in any case, and stop after the line that*)
(* passes the limit, wherever they are.                                    *)
Cut(n, more) == IF n > Limit THEN n ELSE IF n + more > Limit THEN Limit + 1 ELSE n + more

ItemOfPages ==
    /\ driver \in Paged /\ pc = "walk"
    /\ at <= Len(list[i]) /\ (at = 1 \/ RoomLeft)
    /\ count' = Cut(count + 1, QuantaOf(i, at))
    /\ at' = at + 1 /\ shown' = shown + 1
    /\ UNCHANGED <<driver, devVars, owner, pc, i, qs, freed>>

(* At the end of the list, or at the limit (out): the mutex is that of the *)
(* device, whatever item the walk has come to.                             *)
Unlocked_Item == IF at > 1 THEN owner ELSE [owner EXCEPT ![i] = FALSE]   \* slip: the item's
Unlocked == [owner EXCEPT ![i] = FALSE]

Out ==
    /\ pc = "walk" /\ ~freed
    /\ at > Len(list[i]) \/ (~RoomLeft /\ (at > 1 \/ driver \notin Paged))
    /\ owner' = Unlocked
    /\ pc' = "device" /\ i' = i + 1 /\ at' = 1 /\ shown' = 0
    /\ UNCHANGED <<driver, devVars, qs, count, freed>>

ScullRead == (Open \/ ReadHead \/ Start \/ Interrupted \/ ItemOfScull \/ Out \/ Done)
             /\ driver = "scullmem"

ScullSeq == (Open \/ Start \/ Interrupted \/ ItemOfScull \/ Out \/ Done) /\ driver = "scullseq"

ScullPipe == (Open \/ Start \/ Interrupted \/ Out \/ Done) /\ driver = "scullpipe"

PagesRead == Open \/ Start \/ Interrupted \/ ItemOfPages \/ Out \/ Done

ScullpRead == driver = "scullp" /\ PagesRead
ScullvRead == driver = "scullv" /\ PagesRead
ScullcRead == driver = "scullc" /\ PagesRead
SculldRead == driver = "sculld" /\ PagesRead

Next ==
    \/ \E d \in Device : AddItem(d) \/ AddQuanta(d) \/ Trim(d)
    \/ ScullRead \/ ScullSeq \/ ScullPipe
    \/ ScullpRead \/ ScullvRead \/ ScullcRead \/ SculldRead

Spec == Init /\ [][Next]_vars

-----------------------------------------------------------------------------
TypeOK ==
    /\ driver \in Drivers /\ pc \in {"idle", "device", "lock", "walk"}
    /\ i \in 1 .. N + 1 /\ at \in Nat /\ count \in Nat /\ shown \in Nat
    /\ \A d \in Device : \A k \in 1 .. Len(list[d]) : list[d][k] \in 0 .. Qset \cup {None}
    /\ gen \in [Device -> 0 .. MaxTrims] /\ owner \in [Device -> BOOLEAN] /\ freed \in BOOLEAN

(***************************************************************************)
(* A listing holds the mutex of the device it is at while it walks, and of *)
(* no other, and none when it has returned, whether it came to the end of a*)
(* list, met its limit in the middle of one (out, scullp/main.c:91) or was *)
(* interrupted.                                                            *)
(***************************************************************************)
HoldsItsDevice == \A d \in Device : owner[d] <=> pc = "walk" /\ i = d

(***************************************************************************)
(* What is shown of a device under its mutex is its list from the first    *)
(* item on, which nobody trims or extends meanwhile; and all of it is shown*)
(* unless the page is full.  scullmem, which finds the first item before it*)
(* has the mutex, is another matter (WalksLiveItems).                      *)
(***************************************************************************)
ShowsTheList == driver # "scullmem" =>
    /\ ~freed
    /\ pc = "walk" /\ at > Len(list[i]) => shown = Len(list[i])

-----------------------------------------------------------------------------
(* The code's texts also state what follows, which the code does not keep: *)
(* TLC refutes each of them.                                               *)

(***************************************************************************)
(* "scan the list" (scull/main.c:101): scullmem walks what is a list.      *)
(***************************************************************************)
WalksLiveItems == ~freed

(***************************************************************************)
(* "Don't print more than this" (scull/main.c:93, scullp/main.c:68): what  *)
(* is listed fits in the page.                                             *)
(***************************************************************************)
FitsPage == count <= PageLines
=============================================================================
