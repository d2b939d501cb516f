----------------------------- MODULE MCDevices -----------------------------
(***************************************************************************)
(* Drivers that have nothing to do with each other, for TLC: the disk of   *)
(* sbull, the memory of scullp, scullv and sculld as processes map it, the *)
(* devices of scullc and their cache, the terminals of tiny_tty and        *)
(* tiny_serial, the device of usb-skeleton, the listings of scull's        *)
(* devices under /proc, how drivers are loaded, the lists of queue.h, and  *)
(* the I/O memory of silly and the ports of short.                         *)
(* Every behaviour exercises one of them, its subject, and the others stay *)
(* in their initial states.                                                *)
(* The subjects "disk" and "full" are sbull in its two request modes,      *)
(* "scullp", "scullv" and "sculld" those drivers with their parameters     *)
(* left alone, "sets" and "orders" scullp while one of the two is changed, *)
(* "cache" scullc for as long as its properties say something, "tty" and   *)
(* "nomem" the terminal with memory for its port and, for one process,     *)
(* without, "serial" and "later" tiny_serial on a kernel before 4.15 and   *)
(* since, "load" and "hope" the loading of drivers where only what the code*)
(* looks at fails, and where anything does, "silly" and "ports" the two    *)
(* drivers of IoMemory, and those in capitals the kinds of list.           *)
(***************************************************************************)
EXTENDS Integers, Sequences, FiniteSets, TLC

CONSTANTS
    c1, c2, p1, o1, o2, o3, d1, d2, None,
    (* of tiny_tty and usb-skeleton: *)      Process, Lines, MaxTty, Faults, Packets,
    (* of tiny_serial: *)                    Fifosize, UART_XMIT_SIZE, WAKEUP_CHARS, MaxOpens,
    (* of scullp and its copies: *)          NPages, SetSize, Block,
    (* of scullp with its parameters: *)     FewPages, FewBlocks, Orders, SetSizes,
    (* of scullc: *)                         Dev, Caller, Object, ObjectSize, Quanta, Qsets, NBytes,
    (* of the listings: *)                   NDevices, Qset, PageLines, MaxItems, MaxTrims

ASSUME ListsAssumption ==
    NDevices \in Nat /\ Qset \in Nat /\ PageLines \in Nat /\ MaxTrims \in Nat

ASSUME TtyAssumption ==
    IsFiniteSet(Process) /\ None \notin Process \cup {p1} /\ Lines \subseteq {"DTR", "RTS"}
    /\ MaxTty \in Nat

ASSUME UsbAssumption == Packets \in Nat

ASSUME MapAssumption ==
    /\ NPages \in Nat /\ FewPages \in Nat /\ SetSize \in Nat \ {0} /\ SetSizes \subseteq Nat \ {0}
    /\ 0 \in Orders /\ \A o \in Orders : 2 ^ o \in Nat \ {0}

ASSUME CacheAssumption ==
    /\ Quanta \subseteq Nat \ {0} /\ Qsets \subseteq Nat \ {0}
    /\ ObjectSize \in Nat \ {0} /\ NBytes \in Nat /\ None \notin Object

ASSUME SerialAssumption ==
    /\ UART_XMIT_SIZE \in Nat \ {0} /\ Fifosize \in Nat /\ MaxOpens \in Nat
    /\ WAKEUP_CHARS \in 0 .. UART_XMIT_SIZE - 1

VARIABLES
    subject,
    data, users, media_change, timer, opening, req, bio, seg, sector, moved, moves,
    scullp_order, scullp_qset, order, mqset, vmas, size, list, io, arg, f_pos, mpc, seen,
    pages, access, stale, spilled, oops,
    scullc_quantum, scullc_qset, quantum, qset, length, objects, used, bytes, lookup, written,
    outside, misread, torn,
    tiny, open_count, mcr, pending, handler, core, status, tpc, call,
    plugged, dev, kref, intfdata, minor, driver, pc, sent, bulk_in, got, mine, inflight, frees,
    loading, phase, todo, held, ptr, wrong, failed,
    lister, items, gen, owner, lpc, i, at, qs, count, shown, freed,
    made, in_wheel, running, chars, open, opens, stopped, buf, head, tail, x_char, waiting,
    health, next, unsent, mistaken,
    link, back, walk, linked, due,
    io_mem, io_pos, io_mode, io_call, io_answer, io_irq, io_value, io_pending, calls, lost, edges,
    toggled, unclaimed

-----------------------------------------------------------------------------
(* Requests whose segments have one size each, in one bio or in several.   *)
Req(w, s, b) == [write |-> w, sector |-> s, bios |-> b]

Even ==
    {Req(TRUE, 0, <<<<1, 1>>, <<1>>>>), Req(TRUE, 1, <<<<2>>>>), Req(FALSE, 1, <<<<1>>, <<1>>>>)}

Disk == INSTANCE Sbull WITH
    nsectors <- 4, Ctx <- {c1, c2}, Requests <- Even, got <- moved,
    request_mode <- "simple", MaxUsers <- 2, MaxMoves <- 5

Full == INSTANCE Sbull WITH
    nsectors <- 4, Ctx <- {c1, c2}, Requests <- Even \cup {Req(TRUE, 0, <<<<2>>, <<1, 1>>>>)},
    got <- moved, request_mode <- "full", MaxUsers <- 2, MaxMoves <- 4

(* One open file and one process; the order, the sets, or neither change.  *)
Pages(d, n, o, s, b, f) ==
    [driver |-> d, pages |-> n, orders |-> o, sets |-> s, block |-> b, nomem |-> f]

Maps == [
    scullp |-> Pages("scullp", NPages, {0}, {SetSize}, Block, TRUE),
    scullv |-> Pages("scullv", NPages, {0}, {SetSize}, Block, FALSE),
    sculld |-> Pages("sculld", NPages, {0}, {SetSize}, Block, FALSE),
    sets   |-> Pages("scullp", FewPages, {0}, SetSizes, FewBlocks, FALSE),
    orders |-> Pages("scullp", FewPages, Orders, {1}, FewBlocks, FALSE) ]

Map(M) == INSTANCE ScullMap WITH
    Driver <- M.driver, File <- {c1}, Proc <- {p1}, NPages <- M.pages, Orders <- M.orders,
    Qsets <- M.sets, Block <- M.block, Nomem <- M.nomem, qset <- mqset, call <- io, pc <- mpc

Cache == INSTANCE ScullCache WITH
    size <- length, data <- objects, call <- lookup, spilled <- outside, wrong <- misread

(* With memory for the port, and, for one process, without.                *)
Ttys == [
    tty   |-> [process |-> Process, nomem |-> FALSE],
    nomem |-> [process |-> {p1}, nomem |-> TRUE] ]

Tty(T) == INSTANCE TinyTty WITH Process <- T.process, Nomem <- T.nomem, pc <- tpc

(* A kernel before 4.15, and one since.                                    *)
Serials == [
    serial |-> [old |-> TRUE, flushes |-> FALSE, fifosize |-> Fifosize],
    later  |-> [old |-> FALSE, flushes |-> TRUE, fifosize |-> 0] ]

Serial(S) == INSTANCE TinySerial WITH
    Old <- S.old, Flushes <- S.flushes, Fifosize <- S.fifosize, pending <- in_wheel,
    handler <- running, count <- chars, status <- health, queue <- unsent, misread <- mistaken

Usb == INSTANCE UsbSkel

(* Places and sizes that are aligned or not, in the memory and past it.    *)
Silly == INSTANCE IoMemory WITH
    Driver <- "silly", File <- {c1}, Size <- 6, Counts <- {1, 2, 4, 6}, Offsets <- {1, 4, 6, 7},
    MaxCalls <- 2, Junk <- None, mem <- io_mem, pos <- io_pos, mode <- io_mode, call <- io_call,
    answer <- io_answer, irq <- io_irq, value <- io_value, pending <- io_pending

Ports == INSTANCE IoMemory WITH
    Driver <- "short", File <- {c1}, Size <- 1, Counts <- {1, 2, 3}, Offsets <- {},
    MaxCalls <- 3, Junk <- None, mem <- io_mem, pos <- io_pos, mode <- io_mode, call <- io_call,
    answer <- io_answer, irq <- io_irq, value <- io_value, pending <- io_pending

Drivers == {"aesdchar", "scull", "scullp", "scullv", "scullc", "sculld", "lddbus", "simple",
            "sbull", "short", "short_mem", "shortprint", "snull", "tiny_tty", "tiny_serial",
            "sleepy", "complete", "faulty", "silly"}

(* Whether calls fail whose result the code does not look at.              *)
Load(U) == INSTANCE Loading WITH Driver <- Drivers, Unseen <- U, driver <- loading

Lists == INSTANCE ProcMem WITH
    Driver <- {"scullmem", "scullseq", "scullpipe", "scullp", "scullv", "scullc", "sculld"},
    N <- NDevices, driver <- lister, list <- items, pc <- lpc

Slist == INSTANCE SinglyLinked WITH
    Kind <- "SLIST", Heads <- {d1, d2}, Elm <- {o1, o2, o3}, NULL <- None, Junk <- "junk",
    next <- link, last <- back, loop <- walk, list <- linked

Stailq == INSTANCE SinglyLinked WITH
    Kind <- "STAILQ", Heads <- {d1, d2}, Elm <- {o1, o2, o3}, NULL <- None, Junk <- "junk",
    next <- link, last <- back, loop <- walk, list <- linked

List == INSTANCE DoublyLinked WITH
    Kind <- "LIST", Heads <- {d1, d2}, Elm <- {o1, o2, o3}, NULL <- None, Junk <- "junk",
    next <- link, prev <- back, loop <- walk, list <- linked

Tailq == INSTANCE DoublyLinked WITH
    Kind <- "TAILQ", Heads <- {d1, d2}, Elm <- {o1, o2, o3}, NULL <- None, Junk <- "junk",
    next <- link, prev <- back, loop <- walk, list <- linked

Circleq == INSTANCE DoublyLinked WITH
    Kind <- "CIRCLEQ", Heads <- {d1, d2}, Elm <- {o1, o2, o3}, NULL <- None, Junk <- "junk",
    next <- link, prev <- back, loop <- walk, list <- linked

-----------------------------------------------------------------------------
Init ==
    /\ subject \in DOMAIN Maps \cup DOMAIN Ttys \cup DOMAIN Serials
                   \cup {"disk", "full", "cache", "usb", "lists", "load", "hope", "silly", "ports"}
                   \cup {"SLIST", "STAILQ", "LIST", "TAILQ", "CIRCLEQ"}
    /\ Disk!Init /\ Usb!Init /\ Serial(Serials.serial)!Init
    /\ Lists!Init /\ (subject # "lists" => lister = "scullmem")
    /\ IF subject \in DOMAIN Maps
       THEN \E m \in DOMAIN Maps : subject = m /\ Map(Maps[m])!Init
       ELSE Map(Maps.scullp)!Init
    /\ Load(FALSE)!Init /\ (subject \notin {"load", "hope"} => loading = "aesdchar")
    /\ CASE subject = "silly" -> Silly!Init
         [] subject = "ports" -> Ports!Init
         [] OTHER             -> Ports!Init /\ io_mode[c1] = "port"
    /\ Cache!Init /\ (subject # "cache" => scullc_qset = 1)
    /\ IF subject = "nomem" THEN Tty(Ttys.nomem)!Init ELSE Tty(Ttys.tty)!Init
    /\ CASE subject = "CIRCLEQ" -> Circleq!Init
         [] subject \in {"LIST", "TAILQ"} -> List!Init
         [] OTHER -> Slist!Init

disk == <<data, users, media_change, timer, opening, req, bio, seg, sector, moved, moves>>
map  == <<scullp_order, scullp_qset, order, mqset, vmas, size, list, io, arg, f_pos, mpc, seen,
          pages, access, stale, spilled, oops>>
cache == <<scullc_quantum, scullc_qset, quantum, qset, length, objects, used, bytes, lookup,
           written, outside, misread, torn>>
tty  == <<tiny, open_count, mcr, pending, handler, core, status, tpc, call>>
usb  == <<plugged, dev, kref, intfdata, minor, driver, pc, sent, bulk_in, got, mine,
          inflight, frees>>
load == <<loading, phase, todo, held, ptr, wrong, failed>>
lists == <<lister, items, gen, owner, lpc, i, at, qs, count, shown, freed>>
serial == <<made, in_wheel, running, chars, open, opens, stopped, buf, head, tail, x_char,
            waiting, health, next, unsent, mistaken>>
queue == <<link, back, walk, linked, due>>
moving == <<io_mem, io_pos, io_mode, io_call, io_answer, io_irq, io_value, io_pending, calls, lost,
            edges, toggled, unclaimed>>

OnlyDisk  == UNCHANGED <<subject, map, cache, tty, usb, load, lists, serial, queue, moving>>
OnlyMap   == UNCHANGED <<subject, disk, cache, tty, usb, load, lists, serial, queue, moving>>
OnlyCache == UNCHANGED <<subject, disk, map, tty, usb, load, lists, serial, queue, moving>>
OnlyTty   == UNCHANGED <<subject, disk, map, cache, usb, load, lists, serial, queue, moving>>
OnlyUsb   == UNCHANGED <<subject, disk, map, cache, tty, load, lists, serial, queue, moving>>
OnlyLoad  == UNCHANGED <<subject, disk, map, cache, tty, usb, lists, serial, queue, moving>>
OnlyLists == UNCHANGED <<subject, disk, map, cache, tty, usb, load, serial, queue, moving>>
OnlySerial == UNCHANGED <<subject, disk, map, cache, tty, usb, load, lists, queue, moving>>
OnlyMoving == UNCHANGED <<subject, disk, map, cache, tty, usb, load, lists, serial, queue>>
OnlyQueue  == UNCHANGED <<subject, disk, map, cache, tty, usb, load, lists, serial, moving>>

Next ==
    \/ subject = "disk"  /\ Disk!Next  /\ OnlyDisk
    \/ subject = "full"  /\ Full!Next  /\ OnlyDisk
    \/ \E m \in DOMAIN Maps : subject = m /\ Map(Maps[m])!Next /\ OnlyMap
    \/ subject = "cache" /\ Cache!Sane /\ Cache!Next /\ OnlyCache
    \/ \E t \in DOMAIN Ttys : subject = t /\ Tty(Ttys[t])!Next /\ OnlyTty
    \/ \E s \in DOMAIN Serials : subject = s /\ Serial(Serials[s])!Next /\ OnlySerial
    \/ subject = "usb"   /\ Usb!Next   /\ OnlyUsb
    \/ subject = "lists" /\ Lists!Next /\ OnlyLists
    \/ subject = "load"  /\ Load(FALSE)!Next /\ OnlyLoad
    \/ subject = "hope"  /\ Load(TRUE)!Next  /\ OnlyLoad
    \/ subject = "silly" /\ Silly!Next /\ OnlyMoving
    \/ subject = "ports" /\ Ports!Next /\ OnlyMoving
    \/ subject = "SLIST"   /\ Slist!Next   /\ OnlyQueue
    \/ subject = "STAILQ"  /\ Stailq!Next  /\ OnlyQueue
    \/ subject = "LIST"    /\ List!Next    /\ OnlyQueue
    \/ subject = "TAILQ"   /\ Tailq!Next   /\ OnlyQueue
    \/ subject = "CIRCLEQ" /\ Circleq!Next /\ OnlyQueue

(* Which object is which matters to nobody. *)
Alike == Permutations({o1, o2})

vars == <<subject, disk, map, cache, tty, usb, load, lists, serial, queue, moving>>

Spec == Init /\ [][Next]_vars

-----------------------------------------------------------------------------
(***************************************************************************)
(* A device keeps what it is given.  sbull: no change of the medium is     *)
(* pending while somebody has the disk open (sbull_open, sbull_invalidate),*)
(* so nothing written is wiped before the disk has lain idle; a sector of a*)
(* request goes to its own sector of the disk, also with two requests under*)
(* way (sbull_transfer); and "each segment independently" (sbull.c:181)    *)
(* leaves no sector out where the segments have one size.  scullc: what is *)
(* read is what was written, and nothing that another device had in the    *)
(* object.  silly_read: what is copied out was read from its own place,    *)
(* whatever the units; short_i_write: every second byte raises the line,   *)
(* whenever the handler clears it.  queue.h: the pointers of every kind of *)
(* list follow what was put into it, and a FOREACH_SAFE whose body removes *)
(* comes to every element.                                                 *)
(***************************************************************************)
DataKept ==
    /\ subject = "disk" => Disk!TypeOK /\ Disk!NoChangeInUse /\ Disk!InPlace /\ Disk!AllMoved
    /\ subject = "full" => Full!TypeOK /\ Full!NoChangeInUse /\ Full!InPlace /\ Full!AllMoved
    /\ subject = "cache" => Cache!ReadsWritten
    /\ subject = "silly" => Silly!TypeOK /\ Silly!EveryByteMoved
    /\ subject = "ports" => Ports!TypeOK /\ Ports!EverySecondRises
    /\ subject = "SLIST" => Slist!TypeOK /\ Slist!PointersFollowLists /\ Slist!LoopComesToAll
    /\ subject = "STAILQ" => Stailq!TypeOK /\ Stailq!PointersFollowLists /\ Stailq!LoopComesToAll
    /\ subject = "LIST" => List!TypeOK /\ List!PointersFollowLists /\ List!LoopComesToAll
    /\ subject = "TAILQ" => Tailq!TypeOK /\ Tailq!PointersFollowLists /\ Tailq!LoopComesToAll
    /\ subject = "CIRCLEQ" =>
        Circleq!TypeOK /\ Circleq!PointersFollowLists /\ Circleq!LoopComesToAll

(***************************************************************************)
(* "just keep track of how many times the device is mapped, to avoid       *)
(* releasing it" (scullp/mmap.c:29): for one process, between its calls,   *)
(* vmas is the number of mappings; with the order left alone, what it sees *)
(* at a page is what the device has there and others write to; and a read  *)
(* or a write that no trim has overtaken stays within the quantum allocated*)
(* for it (main.c:239).                                                    *)
(***************************************************************************)
MappingKeepsPages ==
    /\ \A m \in DOMAIN Maps : subject = m => Map(Maps[m])!TypeOK /\ Map(Maps[m])!VmasCount
    /\ \A m \in DOMAIN Maps \ {"orders"} : subject = m => Map(Maps[m])!QuantumHolds
    /\ \A m \in DOMAIN Maps \ {"orders", "sets"} : subject = m => Map(Maps[m])!SharesPages

(***************************************************************************)
(* tiny_open, do_close and tiny_timer: the count of the port is the number *)
(* of processes that have it open, so that "the last user" (tiny_tty.c:149)*)
(* is the last, and characters come for as long as the port is open,       *)
(* whoever else closes it.  The same holds of tiny_serial where its handler*)
(* is given the port; and tiny_tx_chars, without a lock, sends what is     *)
(* written once and in order, and wakes the writer that waits for room.    *)
(***************************************************************************)
FedWhileOpen ==
    /\ \A t \in DOMAIN Ttys : subject = t =>
        Tty(Ttys[t])!TypeOK /\ Tty(Ttys[t])!CountsUsers /\ Tty(Ttys[t])!FeedsOpenPort
    /\ \A s \in DOMAIN Serials : subject = s =>
        Serial(Serials[s])!TypeOK /\ Serial(Serials[s])!WriterWoken
    /\ subject = "serial" =>
        Serial(Serials.serial)!FeedsOpenPort /\ Serial(Serials.serial)!SentInOrder

(***************************************************************************)
(* A structure is freed when nobody uses it and not before.  usb-skeleton: *)
(* a process with the file open, or about to count itself, has a structure *)
(* that is not freed; and when the device is gone, or was never bound, and *)
(* no file is open, the structure is freed.  scullc: the objects in use are*)
(* those of the devices, one for a slot.                                   *)
(***************************************************************************)
FreedWhenUnused ==
    /\ subject = "usb"   => Usb!TypeOK /\ Usb!NoneFreed /\ Usb!NoLeak
    /\ subject = "cache" => Cache!ObjectsOwned

(***************************************************************************)
(* Init and exit functions: a load that fails, and a removal, give back    *)
(* everything that was taken, once, and what programs can reach is ready   *)
(* for them; but for the drivers of which Loading says that they do not.   *)
(***************************************************************************)
LoadsGiveBack ==
    /\ subject = "load" =>
        Load(FALSE)!AllGivenBack /\ Load(FALSE)!GivenBackOnce /\ Load(FALSE)!ReachedIsReady
    /\ subject = "hope" => Load(TRUE)!AllGivenBack /\ Load(TRUE)!ReachedIsReady

(***************************************************************************)
(* A listing of the devices under /proc holds the mutex of the device it is*)
(* at, and of no other, on every way out (scullp_read_procmem, out); and   *)
(* what it shows under that mutex is the device's list, which nobody trims *)
(* or extends meanwhile (but for scullmem, whose list may have been freed).*)
(***************************************************************************)
ListsUnderMutex == subject = "lists" =>
    Lists!TypeOK /\ Lists!HoldsItsDevice /\ Lists!ShowsTheList
=============================================================================
