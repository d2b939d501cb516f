------------------------------ MODULE UsbSkel ------------------------------
(***************************************************************************)
(* usb/usb-skeleton.c: a USB device from probe to disconnect, opened, read *)
(* and written meanwhile.  The structure of the device is counted: one     *)
(* reference for the interface, one for each open file.  The USB core      *)
(* calls open with its semaphore of the minors read-locked, takes the      *)
(* semaphore for itself to drop a minor, and has ended what was in flight  *)
(* on the device before it calls disconnect.                               *)
(***************************************************************************)
EXTENDS Naturals, FiniteSets

CONSTANTS
    Process,     \* processes that use the device
    Faults,      \* TRUE if a write may fail before it is submitted
    Packets      \* bound: packets the device sends

VARIABLES
    plugged,                 \* the device answers
    dev, kref,               \* the structure: "none", "live", "freed"; its count
    intfdata, minor,         \* it is stored in the interface; it has a minor
    driver,                  \* what the USB core runs: probe or disconnect
    pc,                      \* of a process
    sent, bulk_in,           \* packets the device has sent; the one in the buffer
    got, mine,               \* packet copied to a process; the one of its transfer
    inflight, frees          \* writes submitted; how often a write's buffer is freed

devVars  == <<dev, kref, intfdata, minor, driver>>
ioVars   == <<sent, bulk_in, got, mine, inflight, frees>>
vars     == <<plugged, devVars, pc, ioVars>>

Init ==
    /\ plugged = TRUE
    /\ dev = "none" /\ kref = 0 /\ intfdata = FALSE /\ minor = FALSE
    /\ driver = "probe"
    /\ pc = [p \in Process |-> "closed"]
    /\ sent = 0 /\ bulk_in = 0
    /\ got = [p \in Process |-> 0] /\ mine = [p \in Process |-> 0]
    /\ inflight = {} /\ frees = [p \in Process |-> 0]

(* kref_put with skel_delete, of a structure that is there. *)
Put ==
    /\ kref' = kref - 1
    /\ dev' = IF kref = 1 THEN "freed" ELSE dev

-----------------------------------------------------------------------------
(* skel_probe: the structure is stored before the minor is registered, and *)
(* goes if that fails.                                                     *)
ProbeStore ==
    /\ driver = "probe" /\ driver' = "register"
    /\ dev' = "live" /\ kref' = 1 /\ intfdata' = TRUE
    /\ UNCHANGED <<plugged, minor, pc, ioVars>>

ProbeRegister ==
    /\ driver = "register" /\ driver' = "bound"
    /\ minor' = TRUE
    /\ UNCHANGED <<plugged, dev, kref, intfdata, pc, ioVars>>

ProbeFails_Leak == UNCHANGED <<dev, kref>>           \* slip: no kref_put
ProbeFails == Put

ProbeError ==
    /\ driver = "register" /\ driver' = "done"
    /\ intfdata' = FALSE /\ ProbeFails
    /\ UNCHANGED <<plugged, minor, pc, ioVars>>

-----------------------------------------------------------------------------
(* skel_disconnect, in three steps. *)
After_PutFirst(s) ==                                 \* slip: the last two swapped
    CASE s = "data" -> "put" [] s = "put" -> "minor" [] s = "minor" -> "done"
After(s) ==
    CASE s = "data" -> "minor" [] s = "minor" -> "put" [] s = "put" -> "done"

Unplug ==
    /\ plugged /\ driver = "bound"
    /\ plugged' = FALSE
    /\ UNCHANGED <<devVars, pc, ioVars>>

Disconnect ==
    /\ ~plugged /\ driver = "bound" /\ inflight = {}
    /\ \A p \in Process : pc[p] # "transfer"
    /\ driver' = "data"
    /\ UNCHANGED <<plugged, dev, kref, intfdata, minor, pc, ioVars>>

Disconnecting ==
    /\ driver \in {"data", "minor", "put"} /\ driver' = After(driver)
    /\ \/ driver = "data" /\ intfdata' = FALSE /\ UNCHANGED <<dev, kref, minor>>
       \/ /\ driver = "minor" /\ \A p \in Process : pc[p] \notin {"find", "get"}
          /\ minor' = FALSE /\ UNCHANGED <<dev, kref, intfdata>>
       \/ driver = "put" /\ Put /\ UNCHANGED <<intfdata, minor>>
    /\ UNCHANGED <<plugged, pc, ioVars>>

-----------------------------------------------------------------------------
(* skel_open: find the structure, then count the file.  A process that     *)
(* opens waits while the core drops the minor.                             *)
Go(p, from, to) == pc[p] = from /\ pc' = [pc EXCEPT ![p] = to]

OpenMinor(p) ==
    /\ minor /\ Go(p, "closed", "find")
    /\ UNCHANGED <<plugged, devVars, ioVars>>

OpenFind(p) ==
    /\ Go(p, "find", IF intfdata THEN "get" ELSE "closed")
    /\ UNCHANGED <<plugged, devVars, ioVars>>

OpenGet(p) ==
    /\ Go(p, "get", "open")
    /\ kref' = kref + 1
    /\ UNCHANGED <<plugged, dev, intfdata, minor, driver, ioVars>>

Release(p) ==
    /\ Go(p, "open", "closed") /\ Put
    /\ UNCHANGED <<plugged, intfdata, minor, driver, ioVars>>

-----------------------------------------------------------------------------
(* skel_read: a transfer into the buffer of the device, then a copy of     *)
(* what is in the buffer.  The read of a device that is gone fails.        *)
ReadStart(p) ==
    /\ plugged /\ Go(p, "open", "transfer")
    /\ UNCHANGED <<plugged, devVars, ioVars>>

ReadEnd(p) ==
    \/ /\ plugged /\ sent < Packets /\ Go(p, "transfer", "copy")
       /\ sent' = sent + 1 /\ bulk_in' = sent + 1
       /\ mine' = [mine EXCEPT ![p] = sent + 1]
       /\ UNCHANGED <<plugged, devVars, got, inflight, frees>>
    \/ /\ Go(p, "transfer", "open")
       /\ UNCHANGED <<plugged, devVars, ioVars>>

ReadCopy(p) ==
    /\ Go(p, "copy", "open")
    /\ got' = [got EXCEPT ![p] = bulk_in]
    /\ UNCHANGED <<plugged, devVars, sent, bulk_in, mine, inflight, frees>>

-----------------------------------------------------------------------------
(* skel_write: a buffer of its own for each write.  The callback frees it; *)
(* a write that fails frees it in the error path, as coherent memory and   *)
(* again with kfree, if it has one, or finds no urb.                       *)
Write(p) ==
    /\ pc[p] = "open" /\ p \notin inflight
    /\ \/ /\ plugged /\ inflight' = inflight \cup {p}
          /\ frees' = [frees EXCEPT ![p] = 0] /\ UNCHANGED pc
       \/ /\ ~plugged \/ Faults
          /\ \E n \in {0, 2} : frees' = [frees EXCEPT ![p] = n]
          /\ UNCHANGED <<pc, inflight>>
       \/ /\ Faults /\ pc' = [pc EXCEPT ![p] = "oops"]
          /\ frees' = [frees EXCEPT ![p] = 0] /\ UNCHANGED inflight
    /\ UNCHANGED <<plugged, devVars, sent, bulk_in, got, mine>>

WriteCallback(p) ==
    /\ p \in inflight /\ inflight' = inflight \ {p}
    /\ frees' = [frees EXCEPT ![p] = @ + 1]
    /\ UNCHANGED <<plugged, devVars, pc, sent, bulk_in, got, mine>>

-----------------------------------------------------------------------------
Next ==
    \/ ProbeStore \/ ProbeRegister \/ ProbeError
    \/ Unplug \/ Disconnect \/ Disconnecting
    \/ \E p \in Process :
          OpenMinor(p) \/ OpenFind(p) \/ OpenGet(p) \/ Release(p)
          \/ ReadStart(p) \/ ReadEnd(p) \/ ReadCopy(p)
          \/ Write(p) \/ WriteCallback(p)

Spec == Init /\ [][Next]_vars

-----------------------------------------------------------------------------
Users == {p \in Process : pc[p] \in {"open", "transfer", "copy", "oops"}}

TypeOK ==
    /\ plugged \in BOOLEAN /\ intfdata \in BOOLEAN /\ minor \in BOOLEAN
    /\ dev \in {"none", "live", "freed"} /\ kref \in 0 .. Cardinality(Process) + 1
    /\ driver \in {"probe", "register", "bound", "data", "minor", "put", "done"}
    /\ pc \in [Process ->
            {"closed", "find", "get", "open", "transfer", "copy", "oops"}]
    /\ sent \in 0 .. Packets /\ bulk_in \in 0 .. Packets
    /\ inflight \subseteq Process /\ frees \in [Process -> 0 .. 2]

(* A process with the file open, or one that has found the structure and   *)
(* is about to count itself, has a structure that is not freed.            *)
NoneFreed == \A p \in Process : p \in Users \/ pc[p] = "get" => dev = "live"

(* When the device is gone and no file is open, the structure is freed.    *)
NoLeak == driver = "done" /\ Users = {} /\ (\A p \in Process : pc[p] # "get")
          => dev = "freed"

-----------------------------------------------------------------------------
(* The code's texts also state what follows, which the code does not keep: *)
(* TLC refutes each of them.                                               *)

(***************************************************************************)
(* "if the read was successful, copy the data to userspace"                *)
(* (usb-skeleton.c:124): the data of that read.                            *)
(***************************************************************************)
ReadsItsOwn == [][\A p \in Process :
    pc[p] = "copy" /\ pc'[p] = "open" => got'[p] = mine[p]]_vars

(***************************************************************************)
(* "free up our allocated buffer" (usb-skeleton.c:149): a write's buffer   *)
(* is freed once.                                                          *)
(***************************************************************************)
FreedOnce == \A p \in Process : frees[p] <= 1
=============================================================================
