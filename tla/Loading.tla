------------------------------ MODULE Loading ------------------------------
(***************************************************************************)
(* How the drivers of this repository are loaded and unloaded: what their  *)
(* init functions take, in which order, what they give back when a step    *)
(* fails, and what their exit functions give back.  While a module is being*)
(* loaded, from the moment it can be reached (cdev_add, register_chrdev,   *)
(* add_disk, register_netdev), programs may call it.                       *)
(*                                                                         *)
(* A driver is a plan: the steps of its init function, those of its exit   *)
(* function, the resources by which it is reached, and those that its calls*)
(* use.  Where the code has one device for each number up to a parameter,  *)
(* the plan has two.                                                       *)
(***************************************************************************)
EXTENDS Sequences

CONSTANTS
    Driver,     \* the drivers that are tried
    Unseen      \* TRUE: calls fail whose result the code does not look at

VARIABLES
    driver,
    phase,      \* "loading", "undoing", "failed", "loaded", "unloading" or "unloaded"
    todo,       \* the steps that are left of the function that runs
    held,       \* the resources that are taken
    ptr,        \* those whose pointer or number is set, which the code tests
    wrong,      \* history: those that were given back when they were not held
    failed      \* history: some call has failed

vars == <<driver, phase, todo, held, ptr, wrong, failed>>

-----------------------------------------------------------------------------
(***************************************************************************)
(* The steps.  When a Get fails, the load gives back what undo says and    *)
(* ends; when a Part fails, it gives back and goes on behind the steps of  *)
(* its part; after a Try it goes on, and the pointer tells.  Nobody looks  *)
(* whether a Hope has failed, and an Init does not fail.  A Put gives back *)
(* in any case, a PutIf if the pointer is set; All and Any look at pointers*)
(* before the load goes on.                                                *)
(***************************************************************************)
Step(act, res, test, undo, part) ==
    [act |-> act, res |-> res, test |-> test, undo |-> undo, part |-> part]

Init1(r)         == Step("init", {r}, {}, <<>>, "")
Get(r, undo)     == Step("get", {r}, {}, undo, "")
Part(p, r, undo) == Step("part", {r}, {}, undo, p)
In(p, r)         == Step("init", {r}, {}, <<>>, p)
Hope(r)          == Step("hope", {r}, {}, <<>>, "")
Try(r)           == Step("try", {r}, {}, <<>>, "")
TryIf(r, t)      == Step("try", {r}, {t}, <<>>, "")
Put(r)           == Step("put", {r}, {}, <<>>, "")
PutIf(r, t)      == Step("put", {r}, {t}, <<>>, "")
All(rs, undo)    == Step("all", rs, {}, undo, "")
Any(rs, undo)    == Step("any", rs, {}, undo, "")

(***************************************************************************)
(* cdev_init makes a counted object that cdev_del puts, and cdev_add makes *)
(* the device reachable; when it fails, most drivers only say so.          *)
(***************************************************************************)
SetupCdev(c, added) == <<Init1(c), Try(added)>>
CdevDel(c, added)   == <<PutIf(added, added), Put(c)>>

(* Such an object lives in the memory of its driver, and owns nothing. *)
Counted == {"cdev0", "cdev1", "p_cdev", "a_cdev"}

-----------------------------------------------------------------------------
(* The line logger's driver (aesd-char-driver/main.c). *)
AesdInit == <<Get("region", <<>>), Init1("cdev0"), Get("added0", <<Put("region")>>)>>

AesdCleanup == CdevDel("cdev0", "added0") \o <<Put("region")>>

-----------------------------------------------------------------------------
(***************************************************************************)
(* scull, with the pipes and the access-controlled devices, whose failure  *)
(* is not its own.  Its cleanup function is also the one for a failed load.*)
(***************************************************************************)
ScullPipeCleanup ==
    <<PutIf("p_added", "p_added"), PutIf("p_cdev", "p_devices"), PutIf("p_devices", "p_devices"),
      PutIf("p_region", "p_devices")>>

ScullAccessCleanup == CdevDel("a_cdev", "a_added") \o <<Put("a_region")>>

ScullCleanup ==
    <<PutIf("added0", "added0"), PutIf("cdev0", "devices"),
      PutIf("added1", "added1"), PutIf("cdev1", "devices"), PutIf("devices", "devices"),
      Put("region")>> \o ScullPipeCleanup \o ScullAccessCleanup

ScullPipeInit ==
    <<Part("pipe", "p_region", <<>>), Part("pipe", "p_devices", <<Put("p_region")>>),
      In("pipe", "p_cdev"), Part("pipe", "p_added", <<>>)>>

ScullAccessInit ==
    <<Part("access", "a_region", <<>>), In("access", "a_cdev"),
      Part("access", "a_added", <<Put("a_cdev")>>)>>

ScullInit ==
    <<Get("region", <<>>), Get("devices", ScullCleanup)>>
    \o SetupCdev("cdev0", "added0") \o SetupCdev("cdev1", "added1")
    \o ScullPipeInit \o ScullAccessInit

-----------------------------------------------------------------------------
(* scullp and scullv differ in what they store, not in how they load. *)
ScullpInit_Kept ==                                \* slip: the number is kept
    <<Get("region", <<>>), Get("devices", <<>>)>>
    \o SetupCdev("cdev0", "added0") \o SetupCdev("cdev1", "added1")
ScullpInit ==
    <<Get("region", <<>>), Get("devices", <<Put("region")>>)>>
    \o SetupCdev("cdev0", "added0") \o SetupCdev("cdev1", "added1")

ScullpCleanup ==
    CdevDel("cdev0", "added0") \o CdevDel("cdev1", "added1") \o <<Put("devices"), Put("region")>>

ScullvInit    == ScullpInit
ScullvCleanup == ScullpCleanup

(* scullc makes its cache when the devices are there already. *)
ScullcCleanup ==
    CdevDel("cdev0", "added0") \o CdevDel("cdev1", "added1")
    \o <<Put("devices"), PutIf("cache", "cache"), Put("region")>>

ScullcInit == ScullpInit \o <<Get("cache", ScullcCleanup)>>

(* sculld registers with the driver core, and its devices on the bus. *)
SculldInit ==
    <<Get("region", <<>>), Hope("driver"), Get("devices", <<Put("region")>>)>>
    \o SetupCdev("cdev0", "added0") \o <<Hope("ldev0")>>
    \o SetupCdev("cdev1", "added1") \o <<Hope("ldev1")>>

SculldCleanup ==
    <<Put("ldev0")>> \o CdevDel("cdev0", "added0")
    \o <<Put("ldev1")>> \o CdevDel("cdev1", "added1")
    \o <<Put("devices"), Put("driver"), Put("region")>>

(* The bus itself (lddbus.c). *)
BusInit == <<Get("bus", <<>>), Get("ldd0", <<Put("bus")>>)>>

BusExit == <<Put("ldd0"), Put("bus")>>

(* simple.c has its two devices in static memory. *)
SimpleInit ==
    <<Get("region", <<>>)>> \o SetupCdev("cdev0", "added0") \o SetupCdev("cdev1", "added1")

SimpleCleanup == CdevDel("cdev0", "added0") \o CdevDel("cdev1", "added1") \o <<Put("region")>>

-----------------------------------------------------------------------------
(***************************************************************************)
(* sbull.  A disk whose queue or gendisk cannot be had frees its data, and *)
(* the next disk is set up; the pointer to the data stays.                 *)
(***************************************************************************)
SetupDevice(d, data, queue, gd, disk) ==
    <<Part(d, data, <<>>), Part(d, queue, <<PutIf(data, data)>>),
      Part(d, gd, <<PutIf(data, data)>>), In(d, disk)>>

SbullInit ==
    <<Get("major", <<>>), Get("Devices", <<Put("major")>>)>>
    \o SetupDevice("a", "data0", "queue0", "gd0", "disk0")
    \o SetupDevice("b", "data1", "queue1", "gd1", "disk1")

SbullExit ==
    <<PutIf("disk0", "gd0"), PutIf("gd0", "gd0"), PutIf("queue0", "queue0"), PutIf("data0", "data0"),
      PutIf("disk1", "gd1"), PutIf("gd1", "gd1"), PutIf("queue1", "queue1"), PutIf("data1", "data1"),
      Put("major"), Put("Devices")>>

-----------------------------------------------------------------------------
(***************************************************************************)
(* short with ports and with memory (use_mem), which finds its interrupt by*)
(* installing a handler on two lines for a moment, and, with a bottom half,*)
(* frees the interrupt and takes it again.                                 *)
(***************************************************************************)
ShortSelfprobe ==
    <<Try("line3"), Try("line5"), PutIf("line3", "line3"), PutIf("line5", "line5")>>

ShortRest ==
    <<Hope("buffer")>> \o ShortSelfprobe
    \o <<Try("irq"), PutIf("irq", "irq"), TryIf("irq", "irq")>>

ShortInit    == <<Get("ports", <<>>), Get("chrdev", <<Put("ports")>>)>> \o ShortRest
ShortMemInit == <<Get("memory", <<>>), Hope("mapping"), Get("chrdev", <<Put("ports")>>)>> \o ShortRest

ShortCleanup ==
    <<PutIf("irq", "irq"), Put("chrdev"), Put("ports"), PutIf("buffer", "buffer")>>

ShortMemCleanup ==
    <<PutIf("irq", "irq"), Put("chrdev"), Put("mapping"), Put("memory"), PutIf("buffer", "buffer")>>

(* shortprint gives everything back when it cannot have its interrupt. *)
ShortpCleanup ==
    <<PutIf("irq", "irq"), Put("chrdev"), Put("ports"), Put("workqueue"),
      PutIf("in_buffer", "in_buffer"), PutIf("out_buffer", "out_buffer")>>

ShortpInit ==
    <<Get("ports", <<>>), Get("chrdev", <<Put("ports")>>), Hope("in_buffer"), Hope("out_buffer"),
      Hope("workqueue"), Get("irq", ShortpCleanup)>>

-----------------------------------------------------------------------------
(***************************************************************************)
(* snull loads if it has both interfaces and can register one; tiny_tty    *)
(* registers its driver and then its line.                                 *)
(***************************************************************************)
SnullCleanup ==
    <<PutIf("reg0", "sn0"), PutIf("sn0", "sn0"), PutIf("reg1", "sn1"), PutIf("sn1", "sn1")>>

SnullInit_Early ==                                \* slip: sn0 goes up before sn1 is there
    <<Try("sn0"), Part("0", "reg0", <<>>), Try("sn1"), All({"sn0", "sn1"}, SnullCleanup),
      Part("1", "reg1", <<>>), Any({"reg0", "reg1"}, SnullCleanup)>>
SnullInit ==
    <<Try("sn0"), Try("sn1"), All({"sn0", "sn1"}, SnullCleanup),
      Part("0", "reg0", <<>>), Part("1", "reg1", <<>>), Any({"reg0", "reg1"}, SnullCleanup)>>

TinyInit ==
    <<Get("driver", <<>>), Get("registered", <<Put("driver")>>), Hope("line0")>>

TinyExit == <<Put("line0"), Put("registered")>>

(* tiny_serial has no exit function, and stays. *)
TinySerialInit == <<Get("registered", <<>>), Get("port0", <<Put("registered")>>)>>

(* sleepy, complete and faulty take a number, and silly maps memory, too.  *)
ChrdevInit    == <<Get("chrdev", <<>>)>>
ChrdevCleanup == <<Put("chrdev")>>

SillyInit    == ChrdevInit \o <<Hope("io_base")>>
SillyCleanup == <<Put("io_base")>> \o ChrdevCleanup

-----------------------------------------------------------------------------
Plan(load, unload, reach, needs) ==
    [load |-> load, unload |-> unload, reach |-> reach, needs |-> needs]

Plans == [
    aesdchar   |-> Plan(AesdInit, AesdCleanup, {"added0"}, {}),
    scull      |-> Plan(ScullInit, ScullCleanup, {"added0", "added1"}, {"devices"}),
    scullp     |-> Plan(ScullpInit, ScullpCleanup, {"added0", "added1"}, {"devices"}),
    scullv     |-> Plan(ScullvInit, ScullvCleanup, {"added0", "added1"}, {"devices"}),
    scullc     |-> Plan(ScullcInit, ScullcCleanup, {"added0", "added1"}, {"devices", "cache"}),
    sculld     |-> Plan(SculldInit, SculldCleanup, {"added0", "added1"}, {"devices"}),
    lddbus     |-> Plan(BusInit, BusExit, {"ldd0"}, {"bus"}),
    simple     |-> Plan(SimpleInit, SimpleCleanup, {"added0", "added1"}, {}),
    sbull      |-> Plan(SbullInit, SbullExit, {"disk0", "disk1"}, {"Devices"}),
    short      |-> Plan(ShortInit, ShortCleanup, {"chrdev"}, {"buffer"}),
    short_mem  |-> Plan(ShortMemInit, ShortMemCleanup, {"chrdev"}, {"buffer"}),
    shortprint |-> Plan(ShortpInit, ShortpCleanup, {"chrdev"},
                        {"in_buffer", "out_buffer", "workqueue"}),
    snull      |-> Plan(SnullInit, SnullCleanup, {"reg0", "reg1"}, {"sn0", "sn1"}),
    tiny_tty   |-> Plan(TinyInit, TinyExit, {"registered"}, {"driver"}),
    tiny_serial |-> Plan(TinySerialInit, <<>>, {"port0"}, {"registered"}),
    sleepy     |-> Plan(ChrdevInit, ChrdevCleanup, {"chrdev"}, {}),
    complete   |-> Plan(ChrdevInit, ChrdevCleanup, {"chrdev"}, {}),
    faulty     |-> Plan(ChrdevInit, ChrdevCleanup, {"chrdev"}, {}),
    silly      |-> Plan(SillyInit, SillyCleanup, {"chrdev"}, {"io_base"}) ]

-----------------------------------------------------------------------------
Init ==
    /\ driver \in Driver
    /\ phase = "loading"
    /\ todo = Plans[driver].load
    /\ held = {} /\ ptr = {} /\ wrong = {}
    /\ failed = FALSE

Now(acts) == todo # <<>> /\ Head(todo).act \in acts /\ Head(todo).test \subseteq ptr

(* The call of this step succeeds. *)
Taken ==
    /\ Now({"init", "get", "part", "try", "hope"})
    /\ held' = held \cup Head(todo).res
    /\ ptr' = ptr \cup Head(todo).res
    /\ todo' = Tail(todo)
    /\ UNCHANGED <<driver, phase, wrong, failed>>

Behind(part) == SelectSeq(Tail(todo), LAMBDA s : s.part # part)

(* It fails. *)
Refused ==
    /\ Now({"get", "part", "try"} \cup IF Unseen THEN {"hope"} ELSE {})
    /\ LET s == Head(todo) IN
        /\ ptr' = ptr \ s.res
        /\ phase' = IF s.act = "get" THEN "undoing" ELSE phase
        /\ todo' = CASE s.act = "get"  -> s.undo
                     [] s.act = "part" -> s.undo \o Behind(s.part)
                     [] OTHER          -> Tail(todo)
    /\ failed' = TRUE
    /\ UNCHANGED <<driver, held, wrong>>

(* The load looks at what it has got. *)
Looked ==
    /\ Now({"all", "any"})
    /\ LET s == Head(todo)
           enough == IF s.act = "all" THEN s.res \subseteq ptr ELSE s.res \cap ptr # {} IN
        /\ phase' = IF enough THEN phase ELSE "undoing"
        /\ todo' = IF enough THEN Tail(todo) ELSE s.undo
    /\ UNCHANGED <<driver, held, ptr, wrong, failed>>

GivenBack ==
    /\ Now({"put"})
    /\ held' = held \ Head(todo).res
    /\ wrong' = wrong \cup (Head(todo).res \ held)
    /\ todo' = Tail(todo)
    /\ UNCHANGED <<driver, phase, ptr, failed>>

(* What the test of this step asks for is not there. *)
Skipped ==
    /\ todo # <<>> /\ ~(Head(todo).test \subseteq ptr)
    /\ todo' = Tail(todo)
    /\ UNCHANGED <<driver, phase, held, ptr, wrong, failed>>

(* The function returns. *)
Returned ==
    /\ todo = <<>>
    /\ phase \in {"loading", "undoing", "unloading"}
    /\ phase' = CASE phase = "loading"   -> "loaded"
                  [] phase = "undoing"   -> "failed"
                  [] phase = "unloading" -> "unloaded"
    /\ UNCHANGED <<driver, todo, held, ptr, wrong, failed>>

Unload ==
    /\ phase = "loaded" /\ Plans[driver].unload # <<>>
    /\ phase' = "unloading"
    /\ todo' = Plans[driver].unload
    /\ UNCHANGED <<driver, held, ptr, wrong, failed>>

Next == Taken \/ Refused \/ Looked \/ GivenBack \/ Skipped \/ Returned \/ Unload

Spec == Init /\ [][Next]_vars

-----------------------------------------------------------------------------
Reached == Plans[driver].reach \cap held # {}

(***************************************************************************)
(* What a load that fails has taken, and what a load that succeeds has     *)
(* taken until the module is removed, has been given back.  Three drivers  *)
(* leave something: sculld its driver on the bus when there is no memory   *)
(* for its devices (sculld/main.c:534), short its memory when it gets no   *)
(* number ("FIXME - use-mem case?", short.c:592), and tiny_tty its driver. *)
(***************************************************************************)
Leaving == {"sculld", "short_mem", "tiny_tty"}

AllGivenBack ==
    phase \in {"failed", "unloaded"} /\ driver \notin Leaving => held \subseteq Counted

(***************************************************************************)
(* Nothing is given back that is not held: once, and not in vain.  Any load*)
(* in which nothing fails keeps to it, but four drivers do not always:     *)
(* scull calls the cleanup of devices that were not set up although it     *)
(* "must be careful" (main.c:569), sbull frees the data of a disk that     *)
(* could not be set up once more when it is removed (sbull.c:507, 561),    *)
(* short gives back ports it took as memory, and snull unregisters an      *)
(* interface that was not registered (snull.c:742).                        *)
(***************************************************************************)
Careless == {"scull", "sbull", "short_mem", "snull"}

GivenBackOnce == (failed /\ driver \in Careless) \/ wrong = {}

(***************************************************************************)
(* "Here we register our device - should not fail thereafter" (short.c:588)*)
(* Once programs can call the module, it is there to stay until it is      *)
(* removed, and what its calls use is there.  Four drivers can be called   *)
(* before they have their buffers, their cache, or their mapping.          *)
(***************************************************************************)
Early == {"scullc", "short", "short_mem", "shortprint", "silly"}

ReachedIsReady ==
    Reached /\ phase \in {"loading", "undoing", "loaded"} /\ driver \notin Early =>
        phase # "undoing" /\ Plans[driver].needs \subseteq held
=============================================================================
