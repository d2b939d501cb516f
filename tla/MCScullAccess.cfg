SPECIFICATION FairSpec
CONSTANTS
    a = a
    b = b
    r = r
    ann = ann
    bob = bob
    root = root
    t = t
    User = {ann, bob, root}
    Nobody = Nobody
    NoTty = NoTty
    Process = {a, b, r}
    Root = {r}
    uid <- Uid
    euid <- Euid
    tty <- Tty
INVARIANTS
    SingleOpen
    OneUser
    OnePerTerminal
PROPERTIES
    SleeperLooks
