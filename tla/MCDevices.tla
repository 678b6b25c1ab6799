----------------------------- MODULE MCDevices ------------------------------
(***************************************************************************)
(* The disk with its buffer cache, and the console, side by side: the      *)
(* first state chooses one, and the other stands still.                    *)
(***************************************************************************)
EXTENDS BufferCacheProps, ConsoleProps, TLC

CONSTANTS u1, u2, none

\* Buffers, blocks and processes are interchangeable (safety only).
DeviceSymmetry == Permutations(Bufs) \cup Permutations(Blocks) \cup Permutations({u1, u2})

NoNesting == {}

AnOrder == CHOOSE o \in SUBSET (Bufs \X Bufs) : IsOrder(o)

VARIABLE which

DevicesInit ==
    /\ which \in {"disk", "console"}
    /\ Init
    /\ which # "disk" => lru = AnOrder
    /\ CInit

DevicesNext ==
    /\ UNCHANGED which
    /\ IF which = "disk" THEN Next ELSE UNCHANGED vars
    /\ IF which = "console" THEN CNext ELSE UNCHANGED cvars

devicesVars == <<which, vars, cvars>>
DevicesSpec == DevicesInit /\ [][DevicesNext]_devicesVars
=============================================================================
