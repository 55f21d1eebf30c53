------------------------------ MODULE PinnedLog ------------------------------
(***************************************************************************)
(* What the block index promises its readers: a log of blocks by height    *)
(* that grows at its end, may lose a suffix above a pinned height, and     *)
(* whose entries up to the pinned height never change.                     *)
(***************************************************************************)
EXTENDS Integers

CONSTANTS Height, Block, NoHeight

VARIABLES
    log,     \* a function from a set of consecutive heights to blocks
    pinned   \* the protected height, or NoHeight

vars == <<log, pinned>>

Init == log = << >> /\ pinned = NoHeight

Agrees == \A h \in DOMAIN log \cap DOMAIN log' : log'[h] = log[h]

\* A batch of blocks directly above everything stored.
Append ==
    /\ log' \in [DOMAIN log' -> Block]
    /\ DOMAIN log \subseteq DOMAIN log' /\ log' # log
    /\ \A h \in DOMAIN log, g \in DOMAIN log' \ DOMAIN log : h < g
    /\ \A a, b \in DOMAIN log' : a .. b \subseteq DOMAIN log'
    /\ Agrees
    /\ UNCHANGED pinned

\* A reorg drops the blocks above an ancestor that is not below the pin.
DropSuffix ==
    /\ pinned # NoHeight
    /\ \E a \in DOMAIN log : a >= pinned /\ DOMAIN log' = {h \in DOMAIN log : h <= a}
    /\ Agrees
    /\ UNCHANGED pinned

\* The checkpoint is chosen or advances.
Pin ==
    /\ pinned' \in Height /\ pinned' > pinned
    /\ UNCHANGED log

Next == Append \/ DropSuffix \/ Pin

Spec == Init /\ [][Next]_vars
=============================================================================
