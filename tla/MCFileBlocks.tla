----------------------------- MODULE MCFileBlocks -----------------------------
(***************************************************************************)
(* FileBlocks on two devices: a small one, explored to its last state, and *)
(* a large one on which trees of depth 2 are built, replaced and freed,    *)
(* explored for MaxCalls calls.  Blocks of a large device are never merged *)
(* into one extent, as on a fragmented device.                             *)
(***************************************************************************)
EXTENDS FileBlocks

CONSTANTS
    SmallLBlock,   \* bound: the blocks of a file on the small device
    TreePBlock,    \* the blocks of the large device
    MaxCalls       \* bound: the number of calls on the large device

VARIABLES device, calls

ASSUME MaxCallsAssumption == MaxCalls \in Nat

Small == INSTANCE FileBlocks WITH LBlock <- SmallLBlock
Large == INSTANCE FileBlocks WITH PBlock <- TreePBlock, Value <- {Zero}, MaxLen <- 1

\* The directory of the large device is among the first blocks, where the search
\* for free ones meets it.
MCInit ==
    /\ calls = 0
    /\ \/ device = "small" /\ Small!Init
       \/ device = "large" /\ Large!Init /\ used \subseteq PBlock

SmallCall ==
    /\ device = "small"
    /\ Small!Next
    /\ UNCHANGED <<device, calls>>

LargeCall ==
    /\ device = "large" /\ calls < MaxCalls
    /\ calls' = calls + 1
    /\ \/ \E f \in RegFile, lo, hi \in LBlock \cup {l + 1 : l \in LBlock} :
              lo < hi /\ Large!write_at(f, lo, hi, Zero)
       \/ \E f \in RegFile : Large!clear(f) \/ Large!read_at(f)
    /\ UNCHANGED device

MCSpec == MCInit /\ [][SmallCall \/ LargeCall]_<<vars, device, calls>>

\* Every variable has its type on either device, and the root of a tree fits
\* into its inode.
TypesOK == IF device = "small" THEN TypeOK ELSE Large!TypeOK

\* CallsDoAsAsked on the small device: a write_at that succeeds writes what it was
\* given to the blocks and the file it was given, and clear empties its own file.
CallsAsAsked == [][device = "small" => Small!as_asked]_vars
===============================================================================
