--------------------------- MODULE ResourceBlocks ---------------------------
(***************************************************************************)
(* How allocation_src turns one SNR report into an allocation: the         *)
(* subcarriers are grouped into resource blocks, combine_snr averages the  *)
(* SNR of each block, a loader computes one value per block, and           *)
(* duplicate_allocation expands the blocks to subcarriers again            *)
(* (lib/allocation_src_impl.cc).  recv_snr runs in the scheduler thread;   *)
(* the RPC thread resizes the blocks without taking d_mutex.               *)
(*                                                                         *)
(* A value is represented by the set of subcarriers whose SNR went into    *)
(* it, numbered from 0 as in the code.                                     *)
(***************************************************************************)
EXTENDS Integers, Sequences, SequencesExt

CONSTANTS
  d_subcarriers,
  BlockSizes,     \* arguments of set_resource_block_size
  BlockNumbers,   \* arguments of set_resource_block_number
  ResizeMax       \* bound: calls of the two in a behaviour

ASSUME BlocksAssumption ==
  /\ d_subcarriers \in Nat \ {0}
  /\ BlockSizes \subseteq Nat \ {0}
  /\ BlockNumbers \subseteq Nat \ {0}
  /\ ResizeMax \in Nat

(* The default value, and what a read past the end of a vector returns.    *)
DefaultValue == {-1}
Garbage == {-2}

-----------------------------------------------------------------------------
(* The two ways to group the subcarriers.                                  *)

(* Defect: both odd blocks get half of the remainder, rounded down.        *)
BySizeRounded(block_size) ==
  LET remain == d_subcarriers % block_size
      whole  == d_subcarriers \div block_size
  IN  [size   |-> block_size,
       number |-> whole + (IF remain = 0 THEN 0
                           ELSE IF remain \div 2 = 0 THEN 1 ELSE 2),
       first  |-> remain \div 2,
       last   |-> remain \div 2]

BySize(block_size) ==
  LET remain == d_subcarriers % block_size
      whole  == d_subcarriers \div block_size
  IN  [size   |-> block_size,
       number |-> whole + (IF remain = 0 THEN 0
                           ELSE IF remain \div 2 = 0 THEN 1 ELSE 2),
       first  |-> remain \div 2,
       last   |-> remain - remain \div 2]

ByNumber(block_number) ==
  LET remain == d_subcarriers % block_number
      size   == d_subcarriers \div block_number
  IN  [size   |-> size,
       number |-> block_number,
       first  |-> size + remain \div 2,
       last   |-> size + remain - remain \div 2]

Groupings == {BySize(b) : b \in BlockSizes} \cup {ByNumber(n) : n \in BlockNumbers}

Fields == {"size", "number", "first", "last"}

(* How many subcarriers block i has, from 0.                               *)
Width(r, i) ==
  IF i = 0 /\ r.first # 0 THEN r.first
  ELSE IF i = r.number - 1 /\ r.last # 0 THEN r.last
  ELSE r.size

(* Defect: the first block is forgotten in the index.                      *)
OffsetUnshifted(r, i, firstBlock) ==
  IF i = 0 /\ firstBlock = 1 THEN 0 ELSE (i - firstBlock) * r.size

(* Where combine_snr finds the first subcarrier of block i.                *)
Offset(r, i, firstBlock) ==
  IF i = 0 /\ firstBlock = 1 THEN 0 ELSE (i - firstBlock) * r.size + r.first

(* Defect: the local holds the size instead of the flag.                   *)
FirstBlockSize(r) == r.first

FirstBlock(r) == IF r.first # 0 THEN 1 ELSE 0

Block(r, i, firstBlock) ==
  LET width == IF i = 0 /\ firstBlock = 1 THEN r.first
               ELSE IF i = r.number - 1 /\ r.last # 0 THEN r.last
               ELSE r.size
      start == Offset(r, i, firstBlock)
  IN  start..(start + width - 1)

-----------------------------------------------------------------------------
VARIABLES
  blocks,            \* size, number, size_first, size_last of d_resource_blocks
  target,            \* what the RPC thread is writing there
  unwritten,         \* the fields it has not written yet
  resizes,           \* history: calls of the setters so far
  pc,                \* "idle", or where the running recv_snr is
  i,                 \* its loop counter
  firstBlock,        \* combine_snr's local
  snr,               \* d_resource_blocks.snr
  loaded,            \* d_resource_blocks.bitloading and .power
  allocation,        \* d_allocation.bitloading and .power while rebuilt
  allocation_out,    \* the same of d_allocation_out
  disturbed,         \* history: the blocks changed during this recv_snr
  torn               \* history: they did while allocation_out was computed

rpcVars == <<blocks, target, unwritten, resizes>>
outVars == <<allocation_out, torn>>
blocksVars == <<rpcVars, pc, i, firstBlock, snr, loaded, allocation, outVars,
                disturbed>>

Values == SUBSET Int

BlocksTypeOK ==
  /\ blocks \in [Fields -> Nat]
  /\ target \in Groupings \cup {BySize(1)}
  /\ unwritten \subseteq Fields
  /\ resizes \in Nat
  /\ pc \in {"idle", "combine", "load", "duplicate"}
  /\ i \in Nat
  /\ firstBlock \in {0, 1}
  /\ snr \in Seq(Values)
  /\ loaded \in Seq(Values)
  /\ allocation \in Seq(Values)
  /\ allocation_out \in Seq(Values)
  /\ disturbed \in BOOLEAN
  /\ torn \in BOOLEAN

InitBlocks ==
  /\ blocks = BySize(1)
  /\ target = BySize(1)
  /\ unwritten = {}
  /\ resizes = 0
  /\ pc = "idle"
  /\ i = 0
  /\ firstBlock = 0
  /\ snr = << >>
  /\ loaded = << >>
  /\ allocation = [s \in 1..d_subcarriers |-> DefaultValue]
  /\ allocation_out = allocation
  /\ disturbed = FALSE
  /\ torn = FALSE

-----------------------------------------------------------------------------
(* RPC thread.  No lock is taken, so recv_snr may see the stores one by    *)
(* one and in any order.                                                   *)
SetResourceBlocks(r) ==
  /\ unwritten = {}
  /\ resizes < ResizeMax
  /\ resizes' = resizes + 1
  /\ target' = r
  /\ unwritten' = Fields
  /\ UNCHANGED <<blocks, pc, i, firstBlock, snr, loaded, allocation, outVars,
                 disturbed>>

StoreField(f) ==
  /\ f \in unwritten
  /\ blocks' = [blocks EXCEPT ![f] = target[f]]
  /\ unwritten' = unwritten \ {f}
  /\ disturbed' = (disturbed \/ pc # "idle")
  /\ UNCHANGED <<target, resizes, pc, i, firstBlock, snr, loaded, allocation,
                 outVars>>

(* set_resource_block_size stores the number of whole blocks before it     *)
(* counts the odd ones.                                                    *)
StoreWholeBlocks ==
  /\ "number" \in unwritten
  /\ target \in {BySize(b) : b \in BlockSizes}
  /\ blocks' = [blocks EXCEPT !.number = d_subcarriers \div target.size]
  /\ disturbed' = (disturbed \/ pc # "idle")
  /\ UNCHANGED <<target, unwritten, resizes, pc, i, firstBlock, snr, loaded,
                 allocation, outVars>>

-----------------------------------------------------------------------------
(* Scheduler thread: recv_snr got a message and the scheme is adaptive.    *)
CombineStart ==
  /\ pc = "idle"
  /\ pc' = "combine"
  /\ i' = 0
  /\ firstBlock' = FirstBlock(blocks)
  /\ snr' = << >>
  /\ loaded' = << >>
  /\ disturbed' = (unwritten # {})
  /\ UNCHANGED <<rpcVars, allocation, outVars>>

CombineBlock ==
  /\ pc = "combine"
  /\ i < blocks.number
  /\ snr' = Append(snr, Block(blocks, i, firstBlock))
  /\ i' = i + 1
  /\ UNCHANGED <<rpcVars, pc, firstBlock, loaded, allocation, outVars, disturbed>>

CombineDone ==
  /\ pc = "combine"
  /\ i >= blocks.number
  /\ pc' = "load"
  /\ i' = 0
  /\ UNCHANGED <<rpcVars, firstBlock, snr, loaded, allocation, outVars, disturbed>>

At(seq, k) == IF k < Len(seq) THEN seq[k + 1] ELSE Garbage

(* One value per block, from that block's SNR.                             *)
LoadBlock ==
  /\ pc = "load"
  /\ i < blocks.number
  /\ loaded' = Append(loaded, At(snr, i))
  /\ i' = i + 1
  /\ UNCHANGED <<rpcVars, pc, firstBlock, snr, allocation, outVars, disturbed>>

(* Too many nulled blocks: the default replaces what was computed.  Then   *)
(* duplicate_allocation starts by clearing the allocation.                 *)
LoadDone(default) ==
  /\ pc = "load"
  /\ i >= blocks.number
  /\ loaded' = IF default THEN [k \in 1..blocks.number |-> DefaultValue] ELSE loaded
  /\ allocation' = << >>
  /\ pc' = "duplicate"
  /\ i' = 0
  /\ UNCHANGED <<rpcVars, firstBlock, snr, outVars, disturbed>>

(* calculate_bitloading_MA found no water level.                           *)
LoadReturn ==
  /\ pc = "load"
  /\ pc' = "idle"
  /\ i' = 0
  /\ UNCHANGED <<rpcVars, firstBlock, snr, loaded, allocation, outVars, disturbed>>

DuplicateBlock ==
  /\ pc = "duplicate"
  /\ i < blocks.number
  /\ allocation' =
       allocation \o [k \in 1..Width(blocks, i) |-> At(loaded, i)]
  /\ i' = i + 1
  /\ UNCHANGED <<rpcVars, pc, firstBlock, snr, loaded, outVars, disturbed>>

DuplicateDone ==
  /\ pc = "duplicate"
  /\ i >= blocks.number
  /\ allocation_out' = allocation
  /\ torn' = disturbed
  /\ pc' = "idle"
  /\ i' = 0
  /\ UNCHANGED <<rpcVars, firstBlock, snr, loaded, allocation, disturbed>>

-----------------------------------------------------------------------------
Rpc ==
  \/ \E r \in Groupings : SetResourceBlocks(r)
  \/ \E f \in Fields : StoreField(f)
  \/ StoreWholeBlocks

ProcessSnr ==
  \/ CombineStart
  \/ CombineBlock
  \/ CombineDone
  \/ LoadBlock
  \/ \E default \in BOOLEAN : LoadDone(default)
  \/ LoadReturn
  \/ DuplicateBlock
  \/ DuplicateDone

NextBlocks == Rpc \/ ProcessSnr

BlocksSpec == InitBlocks /\ [][NextBlocks]_blocksVars

-----------------------------------------------------------------------------
(* Properties.                                                             *)

(* After a report that no resizing disturbed, every subcarrier has exactly *)
(* one entry, and it is the default or comes from the block in which this  *)
(* subcarrier's own SNR was averaged: combine_snr's indices and            *)
(* duplicate_allocation's appends describe the same grouping.              *)
OwnBlock ==
  ~torn =>
    /\ Len(allocation_out) = d_subcarriers
    /\ \A s \in 1..d_subcarriers :
         allocation_out[s] = DefaultValue \/ s - 1 \in allocation_out[s]

(* When combine_snr has finished undisturbed, each subcarrier's SNR was    *)
(* averaged into exactly one block, and nothing beyond the report was read.*)
SnrUsedOnce ==
  pc = "load" /\ ~disturbed =>
    /\ UNION {snr[k] : k \in 1..Len(snr)} = 0..(d_subcarriers - 1)
    /\ \A j, k \in 1..Len(snr) : j # k => snr[j] \cap snr[k] = {}

(* The output vectors have one entry per subcarrier, as the block's output *)
(* signature and send_allocation assume: not so if the RPC thread resizes  *)
(* the blocks while a report is processed.                                 *)
OneEntryPerSubcarrier == Len(allocation_out) = d_subcarriers
=============================================================================
