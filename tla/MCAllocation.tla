---------------------------- MODULE MCAllocation ----------------------------
(* Small instances of AllocationSystem. *)
EXTENDS AllocationInv

const_Subcarriers == {1, 2}

Alloc(bl, p) == [bitloading |-> bl, power |-> p]

const_Allocations == {Alloc(<<2, 0>>, <<2, 0>>)}
(* For the coded link: equal and unequal loading and power; the            *)
(* constructor's default is a third allocation.                            *)
const_CodedAllocations ==
  {Alloc(<<5, 2>>, <<2, 1>>), Alloc(<<2, 2>>, <<1, 1>>)}
=============================================================================
