---------------------------- MODULE AllocationInv ----------------------------
(***************************************************************************)
(* The inductive invariant behind FrameAgreement.  Frames are numbered in  *)
(* the order they are announced, and every queue between the two ends      *)
(* holds a contiguous or increasing range of these numbers, oldest first.  *)
(***************************************************************************)
EXTENDS AllocationSystem

(* The calls in progress: a call of general_work has items left exactly    *)
(* while it drains or outputs, its items and those on the air fit the      *)
(* window, and a call of work reads ids that are there.                    *)
Control ==
  /\ Len(air) + Len(tx_out) + tx_todo <= Window
  /\ tx_pc \in {"drain", "output"} => tx_todo > 0
  /\ tx_pc \in {"idle", "return"} => tx_todo = 0
  /\ tx_pc = "idle" => tx_out = << >>
  /\ tx_pc = "output" => frames > 0
  /\ rx_items <= Len(air)

(* 1 while a frame is announced but not yet on the outputs.                *)
Pending == IF tx_pc = "output" THEN 1 ELSE 0

(* The numbers of the oldest frame in tx_out, air and wire.                *)
FirstOut == frames - Pending - Len(tx_out)
FirstAir == FirstOut - Len(air)
FirstWire == frames - Len(wire)

SourceNumbers ==
  /\ FirstAir >= 0
  /\ d_allocation_out = d_allocation
  /\ d_allocation.id = (frames - Pending) % IdSpace
  /\ d_bitcount_out = BitCount(d_allocation.bitloading)

WellNumbered(f, n) ==
  /\ f.frame = n
  /\ f.id = n % IdSpace
  /\ f.bitcount = BitCount(f.bitloading)

AirNumbers == \A k \in 1..Len(air) : WellNumbered(air[k], FirstAir + k - 1)

OutNumbers == \A k \in 1..Len(tx_out) : WellNumbered(tx_out[k], FirstOut + k - 1)

WireNumbers ==
  /\ FirstWire >= 0
  /\ \A k \in 1..Len(wire) : /\ wire[k].frame = FirstWire + k - 1
                             /\ wire[k].id = wire[k].frame % IdSpace

InboxNumbers ==
  /\ \A k \in 1..Len(inbox) : /\ inbox[k].frame < FirstWire
                              /\ inbox[k].id = inbox[k].frame % IdSpace
  /\ \A j, k \in 1..Len(inbox) : j < k => inbox[j].frame < inbox[k].frame

SlotNumbers ==
  \A id \in Ids :
    LET n == d_allocation_buffer[id].frame IN
      /\ n < FirstWire
      /\ n # -1 => n % IdSpace = id
      /\ \A k \in 1..Len(inbox) : n < inbox[k].frame

(* The announcement of every frame from the oldest one on the air on, if   *)
(* it has left the wire and was not dropped, can still be found.           *)
Held ==
  \A n \in FirstAir..(FirstWire - 1) :
    \/ n \in lost
    \/ \E k \in 1..Len(inbox) : inbox[k].frame = n
    \/ d_allocation_buffer[n % IdSpace].frame = n

Content ==
  \A x \in Known :
    /\ \A f \in UnderWay : x.frame = f.frame => Describes(x, f)
    /\ Pending = 1 /\ x.frame = frames - 1 =>
         /\ x.bitloading = d_allocation.bitloading
         /\ x.divisor = Divisor(d_allocation.power)

IndInv ==
  /\ TypeOK
  /\ Control
  /\ SourceNumbers
  /\ AirNumbers
  /\ OutNumbers
  /\ WireNumbers
  /\ InboxNumbers
  /\ SlotNumbers
  /\ Held
  /\ Content
  /\ FrameAgreement
  /\ NeverNewer
=============================================================================
