-------------------------- MODULE AllocationBuffer --------------------------
(***************************************************************************)
(* The receiver's allocation_buffer (lib/allocation_buffer_impl.cc): a     *)
(* ring of IdSpace slots, filled from the SUB socket and read by the frame *)
(* ids decoded from the air; and feedback_sink_vf, which returns one SNR   *)
(* message per received frame (lib/feedback_sink_vf_impl.cc).              *)
(***************************************************************************)
EXTENDS AllocationChannels

CONSTANTS
  ReadMax    \* bound: most input items of one call of work

ASSUME BufAssumption == ReadMax \in Nat \ {0}

VARIABLES
  d_allocation_buffer,  \* the slots
  out_now,              \* d_bitloading_out, d_power_out, d_bitcount_out
  rx_items,             \* noutput_items of the running work call, 0 if none
  rx_done,              \* items of the running call already written
  demapped,             \* history: what work wrote for each frame
  snr_due               \* received frames whose SNR is not yet reported

bufVars == <<d_allocation_buffer, out_now, rx_items, rx_done, demapped, snr_due>>

Ids == 0..(IdSpace - 1)

(* "frame" is history: -1 is the constructor's default, otherwise the      *)
(* frame whose announcement filled the slot.                               *)
Slot == [frame : Nat \cup {-1},
         bitloading : [Subcarriers -> Modes],
         divisor    : [Subcarriers -> Nat]]

Output == [bitloading : [Subcarriers -> Modes],
           divisor    : [Subcarriers -> Nat],
           bitcount   : BitCounts]

(* One entry of the history: the received frame, the slot it was given,    *)
(* its place in the work call and the frames then still in transit.        *)
Demap == [sent : Frame, out : Output, from : Nat \cup {-1},
          first : BOOLEAN, excused : BOOLEAN]

BufTypeOK ==
  /\ d_allocation_buffer \in [Ids -> Slot]
  /\ out_now \in Output
  /\ rx_items \in 0..ReadMax
  /\ rx_done \in 0..rx_items
  /\ demapped \in Seq(Demap)
  /\ snr_due \in Nat

-----------------------------------------------------------------------------
Settings(bl, divisor) ==
  [bitloading |-> bl, divisor |-> divisor, bitcount |-> BitCount(bl)]

BufInit ==
  /\ d_allocation_buffer = [id \in Ids |->
                              [frame |-> -1,
                               bitloading |-> Default.bitloading,
                               divisor |-> Default.power]]
  /\ out_now = Settings(Default.bitloading, Default.power)
  /\ rx_items = 0
  /\ rx_done = 0
  /\ demapped = << >>
  /\ snr_due = 0

(* The public setter; the flowgraph only calls it before it runs.          *)
SetBufferAllocation(a) ==
  /\ demapped = << >>
  /\ rx_items = 0
  /\ out_now' = Settings(a.bitloading, a.power)
  /\ UNCHANGED <<d_allocation_buffer, rx_items, rx_done, demapped, snr_due>>
  /\ UNCHANGED chanVars

(* work is called with n of the decoded ids.                               *)
ReadCall(n) ==
  /\ rx_items = 0
  /\ n <= Len(air)
  /\ rx_items' = n
  /\ rx_done' = 0
  /\ UNCHANGED <<d_allocation_buffer, out_now, demapped, snr_due>>
  /\ UNCHANGED chanVars

(* Defects: the loop takes one message at most; the loop has no exit.      *)
SocketUnchecked == TRUE

SocketNeverEmpty == FALSE

(* What ends recv_allocation's loop: zmq::poll with no timeout finds       *)
(* nothing to receive.                                                     *)
SocketEmpty == inbox = << >>

(* One turn of recv_allocation's loop.                                     *)
RecvAllocation ==
  /\ rx_done < rx_items
  /\ inbox # << >>
  /\ LET msg == Head(inbox) IN
       d_allocation_buffer' =
         [d_allocation_buffer EXCEPT
            ![msg.id] = [frame |-> msg.frame,
                         bitloading |-> msg.bitloading,
                         divisor |-> msg.divisor]]
  /\ inbox' = Tail(inbox)
  /\ UNCHANGED <<out_now, rx_items, rx_done, demapped, snr_due>>
  /\ UNCHANGED <<wire, air, lost>>

(* The slot that serves the item at position i (from 0) of the call: the   *)
(* code dereferences in_id and never advances it.                          *)
SlotId(i) == air[1].id

(* The rest of the loop body, once the socket is empty.                    *)
WriteItem ==
  /\ rx_done < rx_items
  /\ SocketEmpty
  /\ LET slot == d_allocation_buffer[SlotId(rx_done)]
         sent == air[rx_done + 1]
     IN  /\ out_now' = Settings(slot.bitloading, slot.divisor)
         /\ demapped' = Append(demapped,
              [sent |-> sent, out |-> out_now', from |-> slot.frame,
               first |-> rx_done = 0,
               excused |-> sent.frame \in lost \cup InTransit])
  /\ rx_done' = rx_done + 1
  /\ UNCHANGED <<d_allocation_buffer, rx_items, snr_due>>
  /\ UNCHANGED chanVars

(* work returns: the scheduler consumes the ids it was given.  The same    *)
(* ids reach feedback_sink_vf.                                             *)
ReadReturn ==
  /\ rx_items > 0
  /\ rx_done = rx_items
  /\ air' = SubSeq(air, rx_items + 1, Len(air))
  /\ snr_due' = snr_due + rx_items
  /\ rx_items' = 0
  /\ rx_done' = 0
  /\ UNCHANGED <<d_allocation_buffer, out_now, demapped>>
  /\ UNCHANGED <<wire, inbox, lost>>
=============================================================================
