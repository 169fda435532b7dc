---------------------------- MODULE AllocationSrc ----------------------------
(***************************************************************************)
(* The transmitter's allocation_src block (lib/allocation_src_impl.cc).    *)
(* The scheduler thread calls general_work, which holds d_mutex for the    *)
(* whole call; the RPC thread calls the setters.  set_allocation takes the *)
(* mutex, set_allocation_scheme does not.                                  *)
(***************************************************************************)
EXTENDS AllocationChannels

CONSTANTS
  WorkMax,   \* bound: most output items of one call of general_work
  FrameMax   \* bound: frames sent in a behaviour

ASSUME SrcAssumption == WorkMax \in Nat \ {0} /\ FrameMax \in Nat

VARIABLES
  d_allocation,        \* what send_allocation announces
  d_allocation_out,    \* what general_work copies to its outputs
  d_bitcount_out,
  d_modulbitcount_out,
  d_allocation_scheme,
  d_amplitude_abs,
  tx_pc,               \* "idle", or where the running general_work is
  tx_todo,             \* output items the running call has still to produce
  tx_out,              \* output items produced by the running call
  feedback,            \* SNR messages in the feedback socket's queue
  frames               \* history: number of frames announced so far

srcVars == <<d_allocation, d_allocation_out, d_bitcount_out,
             d_modulbitcount_out, d_allocation_scheme, d_amplitude_abs,
             tx_pc, tx_todo, tx_out, feedback, frames>>

allocVars == <<d_allocation, d_allocation_out, d_bitcount_out,
               d_modulbitcount_out>>

Schemes == {"CM", "RA", "MA", "LA"}

(* The modulation bit count is only ever computed with coding; its         *)
(* constructor's value is 2000.                                            *)
ModulOf(bl) == IF Coding THEN ModulBitCount(bl) ELSE 2000

SrcTypeOK ==
  /\ d_allocation \in [id : 0..(IdSpace - 1),
                       bitloading : [Subcarriers -> Modes],
                       power : [Subcarriers -> Nat]]
  /\ d_allocation_out \in [id : 0..(IdSpace - 1),
                           bitloading : [Subcarriers -> Modes],
                           power : [Subcarriers -> Nat]]
  /\ d_bitcount_out \in BitCounts
  /\ d_modulbitcount_out \in {ModulOf(bl) : bl \in [Subcarriers -> Modes]}
  /\ d_allocation_scheme \in Schemes
  /\ d_amplitude_abs \in Amplitudes
  /\ tx_pc \in {"idle", "drain", "output", "return"}
  /\ tx_todo \in 0..WorkMax
  /\ tx_out \in Seq(Frame)
  /\ feedback \in Nat
  /\ frames \in Nat

-----------------------------------------------------------------------------
SrcInit ==
  /\ d_allocation = [id |-> 0, bitloading |-> Default.bitloading,
                     power |-> Default.power]
  /\ d_allocation_out = d_allocation
  /\ d_bitcount_out = BitCount(Default.bitloading)
  /\ d_modulbitcount_out = ModulOf(Default.bitloading)
  /\ d_allocation_scheme = "CM"
  /\ d_amplitude_abs = Unit
  /\ tx_pc = "idle"
  /\ tx_todo = 0
  /\ tx_out = << >>
  /\ feedback = 0
  /\ frames = 0

(* Defects: the output copy is not written; the bit count is not updated.  *)
InstallAnnouncedOnly(a) ==
  /\ d_allocation' = [d_allocation EXCEPT !.bitloading = a.bitloading,
                                          !.power = a.power]
  /\ d_bitcount_out' = BitCount(a.bitloading)
  /\ UNCHANGED d_allocation_out

InstallStaleCount(a) ==
  /\ d_allocation' = [d_allocation EXCEPT !.bitloading = a.bitloading,
                                          !.power = a.power]
  /\ d_allocation_out' = [d_allocation_out EXCEPT !.bitloading = a.bitloading,
                                                  !.power = a.power]
  /\ UNCHANGED d_bitcount_out

(* Both writers of the allocation, set_allocation and duplicate_allocation,*)
(* replace the announced copy, the output copy and the bit count together. *)
Install(a) ==
  /\ d_allocation' = [d_allocation EXCEPT !.bitloading = a.bitloading,
                                          !.power = a.power]
  /\ d_allocation_out' = [d_allocation_out EXCEPT !.bitloading = a.bitloading,
                                                  !.power = a.power]
  /\ d_bitcount_out' = BitCount(a.bitloading)

-----------------------------------------------------------------------------
(* RPC thread.                                                             *)

(* Defect: the setter does not lock.                                       *)
MutexIgnored == TRUE

(* general_work holds d_mutex from its first line to its return.           *)
MutexFree == tx_pc = "idle"

SetAllocation(a) ==
  /\ MutexFree
  /\ Install(a)
  /\ d_modulbitcount_out' = ModulOf(a.bitloading)
  /\ UNCHANGED <<d_allocation_scheme, d_amplitude_abs, tx_pc, tx_todo,
                 tx_out, feedback, frames>>
  /\ UNCHANGED chanVars

SetAllocationScheme(scheme) ==
  /\ d_allocation_scheme' = scheme
  /\ UNCHANGED <<allocVars, d_amplitude_abs, tx_pc, tx_todo, tx_out,
                 feedback, frames>>
  /\ UNCHANGED chanVars

-----------------------------------------------------------------------------
(* Scheduler thread: one call of general_work.                             *)

(* The scheduler offers room for n items; what is downstream bounds it.    *)
WorkCall(n) ==
  /\ tx_pc = "idle"
  /\ Len(air) + n <= Window
  /\ frames + n <= FrameMax
  /\ tx_pc' = "drain"
  /\ tx_todo' = n
  /\ UNCHANGED <<allocVars, d_allocation_scheme, d_amplitude_abs, tx_out,
                 feedback, frames>>
  /\ UNCHANGED chanVars

(* One turn of recv_snr's loop.  Constant modulation keeps the allocation, *)
(* the three loaders compute one from the message's SNR vector.            *)
ConstantModulation ==
  /\ d_allocation_scheme = "CM"
  /\ d_amplitude_abs' = Unit
  /\ UNCHANGED allocVars

RateOrLoadingAdaptive(a) ==
  /\ d_allocation_scheme \in {"RA", "LA"}
  /\ d_amplitude_abs' = Unit
  /\ Install(a)
  /\ UNCHANGED d_modulbitcount_out

(* Too little capacity: the default, unscaled.  Water level out of reach:  *)
(* return with everything as it was.  Otherwise a new allocation and the   *)
(* factor its powers were divided by.                                      *)
MarginAdaptive(a, amplitude) ==
  /\ d_allocation_scheme = "MA"
  /\ \/ /\ d_amplitude_abs' = Unit
        /\ Install(Default)
     \/ /\ d_amplitude_abs' = amplitude
        /\ Install(a)
     \/ UNCHANGED <<d_amplitude_abs, d_allocation, d_allocation_out,
                    d_bitcount_out>>
  /\ UNCHANGED d_modulbitcount_out

(* Defect: the message is looked at but not taken out of the queue.        *)
KeepFeedback == UNCHANGED feedback

TakeFeedback == feedback' = feedback - 1

RecvSnr ==
  /\ tx_pc = "drain"
  /\ ~Coding
  /\ feedback > 0
  /\ TakeFeedback
  /\ \/ ConstantModulation
     \/ \E a \in Allocations : RateOrLoadingAdaptive(a)
     \/ \E a \in Allocations, amplitude \in Amplitudes :
          MarginAdaptive(a, amplitude)
  /\ UNCHANGED <<d_allocation_scheme, tx_pc, tx_todo, tx_out, frames>>
  /\ UNCHANGED chanVars

(* send_allocation, once the drain loop finds the socket empty.            *)
SendAllocation ==
  /\ tx_pc = "drain"
  /\ Coding \/ feedback = 0
  /\ wire' = Append(wire, [id |-> d_allocation.id,
                           frame |-> frames,
                           bitloading |-> d_allocation.bitloading,
                           divisor |-> Divisor(d_allocation.power)])
  /\ frames' = frames + 1
  /\ tx_pc' = "output"
  /\ UNCHANGED <<allocVars, d_allocation_scheme, d_amplitude_abs, tx_todo,
                 tx_out, feedback>>
  /\ UNCHANGED <<inbox, air, lost>>

(* The rest of the loop body: one item on every output, the next id.       *)
(* Defects: the id is not wrapped; it is wrapped one frame too early.      *)
NextIdUnwrapped(id) == id + 1

NextIdEarly(id) == IF id + 1 >= IdSpace - 1 THEN 0 ELSE id + 1

NextId(id) == (id + 1) % IdSpace

OutputFrame ==
  /\ tx_pc = "output"
  /\ tx_out' = Append(tx_out,
                      [id |-> d_allocation_out.id,
                       frame |-> frames - 1,
                       bitloading |-> d_allocation_out.bitloading,
                       gain |-> Gain(d_allocation_out.power),
                       amplitude |-> IF Coding THEN Unit ELSE d_amplitude_abs,
                       bitcount |-> d_bitcount_out])
  /\ d_allocation' = [d_allocation EXCEPT !.id = NextId(d_allocation.id)]
  /\ d_allocation_out' =
       [d_allocation_out EXCEPT !.id = NextId(d_allocation.id)]
  /\ tx_todo' = tx_todo - 1
  /\ tx_pc' = IF tx_todo = 1 THEN "return" ELSE "drain"
  /\ UNCHANGED <<d_bitcount_out, d_modulbitcount_out, d_allocation_scheme,
                 d_amplitude_abs, feedback, frames>>
  /\ UNCHANGED chanVars

(* The items reach the downstream blocks when the call returns.            *)
WorkReturn ==
  /\ tx_pc = "return"
  /\ air' = air \o tx_out
  /\ tx_out' = << >>
  /\ tx_pc' = "idle"
  /\ UNCHANGED <<allocVars, d_allocation_scheme, d_amplitude_abs, tx_todo,
                 feedback, frames>>
  /\ UNCHANGED <<wire, inbox, lost>>
=============================================================================
