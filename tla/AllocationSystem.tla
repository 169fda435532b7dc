-------------------------- MODULE AllocationSystem --------------------------
(***************************************************************************)
(* The adaptive link: allocation_src, the announcements and frames between *)
(* the two ends, allocation_buffer, and the SNR feedback that closes the   *)
(* loop.                                                                   *)
(***************************************************************************)
EXTENDS AllocationSrc, AllocationBuffer

vars == <<chanVars, srcVars, bufVars>>

Init == ChanInit /\ SrcInit /\ BufInit

Setters ==
  \/ \E a \in Allocations : SetAllocation(a)
  \/ \E scheme \in Schemes : SetAllocationScheme(scheme)

Work ==
  \/ \E n \in 1..WorkMax : WorkCall(n)
  \/ RecvSnr
  \/ SendAllocation
  \/ OutputFrame
  \/ WorkReturn

Network == Deliver \/ Lose

BufferSetter == \E a \in Allocations : SetBufferAllocation(a)

Read ==
  \/ \E n \in 1..ReadMax : ReadCall(n)
  \/ RecvAllocation
  \/ WriteItem
  \/ ReadReturn

(* feedback_sink_vf sends one message per frame; each arrives or is lost.  *)
FeedbackWork(n, arriving) ==
  /\ snr_due' = snr_due - n
  /\ feedback' = feedback + arriving
  /\ UNCHANGED <<d_allocation_buffer, out_now, rx_items, rx_done, demapped>>
  /\ UNCHANGED <<allocVars, d_allocation_scheme, d_amplitude_abs, tx_pc,
                 tx_todo, tx_out, frames>>
  /\ UNCHANGED chanVars

Next ==
  \/ (Setters \/ Work) /\ UNCHANGED bufVars
  \/ Network /\ UNCHANGED <<srcVars, bufVars>>
  \/ (BufferSetter \/ Read) /\ UNCHANGED srcVars
  \/ \E n \in 1..snr_due : \E arriving \in 0..n : FeedbackWork(n, arriving)

Spec == Init /\ [][Next]_vars

(* The scheduler keeps calling a block that has input and room, and a      *)
(* started call runs on; ZeroMQ delivers or drops.  Nobody has to call a   *)
(* setter or to report an SNR.                                             *)
FairSpec ==
  /\ Spec
  /\ WF_vars(Work /\ UNCHANGED bufVars)
  /\ WF_vars(Read /\ UNCHANGED srcVars)
  /\ WF_vars(Network /\ UNCHANGED <<srcVars, bufVars>>)

-----------------------------------------------------------------------------
(* Properties.                                                             *)

TypeOK == ChanTypeOK /\ SrcTypeOK /\ BufTypeOK

ValuesOf(seq) == {seq[k] : k \in 1..Len(seq)}

(* Everything that carries an announcement, and the frames under way.      *)
Known == ValuesOf(wire) \cup ValuesOf(inbox)
           \cup {d_allocation_buffer[id] : id \in Ids}

UnderWay == ValuesOf(air) \cup ValuesOf(tx_out)

(* The settings x describe what frame f was modulated with.                *)
Describes(x, f) ==
  /\ x.bitloading = f.bitloading
  /\ \A s \in Subcarriers :
       f.gain[s] # 0 => Gain(x.divisor)[s] = f.gain[s]

(* What is announced for a frame is what the frame is sent with: the two   *)
(* copies send_allocation and general_work use never come apart, whatever  *)
(* the RPC thread and the feedback loop do in between.                     *)
AnnouncedAsSent ==
  \A x \in Known, f \in UnderWay : x.frame = f.frame => Describes(x, f)

(* A slot is never overwritten before the frame it is for has been looked  *)
(* up: the announcement of every frame under way is on the wire, in the    *)
(* queue or in the slot of its id, unless it was dropped.                  *)
SlotKept ==
  \A f \in UnderWay :
    \/ f.frame \in lost
    \/ \E x \in Known : x.frame = f.frame

(* The receiver demaps a frame with the bit loading, power and bit count   *)
(* it was sent with, unless the announcement was dropped or had not        *)
(* arrived when work looked the id up.  Stated for the first item of each  *)
(* call of allocation_buffer::work; see EveryItemAgrees for the others.    *)
FrameAgreement ==
  \A k \in 1..Len(demapped) :
    LET d == demapped[k] IN
      d.first /\ ~d.excused =>
        /\ Describes(d.out, d.sent)
        /\ d.out.bitcount = d.sent.bitcount

(* A frame whose announcement is missing is demapped with an older frame   *)
(* of the same id or with the constructor's default, never with a newer    *)
(* one.                                                                    *)
NeverNewer ==
  \A k \in 1..Len(demapped) :
    LET d == demapped[k] IN
      d.first => \/ d.from = -1
                 \/ /\ d.from <= d.sent.frame
                    /\ d.from % IdSpace = d.sent.frame % IdSpace

(* FrameAgreement for every item of a call.  The loop of work says "set    *)
(* new allocation" for each id, but looks up the first id only.            *)
EveryItemAgrees ==
  \A k \in 1..Len(demapped) :
    LET d == demapped[k] IN ~d.excused => Describes(d.out, d.sent)

(* With coding, the frames of one call of general_work all carry the same  *)
(* allocation: set_allocation waits for d_mutex.                           *)
OneCallOneAllocation ==
  Coding => \A i, j \in 1..Len(tx_out) :
              /\ tx_out[i].bitloading = tx_out[j].bitloading
              /\ tx_out[i].gain = tx_out[j].gain

(* A call of general_work that found feedback waiting still ends: recv_snr *)
(* loops while messages come in, but they only come from frames that were  *)
(* received.                                                               *)
DrainEnds == (tx_pc = "drain") ~> (tx_pc = "return")

(* Every frame announced is demapped, whatever is dropped on the way: the  *)
(* two ends never wait for each other.                                     *)
EveryFrameDemapped ==
  \A n \in 1..FrameMax : (frames >= n) ~> (Len(demapped) >= n)

(* Transmit gain and receive divisor cancel.                               *)
PowerRestored ==
  \A k \in 1..Len(demapped) :
    LET d == demapped[k] IN
      d.first /\ ~d.excused =>
        \A s \in Subcarriers :
          d.sent.gain[s] # 0 => d.out.divisor[s] = d.sent.gain[s]

-----------------------------------------------------------------------------
(* What the link promises, in terms of AllocationLink: the frames sent so  *)
(* far are those demapped, those on the air and those still in the running *)
(* call of general_work.                                                   *)
Contents(x) == [bitloading |-> x.bitloading, bitcount |-> x.bitcount]

sentContents ==
  [k \in 1..Len(demapped) |-> Contents(demapped[k].sent)]
    \o [k \in 1..(Len(air) - rx_done) |-> Contents(air[rx_done + k])]
    \o [k \in 1..Len(tx_out) |-> Contents(tx_out[k])]

receivedContents == [k \in 1..Len(demapped) |-> Contents(demapped[k].out)]

Link == INSTANCE AllocationLink
          WITH Period <- IdSpace,
               Initial <- Contents(Settings(Default.bitloading, Default.power)),
               sent <- sentContents,
               received <- receivedContents

ImplementsLink == Link!Spec
=============================================================================
