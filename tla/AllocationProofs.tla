-------------------------- MODULE AllocationProofs --------------------------
(***************************************************************************)
(* The allocation link for every id space, window and length of the        *)
(* scheduler's calls: IndInv is inductive, so that FrameAgreement and      *)
(* NeverNewer hold, and while work is called with one id at a time every   *)
(* step of AllocationSystem is a step of AllocationLink or none.  At the   *)
(* end, the resource blocks: OwnBlock and SnrUsedOnce hold for every       *)
(* number of subcarriers and every argument of the setters.                *)
(***************************************************************************)
EXTENDS AllocationInv, ResourceBlocks, SequenceTheorems, BasicLemmas

-----------------------------------------------------------------------------
(* Lemmas about the operators.                                             *)

LEMMA DefaultType == Default \in Allocation
  BY DEF Default, Allocation, Modes

LEMMA GainType ==
  ASSUME NEW p \in [Subcarriers -> Nat]
  PROVE  Gain(p) \in [Subcarriers -> Nat]
  BY DEF Gain

LEMMA DivisorType ==
  ASSUME NEW p \in [Subcarriers -> Nat]
  PROVE  Divisor(p) \in [Subcarriers -> Nat]
  BY DEF Divisor

LEMMA NextIdType ==
  ASSUME NEW id \in 0..(IdSpace - 1)
  PROVE  NextId(id) \in 0..(IdSpace - 1)
  BY ConstantsAssumption DEF NextId

LEMMA BitCountType ==
  ASSUME NEW bl \in [Subcarriers -> Modes]
  PROVE  BitCount(bl) \in BitCounts
  BY DEF BitCounts

LEMMA SettingsType ==
  ASSUME NEW bl \in [Subcarriers -> Modes], NEW d \in [Subcarriers -> Nat]
  PROVE  Settings(bl, d) \in Output
  BY BitCountType DEF Settings, Output

LEMMA InstallType ==
  ASSUME SrcTypeOK, NEW a \in Allocation, Install(a)
  PROVE  /\ d_allocation' \in [id : 0..(IdSpace - 1),
                               bitloading : [Subcarriers -> Modes],
                               power : [Subcarriers -> Nat]]
         /\ d_allocation_out' \in [id : 0..(IdSpace - 1),
                                   bitloading : [Subcarriers -> Modes],
                                   power : [Subcarriers -> Nat]]
         /\ d_bitcount_out' \in BitCounts
  BY BitCountType DEF SrcTypeOK, Install, Allocation

-----------------------------------------------------------------------------
(* Type correctness, one lemma per component's step.                       *)

LEMMA InitTypeOK == Init => TypeOK
<1> SUFFICES ASSUME Init PROVE TypeOK
  OBVIOUS
<1> USE ConstantsAssumption, SrcAssumption, BufAssumption
<1>1. ChanTypeOK
  BY DEF Init, ChanInit, ChanTypeOK
<1>2. SrcTypeOK
  BY DefaultType, BitCountType DEF Init, SrcInit, SrcTypeOK, Allocation, Schemes
<1>3. BufTypeOK
  BY SMTT(30), DefaultType, SettingsType
     DEF Init, BufInit, BufTypeOK, Allocation, Slot, Ids
<1> QED
  BY <1>1, <1>2, <1>3 DEF TypeOK

LEMMA SettersTypeOK == TypeOK /\ Setters /\ UNCHANGED bufVars => TypeOK'
<1> SUFFICES ASSUME TypeOK, Setters, UNCHANGED bufVars PROVE TypeOK'
  OBVIOUS
<1> USE ConstantsAssumption DEF TypeOK
<1>1. BufTypeOK' /\ ChanTypeOK'
  BY DEF BufTypeOK, ChanTypeOK, bufVars, chanVars, Setters, SetAllocation,
         SetAllocationScheme
<1>2. ASSUME NEW a \in Allocations, SetAllocation(a)
      PROVE  SrcTypeOK'
  <2>1. a \in Allocation /\ Unit \in Amplitudes
    OBVIOUS
  <2>2. d_modulbitcount_out' \in {ModulOf(bl) : bl \in [Subcarriers -> Modes]}
    BY <1>2, <2>1 DEF SetAllocation, Allocation
  <2> QED
    BY <1>2, <2>1, <2>2, InstallType DEF SetAllocation, SrcTypeOK
<1>3. ASSUME NEW scheme \in Schemes, SetAllocationScheme(scheme)
      PROVE  SrcTypeOK'
  BY <1>3 DEF SetAllocationScheme, SrcTypeOK, allocVars
<1> QED
  BY <1>1, <1>2, <1>3 DEF Setters

LEMMA WorkTypeOK == TypeOK /\ Control /\ Work /\ UNCHANGED bufVars => TypeOK'
<1> SUFFICES ASSUME TypeOK, Control, Work, UNCHANGED bufVars PROVE TypeOK'
  OBVIOUS
<1> USE ConstantsAssumption, SrcAssumption DEF TypeOK
<1>1. BufTypeOK'
  BY DEF BufTypeOK, bufVars
<1>2. ASSUME NEW n \in 1..WorkMax, WorkCall(n)
      PROVE  SrcTypeOK' /\ ChanTypeOK'
  BY SMTT(30), <1>2 DEF WorkCall, SrcTypeOK, ChanTypeOK, allocVars, chanVars
<1>3. CASE RecvSnr
  <2>1. ChanTypeOK'
    BY <1>3 DEF RecvSnr, ChanTypeOK, chanVars
  <2>2. feedback' \in Nat
    BY <1>3 DEF RecvSnr, TakeFeedback, SrcTypeOK
  <2>3. ASSUME ConstantModulation PROVE SrcTypeOK'
    BY <1>3, <2>2, <2>3 DEF RecvSnr, ConstantModulation, SrcTypeOK, allocVars
  <2>4. ASSUME NEW a \in Allocations, RateOrLoadingAdaptive(a)
        PROVE  SrcTypeOK'
    BY <1>3, <2>2, <2>4, InstallType
       DEF RecvSnr, RateOrLoadingAdaptive, SrcTypeOK
  <2>5. ASSUME NEW a \in Allocations, NEW amplitude \in Amplitudes,
               MarginAdaptive(a, amplitude)
        PROVE  SrcTypeOK'
    <3>1. CASE d_amplitude_abs' = Unit /\ Install(Default)
      BY <1>3, <2>2, <2>5, <3>1, InstallType, DefaultType
         DEF RecvSnr, MarginAdaptive, SrcTypeOK
    <3>2. CASE d_amplitude_abs' = amplitude /\ Install(a)
      BY <1>3, <2>2, <2>5, <3>2, InstallType
         DEF RecvSnr, MarginAdaptive, SrcTypeOK
    <3>3. CASE UNCHANGED <<d_amplitude_abs, d_allocation, d_allocation_out,
                           d_bitcount_out>>
      BY <1>3, <2>2, <2>5, <3>3 DEF RecvSnr, MarginAdaptive, SrcTypeOK
    <3> QED
      BY <2>5, <3>1, <3>2, <3>3 DEF MarginAdaptive
  <2> QED
    BY <1>1, <1>3, <2>1, <2>3, <2>4, <2>5 DEF RecvSnr
<1>4. CASE SendAllocation
  <2>1. SrcTypeOK'
    BY <1>4 DEF SendAllocation, SrcTypeOK, allocVars
  <2>2. [id |-> d_allocation.id, frame |-> frames,
         bitloading |-> d_allocation.bitloading,
         divisor |-> Divisor(d_allocation.power)] \in Announcement
    BY DivisorType DEF SrcTypeOK, Announcement
  <2>3. ChanTypeOK'
    BY <1>4, <2>2 DEF SendAllocation, ChanTypeOK
  <2> QED
    BY <1>1, <2>1, <2>3
<1>5. CASE OutputFrame
  <2>1. ChanTypeOK'
    BY <1>5 DEF OutputFrame, ChanTypeOK, chanVars
  <2>2. [id |-> d_allocation_out.id,
         frame |-> frames - 1,
         bitloading |-> d_allocation_out.bitloading,
         gain |-> Gain(d_allocation_out.power),
         amplitude |-> IF Coding THEN Unit ELSE d_amplitude_abs,
         bitcount |-> d_bitcount_out] \in Frame
    <3>1. frames - 1 \in Nat
      <4>1. frames > 0
        BY <1>5 DEF OutputFrame, Control
      <4>2. frames \in Nat
        BY DEF SrcTypeOK
      <4> QED
        BY <4>1, <4>2
    <3>2. (IF Coding THEN Unit ELSE d_amplitude_abs) \in Amplitudes
      BY DEF SrcTypeOK
    <3>3. Gain(d_allocation_out.power) \in [Subcarriers -> Nat]
      BY GainType DEF SrcTypeOK
    <3> QED
      BY <3>1, <3>2, <3>3 DEF SrcTypeOK, Frame
  <2>2b. tx_out' \in Seq(Frame)
    BY <1>5, <2>2, AppendProperties DEF OutputFrame, SrcTypeOK
  <2>3. /\ tx_todo' \in 0..WorkMax
        /\ tx_pc' \in {"idle", "drain", "output", "return"}
    <3>1. tx_todo \in 1..WorkMax
      BY <1>5 DEF OutputFrame, SrcTypeOK, Control
    <3> QED
      BY <1>5, <3>1 DEF OutputFrame
  <2>4. NextId(d_allocation.id) \in 0..(IdSpace - 1)
    BY NextIdType DEF SrcTypeOK
  <2>5. SrcTypeOK'
    BY <1>5, <2>2b, <2>3, <2>4 DEF OutputFrame, SrcTypeOK
  <2> QED
    BY <1>1, <2>1, <2>5
<1>6. CASE WorkReturn
  <2>1. air' \in Seq(Frame)
    BY <1>6, ConcatProperties DEF WorkReturn, SrcTypeOK, ChanTypeOK
  <2> QED
    BY <1>1, <1>6, <2>1 DEF WorkReturn, SrcTypeOK, ChanTypeOK, allocVars
<1> QED
  BY <1>1, <1>2, <1>3, <1>4, <1>5, <1>6 DEF Work

LEMMA NetworkTypeOK ==
  TypeOK /\ Network /\ UNCHANGED <<srcVars, bufVars>> => TypeOK'
<1> SUFFICES ASSUME TypeOK, Network, UNCHANGED <<srcVars, bufVars>>
             PROVE  TypeOK'
  OBVIOUS
<1> USE ConstantsAssumption DEF TypeOK
<1>1. BufTypeOK' /\ SrcTypeOK'
  BY DEF BufTypeOK, SrcTypeOK, bufVars, srcVars
<1>2. wire # << >> => Head(wire) \in Announcement /\ Tail(wire) \in Seq(Announcement)
  BY DEF ChanTypeOK
<1>3. Deliver => ChanTypeOK'
  BY <1>2 DEF Deliver, ChanTypeOK
<1>4. Lose => ChanTypeOK'
  <2> SUFFICES ASSUME Lose PROVE ChanTypeOK'
    OBVIOUS
  <2>1. Head(wire).frame \in Nat
    BY <1>2 DEF Lose, Announcement
  <2> QED
    BY <1>2, <2>1 DEF Lose, ChanTypeOK
<1> QED
  BY <1>1, <1>3, <1>4 DEF Network

LEMMA ReadTypeOK ==
  TypeOK /\ Control /\ (BufferSetter \/ Read) /\ UNCHANGED srcVars => TypeOK'
<1> SUFFICES ASSUME TypeOK, Control, BufferSetter \/ Read, UNCHANGED srcVars
             PROVE  TypeOK'
  OBVIOUS
<1> USE ConstantsAssumption, BufAssumption DEF TypeOK
<1>1. SrcTypeOK'
  BY DEF SrcTypeOK, srcVars
<1>2. ASSUME NEW a \in Allocations, SetBufferAllocation(a)
      PROVE  BufTypeOK' /\ ChanTypeOK'
  BY <1>2, SettingsType
     DEF SetBufferAllocation, BufTypeOK, ChanTypeOK, chanVars, Allocation
<1>3. ASSUME NEW n \in 1..ReadMax, ReadCall(n)
      PROVE  BufTypeOK' /\ ChanTypeOK'
  BY <1>3 DEF ReadCall, BufTypeOK, ChanTypeOK, chanVars
<1>4. CASE RecvAllocation
  <2>1. Head(inbox) \in Announcement /\ Tail(inbox) \in Seq(Announcement)
    BY <1>4 DEF RecvAllocation, ChanTypeOK
  <2>2. ChanTypeOK'
    BY <1>4, <2>1 DEF RecvAllocation, ChanTypeOK
  <2>3. [frame |-> Head(inbox).frame, bitloading |-> Head(inbox).bitloading,
         divisor |-> Head(inbox).divisor] \in Slot
    BY <2>1 DEF Announcement, Slot
  <2>4. d_allocation_buffer' \in [Ids -> Slot]
    BY <1>4, <2>1, <2>3 DEF RecvAllocation, BufTypeOK, Announcement, Ids
  <2> QED
    BY <1>1, <1>4, <2>2, <2>4 DEF RecvAllocation, BufTypeOK
<1>5. CASE WriteItem
  <2> DEFINE slot == d_allocation_buffer[SlotId(rx_done)]
             sent == air[rx_done + 1]
  <2>1. rx_done + 1 \in 1..Len(air) /\ 1 \in 1..Len(air)
    BY <1>5 DEF WriteItem, Control, BufTypeOK, ChanTypeOK
  <2>2. sent \in Frame /\ SlotId(rx_done) \in Ids
    <3>1. sent \in Frame /\ air[1] \in Frame
      BY <2>1 DEF ChanTypeOK
    <3>2. air[1].id \in Ids
      BY <3>1 DEF Frame, Ids
    <3> QED
      BY <3>1, <3>2 DEF SlotId
  <2>3. slot \in Slot
    BY <2>2 DEF BufTypeOK
  <2>4. out_now' \in Output
    BY <1>5, <2>3, SettingsType DEF WriteItem, Slot
  <2>5. [sent |-> sent, out |-> out_now', from |-> slot.frame,
         first |-> rx_done = 0,
         excused |-> sent.frame \in lost \cup InTransit] \in Demap
    BY <2>2, <2>3, <2>4 DEF Demap, Slot
  <2>6. demapped' \in Seq(Demap)
    BY <1>5, <2>5 DEF WriteItem, BufTypeOK
  <2>7. rx_done' \in 0..rx_items
    BY <1>5 DEF WriteItem, BufTypeOK
  <2> QED
    BY <1>1, <1>5, <2>4, <2>6, <2>7 DEF WriteItem, BufTypeOK, ChanTypeOK, chanVars
<1>6. CASE ReadReturn
  <2>1. air' \in Seq(Frame)
    BY <1>6 DEF ReadReturn, ChanTypeOK, BufTypeOK
  <2> QED
    BY <1>1, <1>6, <2>1 DEF ReadReturn, BufTypeOK, ChanTypeOK
<1> QED
  BY <1>1, <1>2, <1>3, <1>4, <1>5, <1>6 DEF BufferSetter, Read

LEMMA FeedbackTypeOK ==
  ASSUME TypeOK, NEW n \in 1..snr_due, NEW arriving \in 0..n,
         FeedbackWork(n, arriving)
  PROVE  TypeOK'
BY DEF TypeOK, FeedbackWork, SrcTypeOK, BufTypeOK, ChanTypeOK, chanVars, allocVars

LEMMA ControlStep == TypeOK /\ Control /\ [Next]_vars => Control'
<1> SUFFICES ASSUME TypeOK, Control, [Next]_vars PROVE Control'
  OBVIOUS
<1> USE ConstantsAssumption, SrcAssumption, BufAssumption
<1>1. CASE Setters /\ UNCHANGED bufVars
  BY <1>1 DEF Control, Setters, SetAllocation, SetAllocationScheme, chanVars,
              bufVars
<1>2. CASE Work /\ UNCHANGED bufVars
  <2>1. ASSUME NEW n \in 1..WorkMax, WorkCall(n) PROVE Control'
    BY <1>2, <2>1 DEF WorkCall, Control, chanVars, bufVars, TypeOK, ChanTypeOK,
                      SrcTypeOK
  <2>2. CASE RecvSnr
    BY <1>2, <2>2 DEF RecvSnr, Control, chanVars, bufVars
  <2>3. CASE SendAllocation
    <3>1. frames \in Nat /\ frames' = frames + 1
      BY <2>3 DEF SendAllocation, TypeOK, SrcTypeOK
    <3> QED
      BY <1>2, <2>3, <3>1 DEF SendAllocation, Control, bufVars
  <2>4. CASE OutputFrame
    <3>1. Len(tx_out') = Len(tx_out) + 1
      BY <2>4 DEF OutputFrame, TypeOK, SrcTypeOK
    <3>2. /\ tx_todo > 0 /\ frames > 0
          /\ Len(air) + Len(tx_out) + tx_todo <= Window
          /\ rx_items <= Len(air)
      BY <2>4 DEF OutputFrame, Control
    <3>3. /\ tx_todo \in Nat /\ Len(tx_out) \in Nat /\ Len(air) \in Nat
          /\ Window \in Nat
      BY DEF TypeOK, ChanTypeOK, SrcTypeOK
    <3>4. /\ tx_todo' = tx_todo - 1
          /\ tx_pc' = IF tx_todo = 1 THEN "return" ELSE "drain"
          /\ UNCHANGED <<air, frames, rx_items>>
      BY <1>2, <2>4 DEF OutputFrame, chanVars, bufVars
    <3>5. Len(air') + Len(tx_out') + tx_todo' <= Window
      BY <3>1, <3>2, <3>3, <3>4
    <3>6. tx_pc' = "drain" => tx_todo' > 0
      BY <3>2, <3>3, <3>4
    <3>7. tx_pc' = "return" => tx_todo' = 0
      BY <3>4
    <3> QED
      BY <3>2, <3>4, <3>5, <3>6, <3>7 DEF Control
  <2>5. CASE WorkReturn
    <3>1. Len(air') = Len(air) + Len(tx_out)
      BY <2>5 DEF WorkReturn, TypeOK, ChanTypeOK, SrcTypeOK
    <3> QED
      BY <1>2, <2>5, <3>1 DEF WorkReturn, Control, bufVars, TypeOK, ChanTypeOK,
                              SrcTypeOK, BufTypeOK
  <2> QED
    BY <1>2, <2>1, <2>2, <2>3, <2>4, <2>5 DEF Work
<1>3. CASE Network /\ UNCHANGED <<srcVars, bufVars>>
  BY <1>3 DEF Network, Deliver, Lose, Control, srcVars, bufVars
<1>4. CASE (BufferSetter \/ Read) /\ UNCHANGED srcVars
  <2>1. ASSUME NEW a \in Allocations, SetBufferAllocation(a) PROVE Control'
    BY <1>4, <2>1 DEF SetBufferAllocation, Control, chanVars, srcVars
  <2>2. ASSUME NEW n \in 1..ReadMax, ReadCall(n) PROVE Control'
    BY <1>4, <2>2 DEF ReadCall, Control, chanVars, srcVars
  <2>3. CASE RecvAllocation
    BY <1>4, <2>3 DEF RecvAllocation, Control, srcVars
  <2>4. CASE WriteItem
    BY <1>4, <2>4 DEF WriteItem, Control, chanVars, srcVars
  <2>5. CASE ReadReturn
    <3>1. Len(air') = Len(air) - rx_items
      BY <2>5 DEF ReadReturn, Control, TypeOK, ChanTypeOK, BufTypeOK
    <3>2. /\ rx_items' = 0 /\ UNCHANGED <<tx_pc, tx_todo, tx_out, frames>>
      BY <1>4, <2>5 DEF ReadReturn, srcVars
    <3>3. /\ rx_items \in Nat /\ rx_items <= Len(air) /\ Len(air) \in Nat
          /\ Len(tx_out) \in Nat /\ tx_todo \in Nat
      BY <2>5 DEF ReadReturn, Control, TypeOK, ChanTypeOK, SrcTypeOK, BufTypeOK
    <3>4. Len(air') + Len(tx_out') + tx_todo' <= Window /\ rx_items' <= Len(air')
      <4>1. Len(air) + Len(tx_out) + tx_todo <= Window /\ Window \in Nat
        BY <2>5, ConstantsAssumption DEF Control
      <4> QED
        BY <3>1, <3>2, <3>3, <4>1
    <3> QED
      BY <3>2, <3>4 DEF Control
  <2> QED
    BY <1>4, <2>1, <2>2, <2>3, <2>4, <2>5 DEF BufferSetter, Read
<1>5. ASSUME NEW n \in 1..snr_due, NEW arriving \in 0..n,
             FeedbackWork(n, arriving)
      PROVE  Control'
  BY <1>5 DEF FeedbackWork, Control, chanVars
<1>6. CASE UNCHANGED vars
  BY <1>6 DEF Control, vars, chanVars, srcVars, bufVars
<1> QED
  BY <1>1, <1>2, <1>3, <1>4, <1>5, <1>6 DEF Next

LEMMA TypeStep == TypeOK /\ Control /\ [Next]_vars => TypeOK'
<1> SUFFICES ASSUME TypeOK, Control, [Next]_vars PROVE TypeOK'
  OBVIOUS
<1>1. CASE UNCHANGED vars
  BY <1>1 DEF TypeOK, ChanTypeOK, SrcTypeOK, BufTypeOK, InTransit, vars,
              chanVars, srcVars, bufVars
<1> QED
  BY <1>1, SettersTypeOK, WorkTypeOK, NetworkTypeOK, ReadTypeOK, FeedbackTypeOK
     DEF Next

(* Every variable keeps its type, for every number of subcarriers, every   *)
(* id space, window and length of the scheduler's calls.                   *)
THEOREM TypeCorrect == Spec => [](TypeOK /\ Control)
<1>1. Init => Control
  BY ConstantsAssumption, SrcAssumption, BufAssumption
     DEF Init, ChanInit, SrcInit, BufInit, Control
<1>2. TypeOK /\ Control /\ [Next]_vars => (TypeOK /\ Control)'
  BY TypeStep, ControlStep
<1> QED
  BY <1>1, <1>2, InitTypeOK, PTL DEF Spec

-----------------------------------------------------------------------------
(* The items of a call of general_work carry the current allocation; there *)
(* are none between calls, which is when set_allocation gets the mutex.    *)
CurrentItems ==
  Coding => \A k \in 1..Len(tx_out) :
              /\ tx_out[k].bitloading = d_allocation_out.bitloading
              /\ tx_out[k].gain = Gain(d_allocation_out.power)

LEMMA CurrentItemsStep ==
  TypeOK /\ Control /\ CurrentItems /\ [Next]_vars => CurrentItems'
<1> SUFFICES ASSUME TypeOK, Control, Coding, CurrentItems, [Next]_vars
             PROVE  \A k \in 1..Len(tx_out') :
                      /\ tx_out'[k].bitloading = d_allocation_out'.bitloading
                      /\ tx_out'[k].gain = Gain(d_allocation_out'.power)
  BY DEF CurrentItems, Gain
<1> DEFINE Carries(item, a) ==
             item.bitloading = a.bitloading /\ item.gain = Gain(a.power)
<1>0. \A k \in 1..Len(tx_out) : Carries(tx_out[k], d_allocation_out)
  BY DEF CurrentItems
<1> SUFFICES \A k \in 1..Len(tx_out') : Carries(tx_out'[k], d_allocation_out')
  OBVIOUS
<1> HIDE DEF Carries
<1>1. CASE UNCHANGED <<tx_out, d_allocation_out>>
  BY <1>0, <1>1
<1>2. CASE tx_out' = << >>
  BY <1>2
<1>3. ASSUME NEW a \in Allocations, SetAllocation(a)
      PROVE  tx_out' = << >>
  BY <1>3 DEF SetAllocation, MutexFree, Control
<1>4. CASE OutputFrame
  <2>1. d_allocation_out \in [id : 0..(IdSpace - 1),
                              bitloading : [Subcarriers -> Modes],
                              power : [Subcarriers -> Nat]]
    BY DEF TypeOK, SrcTypeOK
  <2>2. /\ d_allocation_out'.bitloading = d_allocation_out.bitloading
        /\ d_allocation_out'.power = d_allocation_out.power
    BY <1>4, <2>1 DEF OutputFrame
  <2>3. PICK item : /\ tx_out' = Append(tx_out, item)
                    /\ item.bitloading = d_allocation_out.bitloading
                    /\ item.gain = Gain(d_allocation_out.power)
    BY <1>4 DEF OutputFrame
  <2>4. Carries(item, d_allocation_out')
    BY <2>2, <2>3 DEF Carries
  <2>5. \A k \in 1..Len(tx_out) : Carries(tx_out[k], d_allocation_out')
    BY <1>0, <2>2 DEF Carries
  <2>6. tx_out \in Seq(Frame)
    BY DEF TypeOK, SrcTypeOK
  <2>7. /\ Len(tx_out') = Len(tx_out) + 1
        /\ tx_out'[Len(tx_out) + 1] = item
        /\ \A k \in 1..Len(tx_out) : tx_out'[k] = tx_out[k]
    BY <2>3, <2>6
  <2> QED
    BY <2>4, <2>5, <2>6, <2>7
<1>5. CASE Work /\ ~OutputFrame
  <2>1. ~RecvSnr
    BY DEF RecvSnr
  <2> QED
    BY <1>1, <1>2, <1>5, <2>1
       DEF Work, WorkCall, SendAllocation, WorkReturn, allocVars
<1>6. CASE UNCHANGED srcVars \/ UNCHANGED vars
  BY <1>1, <1>6 DEF srcVars, vars
<1>7. ASSUME NEW n \in 1..snr_due, NEW arriving \in 0..n, FeedbackWork(n, arriving)
      PROVE  UNCHANGED <<tx_out, d_allocation_out>>
  BY <1>7 DEF FeedbackWork, allocVars
<1>8. ASSUME NEW scheme \in Schemes, SetAllocationScheme(scheme)
      PROVE  UNCHANGED <<tx_out, d_allocation_out>>
  BY <1>8 DEF SetAllocationScheme, allocVars
<1> QED
  BY <1>1, <1>2, <1>3, <1>4, <1>5, <1>6, <1>7, <1>8 DEF Next, Setters

(* With coding, set_allocation cannot change the allocation between two    *)
(* frames of one call of general_work, whatever the length of the call.    *)
THEOREM OneCall == Spec => []OneCallOneAllocation
<1>1. Init => CurrentItems
  BY DEF Init, SrcInit, CurrentItems
<1>2. CurrentItems => OneCallOneAllocation
  BY DEF CurrentItems, OneCallOneAllocation
<1> QED
  BY <1>1, <1>2, CurrentItemsStep, TypeCorrect, PTL DEF Spec

-----------------------------------------------------------------------------
(* IndInv is inductive.                                                    *)
USE ConstantsAssumption, SrcAssumption, BufAssumption

(* The part of IndInv that is not about types and calls in progress.       *)
Numbers ==
  /\ SourceNumbers
  /\ AirNumbers
  /\ OutNumbers
  /\ WireNumbers
  /\ InboxNumbers
  /\ SlotNumbers
  /\ Held
  /\ Content
  /\ FrameAgreement
  /\ NeverNewer

(* Receiving the inverse of a power restores what was scaled with it.      *)
LEMMA DivisorDescribes ==
  ASSUME NEW p \in [Subcarriers -> Nat], NEW s \in Subcarriers,
         Gain(p)[s] # 0
  PROVE  Gain(Divisor(p))[s] = Gain(p)[s]
  BY DEF Gain, Divisor

(* A step that touches none of the numbered things keeps them numbered.    *)
LEMMA QuietStep ==
  ASSUME Numbers,
         UNCHANGED chanVars,
         UNCHANGED <<d_allocation, d_allocation_out, d_bitcount_out, frames,
                     tx_out, d_allocation_buffer, demapped>>,
         Pending' = Pending
  PROVE  Numbers'
<1> USE DEF chanVars
<1>1. FirstOut' = FirstOut /\ FirstAir' = FirstAir /\ FirstWire' = FirstWire
  BY DEF FirstOut, FirstAir, FirstWire
<1>2. SourceNumbers' /\ AirNumbers' /\ OutNumbers' /\ WireNumbers'
  BY <1>1 DEF Numbers, SourceNumbers, AirNumbers, OutNumbers, WireNumbers
<1>3. InboxNumbers' /\ SlotNumbers' /\ Held'
  BY <1>1 DEF Numbers, InboxNumbers, SlotNumbers, Held
<1>4. Content'
  BY DEF Numbers, Content, Known, UnderWay, ValuesOf
<1>5. FrameAgreement' /\ NeverNewer'
  BY DEF Numbers, FrameAgreement, NeverNewer
<1> QED
  BY <1>2, <1>3, <1>4, <1>5 DEF Numbers

(* Installing an allocation between two frames.                            *)
LEMMA InstallStep ==
  ASSUME TypeOK, Numbers, NEW a \in Allocation, Install(a),
         UNCHANGED chanVars,
         UNCHANGED <<frames, tx_out, d_allocation_buffer, demapped>>,
         Pending = 0, Pending' = 0
  PROVE  Numbers'
<1> USE DEF chanVars
<1>1. FirstOut' = FirstOut /\ FirstAir' = FirstAir /\ FirstWire' = FirstWire
  BY DEF FirstOut, FirstAir, FirstWire
<1>2. SourceNumbers'
  BY <1>1 DEF Numbers, SourceNumbers, Install, TypeOK, SrcTypeOK
<1>3. AirNumbers' /\ OutNumbers' /\ WireNumbers'
  BY <1>1 DEF Numbers, AirNumbers, OutNumbers, WireNumbers
<1>4. InboxNumbers' /\ SlotNumbers' /\ Held'
  BY <1>1 DEF Numbers, InboxNumbers, SlotNumbers, Held
<1>5. Content'
  BY DEF Numbers, Content, Known, UnderWay, ValuesOf
<1>6. FrameAgreement' /\ NeverNewer'
  BY DEF Numbers, FrameAgreement, NeverNewer
<1> QED
  BY <1>2, <1>3, <1>4, <1>5, <1>6 DEF Numbers

LEMMA SettersStep ==
  ASSUME TypeOK, Numbers, Setters, UNCHANGED bufVars
  PROVE  Numbers'
<1>1. ASSUME NEW a \in Allocations, SetAllocation(a) PROVE Numbers'
  <2>1. Pending = 0 /\ Pending' = 0
    BY <1>1 DEF SetAllocation, MutexFree, Pending
  <2>2. a \in Allocation /\ Unit \in Amplitudes
    OBVIOUS
  <2> QED
    BY <1>1, <2>1, <2>2, InstallStep DEF SetAllocation, bufVars
<1>2. ASSUME NEW scheme \in Schemes, SetAllocationScheme(scheme)
      PROVE  Numbers'
  BY <1>2, QuietStep DEF SetAllocationScheme, bufVars, allocVars, Pending
<1> QED
  BY <1>1, <1>2 DEF Setters

LEMMA RecvSnrStep ==
  ASSUME TypeOK, Numbers, RecvSnr, UNCHANGED bufVars
  PROVE  Numbers'
<1>1. /\ Pending = 0 /\ Pending' = 0
      /\ UNCHANGED chanVars
      /\ UNCHANGED <<frames, tx_out, d_allocation_buffer, demapped>>
  BY DEF RecvSnr, Pending, bufVars
<1>2. CASE ConstantModulation
  BY <1>1, <1>2, QuietStep DEF ConstantModulation, allocVars
<1>3. ASSUME NEW a \in Allocations, RateOrLoadingAdaptive(a) PROVE Numbers'
  BY <1>1, <1>3, InstallStep DEF RateOrLoadingAdaptive
<1>4. ASSUME NEW a \in Allocations, NEW amplitude \in Amplitudes,
             MarginAdaptive(a, amplitude)
      PROVE  Numbers'
  BY <1>1, <1>4, InstallStep, QuietStep, DefaultType DEF MarginAdaptive
<1> QED
  BY <1>2, <1>3, <1>4 DEF RecvSnr

(* What the type invariant says of the elements of the queues.             *)
LEMMA ElementTypes ==
  ASSUME TypeOK
  PROVE  /\ Len(wire) \in Nat /\ Len(inbox) \in Nat /\ Len(air) \in Nat
         /\ Len(tx_out) \in Nat /\ frames \in Nat /\ Pending \in {0, 1}
         /\ \A k \in 1..Len(wire) : wire[k] \in Announcement
         /\ \A k \in 1..Len(inbox) : inbox[k].frame \in Nat
         /\ \A k \in 1..Len(air) : air[k] \in Frame
         /\ \A id \in Ids : d_allocation_buffer[id].frame \in Nat \cup {-1}
<1>1. \A k \in 1..Len(wire) : wire[k] \in Announcement
  BY DEF TypeOK, ChanTypeOK
<1>2. \A k \in 1..Len(inbox) : inbox[k] \in Announcement
  BY DEF TypeOK, ChanTypeOK
<1>3. \A k \in 1..Len(inbox) : inbox[k].frame \in Nat
  BY <1>2 DEF Announcement
<1>4. \A k \in 1..Len(air) : air[k] \in Frame
  BY DEF TypeOK, ChanTypeOK
<1>5. \A id \in Ids : d_allocation_buffer[id].frame \in Nat \cup {-1}
  BY DEF TypeOK, BufTypeOK, Slot
<1>6. Len(wire) \in Nat /\ Len(inbox) \in Nat /\ Len(air) \in Nat
  BY DEF TypeOK, ChanTypeOK
<1>7. Len(tx_out) \in Nat /\ frames \in Nat /\ Pending \in {0, 1}
  BY DEF TypeOK, SrcTypeOK, Pending
<1> QED
  BY <1>1, <1>3, <1>4, <1>5, <1>6, <1>7

(* Every frame and announcement in a queue has a number below frames.      *)
LEMMA NumbersBelow ==
  ASSUME TypeOK, Numbers
  PROVE  /\ FirstAir \in Nat /\ FirstOut \in Nat /\ FirstWire \in Nat
         /\ FirstOut <= frames - Pending /\ FirstAir <= FirstOut
         /\ FirstWire <= frames
         /\ \A f \in UnderWay : f.frame \in Nat /\ f.frame < frames - Pending
         /\ \A x \in Known : x.frame \in Int /\ x.frame < frames
<1>0. /\ FirstAir >= 0 /\ FirstWire >= 0
      /\ AirNumbers /\ OutNumbers /\ WireNumbers
      /\ InboxNumbers /\ SlotNumbers
  BY DEF Numbers, SourceNumbers, WireNumbers
<1>1. /\ FirstAir \in Nat /\ FirstOut \in Nat /\ FirstWire \in Nat
      /\ FirstOut <= frames - Pending /\ FirstAir <= FirstOut
      /\ FirstWire <= frames
  BY SMTT(30), <1>0, ElementTypes DEF FirstAir, FirstOut, FirstWire
<1>2. ASSUME NEW k \in 1..Len(air)
      PROVE  air[k].frame \in Nat /\ air[k].frame < frames - Pending
  <2>1. air[k].frame = FirstAir + k - 1
    BY <1>0 DEF AirNumbers, WellNumbered
  <2> QED
    BY <1>1, <2>1, ElementTypes DEF FirstAir
<1>3. ASSUME NEW k \in 1..Len(tx_out)
      PROVE  tx_out[k].frame \in Nat /\ tx_out[k].frame < frames - Pending
  <2>1. tx_out[k].frame = FirstOut + k - 1
    BY <1>0 DEF OutNumbers, WellNumbered
  <2> QED
    BY SMTT(30), <1>1, <2>1, ElementTypes DEF FirstOut
<1>4. ASSUME NEW k \in 1..Len(wire)
      PROVE  wire[k].frame \in Int /\ wire[k].frame < frames
  <2>1. wire[k].frame = FirstWire + k - 1
    BY <1>0 DEF WireNumbers
  <2> QED
    BY <1>1, <2>1, ElementTypes DEF FirstWire
<1>5. ASSUME NEW k \in 1..Len(inbox)
      PROVE  inbox[k].frame \in Int /\ inbox[k].frame < frames
  BY <1>0, <1>1, ElementTypes DEF InboxNumbers
<1>6. ASSUME NEW id \in Ids
      PROVE  /\ d_allocation_buffer[id].frame \in Int
             /\ d_allocation_buffer[id].frame < frames
  BY <1>0, <1>1, ElementTypes DEF SlotNumbers
<1> QED
  BY <1>1, <1>2, <1>3, <1>4, <1>5, <1>6 DEF UnderWay, Known, ValuesOf

LEMMA SendAllocationStep ==
  ASSUME TypeOK, Numbers, SendAllocation, UNCHANGED bufVars
  PROVE  Numbers'
<1> DEFINE msg == [id |-> d_allocation.id,
                   frame |-> frames,
                   bitloading |-> d_allocation.bitloading,
                   divisor |-> Divisor(d_allocation.power)]
<1>1. /\ wire' = Append(wire, msg)
      /\ frames' = frames + 1
      /\ Pending = 0 /\ Pending' = 1
      /\ UNCHANGED <<inbox, air, lost, d_allocation, d_allocation_out,
                     d_bitcount_out, tx_out, d_allocation_buffer, demapped>>
  BY DEF SendAllocation, Pending, allocVars, bufVars
<1>2. /\ msg \in Announcement
      /\ Len(wire') = Len(wire) + 1
      /\ \A k \in 1..Len(wire) : wire'[k] = wire[k]
      /\ wire'[Len(wire) + 1] = msg
      /\ Len(wire) \in Nat
  <2>1. msg \in Announcement
    BY DivisorType DEF TypeOK, SrcTypeOK, Announcement
  <2> QED
    BY <1>1, <2>1 DEF TypeOK, ChanTypeOK
<1>3. FirstOut' = FirstOut /\ FirstAir' = FirstAir /\ FirstWire' = FirstWire
  BY <1>1, <1>2 DEF FirstOut, FirstAir, FirstWire, TypeOK, SrcTypeOK, ChanTypeOK
<1> HIDE DEF msg
<1>4. SourceNumbers'
  <2>1. (frames' - Pending') = frames - Pending
    BY <1>1 DEF TypeOK, SrcTypeOK
  <2> QED
    BY <1>1, <1>3, <2>1 DEF Numbers, SourceNumbers
<1>5. AirNumbers' /\ OutNumbers'
  BY <1>1, <1>3 DEF Numbers, AirNumbers, OutNumbers
<1>6. WireNumbers'
  <2>1. msg.frame = FirstWire + (Len(wire) + 1) - 1
        /\ msg.id = msg.frame % IdSpace
    BY <1>1 DEF msg, FirstWire, Numbers, SourceNumbers, TypeOK, SrcTypeOK,
                ChanTypeOK
  <2> QED
    BY <1>2, <1>3, <2>1 DEF Numbers, WireNumbers
<1>7. InboxNumbers' /\ SlotNumbers' /\ Held'
  BY <1>1, <1>3 DEF Numbers, InboxNumbers, SlotNumbers, Held
<1>8. Content'
  <2>1. Known' \subseteq Known \cup {msg}
    BY <1>1, <1>2 DEF Known, ValuesOf
  <2>2. UnderWay' = UnderWay
    BY <1>1 DEF UnderWay, ValuesOf
  <2>3. ASSUME NEW x \in Known
        PROVE  /\ \A f \in UnderWay : x.frame = f.frame => Describes(x, f)
               /\ x.frame # frames' - 1
    BY <1>1, NumbersBelow DEF Numbers, Content, TypeOK, SrcTypeOK
  <2>4. /\ \A f \in UnderWay : msg.frame # f.frame
        /\ msg.bitloading = d_allocation.bitloading
        /\ msg.divisor = Divisor(d_allocation.power)
    BY <1>1, NumbersBelow DEF msg, TypeOK, SrcTypeOK
  <2>5. UNCHANGED d_allocation
    BY <1>1
  <2> QED
    BY <2>1, <2>2, <2>3, <2>4, <2>5 DEF Content, Describes
<1>9. FrameAgreement' /\ NeverNewer'
  BY <1>1 DEF Numbers, FrameAgreement, NeverNewer
<1> QED
  BY <1>4, <1>5, <1>6, <1>7, <1>8, <1>9 DEF Numbers

LEMMA OutputFrameStep ==
  ASSUME TypeOK, Numbers, OutputFrame, UNCHANGED bufVars
  PROVE  Numbers'
<1> DEFINE f == [id |-> d_allocation_out.id,
                 frame |-> frames - 1,
                 bitloading |-> d_allocation_out.bitloading,
                 gain |-> Gain(d_allocation_out.power),
                 amplitude |-> IF Coding THEN Unit ELSE d_amplitude_abs,
                 bitcount |-> d_bitcount_out]
<1>1. /\ tx_out' = Append(tx_out, f)
      /\ Pending = 1 /\ Pending' = 0
      /\ UNCHANGED <<wire, inbox, air, lost, frames, d_bitcount_out,
                     d_allocation_buffer, demapped>>
  BY DEF OutputFrame, Pending, chanVars, bufVars
<1>2. /\ d_allocation' = [d_allocation EXCEPT !.id = NextId(d_allocation.id)]
      /\ d_allocation_out' =
           [d_allocation_out EXCEPT !.id = NextId(d_allocation.id)]
  BY DEF OutputFrame
<1>3. frames > 0
  BY <1>1 DEF Numbers, SourceNumbers, FirstAir, FirstOut, TypeOK, SrcTypeOK, ChanTypeOK
<1>4. /\ f \in Frame
      /\ Len(tx_out') = Len(tx_out) + 1
      /\ \A k \in 1..Len(tx_out) : tx_out'[k] = tx_out[k]
      /\ tx_out'[Len(tx_out) + 1] = f
      /\ Len(tx_out) \in Nat
  <2>1. f \in Frame
    BY <1>3, GainType DEF TypeOK, SrcTypeOK, Frame
  <2> QED
    BY <1>1, <2>1 DEF TypeOK, SrcTypeOK
<1>5. FirstOut' = FirstOut /\ FirstAir' = FirstAir /\ FirstWire' = FirstWire
  BY <1>1, <1>4 DEF FirstOut, FirstAir, FirstWire, TypeOK, SrcTypeOK, ChanTypeOK
<1>6. /\ d_allocation_out = d_allocation
      /\ d_allocation.id = (frames - 1) % IdSpace
      /\ d_bitcount_out = BitCount(d_allocation.bitloading)
  BY <1>1 DEF Numbers, SourceNumbers
<1>7. /\ f.frame = frames - 1
      /\ f.id = (frames - 1) % IdSpace
      /\ f.bitcount = BitCount(f.bitloading)
      /\ f.bitloading = d_allocation.bitloading
      /\ f.gain = Gain(d_allocation.power)
  BY <1>6
<1> HIDE DEF f
<1>8. SourceNumbers'
  <2>1. NextId(d_allocation.id) = frames % IdSpace
    <3>1. frames - 1 \in Nat
      BY <1>3 DEF TypeOK, SrcTypeOK
    <3>2. (((frames - 1) % IdSpace) + 1) % IdSpace = ((frames - 1) + 1) % IdSpace
      BY <3>1, ModSucc
    <3> QED
      BY <1>6, <3>1, <3>2 DEF NextId, TypeOK, SrcTypeOK
  <2>2. d_allocation'.id = frames % IdSpace
        /\ d_allocation'.bitloading = d_allocation.bitloading
        /\ d_allocation_out' = d_allocation'
    BY <1>2, <1>6, <2>1 DEF TypeOK, SrcTypeOK
  <2>3. frames' - Pending' = frames
    BY <1>1 DEF TypeOK, SrcTypeOK
  <2> QED
    BY <1>1, <1>5, <1>6, <2>2, <2>3 DEF Numbers, SourceNumbers
<1>9. OutNumbers'
  <2>1. WellNumbered(f, FirstOut + (Len(tx_out) + 1) - 1)
    BY <1>1, <1>4, <1>7 DEF WellNumbered, FirstOut, TypeOK, SrcTypeOK
  <2> QED
    BY <1>4, <1>5, <2>1 DEF Numbers, OutNumbers
<1>10. AirNumbers' /\ WireNumbers' /\ InboxNumbers' /\ SlotNumbers' /\ Held'
  BY <1>1, <1>5 DEF Numbers, AirNumbers, WireNumbers, InboxNumbers, SlotNumbers,
                    Held
<1>11. Content'
  <2>1. UnderWay' \subseteq UnderWay \cup {f} /\ Known' = Known
    BY <1>1, <1>4 DEF UnderWay, Known, ValuesOf
  <2>2. ASSUME NEW x \in Known, x.frame = f.frame
        PROVE  Describes(x, f)
    <3>1. x.bitloading = f.bitloading /\ x.divisor = Divisor(d_allocation.power)
      BY <1>1, <1>7, <2>2 DEF Numbers, Content
    <3>2. d_allocation.power \in [Subcarriers -> Nat]
      BY DEF TypeOK, SrcTypeOK
    <3> QED
      BY <1>7, <3>1, <3>2, DivisorDescribes DEF Describes
  <2> QED
    BY <1>1, <2>1, <2>2 DEF Numbers, Content
<1>12. FrameAgreement' /\ NeverNewer'
  BY <1>1 DEF Numbers, FrameAgreement, NeverNewer
<1> QED
  BY <1>8, <1>9, <1>10, <1>11, <1>12 DEF Numbers

LEMMA WorkReturnStep ==
  ASSUME TypeOK, Numbers, WorkReturn, UNCHANGED bufVars
  PROVE  Numbers'
<1>1. /\ air' = air \o tx_out /\ tx_out' = << >>
      /\ Pending = 0 /\ Pending' = 0
      /\ UNCHANGED <<wire, inbox, lost, frames, d_allocation, d_allocation_out,
                     d_bitcount_out, d_allocation_buffer, demapped>>
  BY DEF WorkReturn, Pending, allocVars, bufVars
<1>2. /\ Len(air') = Len(air) + Len(tx_out) /\ Len(tx_out') = 0
      /\ Len(air) \in Nat /\ Len(tx_out) \in Nat
      /\ \A k \in 1..Len(air) : air'[k] = air[k]
      /\ \A k \in (Len(air) + 1)..Len(air') : air'[k] = tx_out[k - Len(air)]
  BY <1>1 DEF TypeOK, ChanTypeOK, SrcTypeOK
<1>3. FirstAir' = FirstAir /\ FirstWire' = FirstWire
  BY <1>1, <1>2 DEF FirstOut, FirstAir, FirstWire, TypeOK, SrcTypeOK
<1>4. SourceNumbers'
  BY <1>1, <1>3 DEF Numbers, SourceNumbers
<1>5. AirNumbers'
  <2> SUFFICES ASSUME NEW k \in 1..Len(air')
               PROVE  WellNumbered(air'[k], FirstAir + k - 1)
    BY <1>3 DEF AirNumbers
  <2>1. CASE k <= Len(air)
    BY <1>2, <2>1 DEF Numbers, AirNumbers
  <2>2. CASE k > Len(air)
    <3>1. k - Len(air) \in 1..Len(tx_out) /\ air'[k] = tx_out[k - Len(air)]
      BY <1>2, <2>2
    <3>2. WellNumbered(tx_out[k - Len(air)], FirstOut + (k - Len(air)) - 1)
      BY <3>1 DEF Numbers, OutNumbers
    <3>3. FirstOut + (k - Len(air)) - 1 = FirstAir + k - 1
      BY <1>2, NumbersBelow DEF FirstAir
    <3> QED
      BY <3>1, <3>2, <3>3
  <2> QED
    BY <1>2, <2>1, <2>2
<1>6. OutNumbers'
  BY <1>2 DEF OutNumbers
<1>7. WireNumbers' /\ InboxNumbers' /\ SlotNumbers' /\ Held'
  BY <1>1, <1>3 DEF Numbers, WireNumbers, InboxNumbers, SlotNumbers, Held
<1>8. Content'
  <2>1. ASSUME NEW k \in 1..Len(air') PROVE air'[k] \in UnderWay
    <3>1. CASE k <= Len(air)
      BY <1>2, <3>1 DEF UnderWay, ValuesOf
    <3>2. CASE k > Len(air)
      <4>1. k - Len(air) \in 1..Len(tx_out) /\ air'[k] = tx_out[k - Len(air)]
        BY <1>2, <3>2
      <4> QED
        BY <4>1 DEF UnderWay, ValuesOf
    <3> QED
      BY <1>2, <3>1, <3>2
  <2>2. UnderWay' \subseteq UnderWay
    <3>1. ValuesOf(tx_out)' = {}
      BY <1>2 DEF ValuesOf
    <3>2. ValuesOf(air)' \subseteq UnderWay
      BY <2>1 DEF ValuesOf
    <3> QED
      BY <3>1, <3>2 DEF UnderWay
  <2>3. Known' = Known
    BY <1>1 DEF Known, ValuesOf
  <2> QED
    BY <1>1, <2>2, <2>3 DEF Numbers, Content
<1>9. FrameAgreement' /\ NeverNewer'
  BY <1>1 DEF Numbers, FrameAgreement, NeverNewer
<1> QED
  BY <1>4, <1>5, <1>6, <1>7, <1>8, <1>9 DEF Numbers

LEMMA WorkStep ==
  ASSUME TypeOK, Numbers, Work, UNCHANGED bufVars
  PROVE  Numbers'
<1>1. ASSUME NEW n \in 1..WorkMax, WorkCall(n) PROVE Numbers'
  BY <1>1, QuietStep DEF WorkCall, bufVars, allocVars, Pending
<1> QED
  BY <1>1, RecvSnrStep, SendAllocationStep, OutputFrameStep, WorkReturnStep
     DEF Work

-----------------------------------------------------------------------------
(* The announcement channel.                                               *)

(* What leaves the wire is the announcement numbered FirstWire.            *)
LEMMA WireHead ==
  ASSUME TypeOK, Numbers, wire # << >>, wire' = Tail(wire), frames' = frames
  PROVE  /\ Head(wire) = wire[1]
         /\ Head(wire) \in Announcement
         /\ Head(wire).frame = FirstWire
         /\ Head(wire).id = FirstWire % IdSpace
         /\ FirstWire' = FirstWire + 1
         /\ FirstWire \in Nat
         /\ WireNumbers'
         /\ ValuesOf(wire)' \subseteq ValuesOf(wire)
<1>1. /\ Len(wire) \in Nat \ {0} /\ Len(wire') = Len(wire) - 1
      /\ \A k \in 1..Len(wire') : wire'[k] = wire[k + 1]
      /\ Head(wire) = wire[1]
      /\ Head(wire) \in Announcement
  BY DEF TypeOK, ChanTypeOK
<1>2. Head(wire).frame = FirstWire /\ Head(wire).id = FirstWire % IdSpace
  BY <1>1, NumbersBelow DEF Numbers, WireNumbers
<1>3. FirstWire' = FirstWire + 1
  BY <1>1 DEF FirstWire, TypeOK, SrcTypeOK
<1>4. WireNumbers'
  <2>1. ASSUME NEW k \in 1..Len(wire')
        PROVE  /\ wire'[k].frame = FirstWire + (k + 1) - 1
               /\ wire'[k].id = wire'[k].frame % IdSpace
    <3>1. k + 1 \in 1..Len(wire)
      BY <1>1
    <3> QED
      BY <1>1, <3>1 DEF Numbers, WireNumbers
  <2> QED
    <3>1. \A k \in 1..Len(wire') : FirstWire + (k + 1) - 1 = FirstWire + 1 + k - 1
      BY NumbersBelow
    <3>2. FirstWire' >= 0
      BY <1>3, NumbersBelow
    <3> QED
      BY <1>3, <2>1, <3>1, <3>2 DEF WireNumbers
<1>5. ValuesOf(wire)' \subseteq ValuesOf(wire)
  <2>1. ASSUME NEW k \in 1..Len(wire') PROVE k + 1 \in 1..Len(wire)
    BY <1>1
  <2> QED
    BY <1>1, <2>1 DEF ValuesOf
<1> QED
  BY <1>1, <1>2, <1>3, <1>4, <1>5, NumbersBelow

LEMMA LoseStep ==
  ASSUME TypeOK, Numbers, Lose, UNCHANGED <<srcVars, bufVars>>
  PROVE  Numbers'
<1>1. /\ wire # << >> /\ wire' = Tail(wire)
      /\ lost' = lost \cup {Head(wire).frame}
      /\ UNCHANGED <<inbox, air, frames, d_allocation, d_allocation_out,
                     d_bitcount_out, tx_out, d_allocation_buffer, demapped>>
      /\ Pending' = Pending
  BY DEF Lose, srcVars, bufVars, Pending
<1>2. /\ Head(wire).frame = FirstWire /\ FirstWire' = FirstWire + 1
      /\ FirstWire \in Nat /\ WireNumbers'
      /\ ValuesOf(wire)' \subseteq ValuesOf(wire)
  BY <1>1, WireHead
<1>3. FirstOut' = FirstOut /\ FirstAir' = FirstAir
  BY <1>1 DEF FirstOut, FirstAir
<1>4. SourceNumbers' /\ AirNumbers' /\ OutNumbers'
  BY <1>1, <1>3 DEF Numbers, SourceNumbers, AirNumbers, OutNumbers
<1>5. InboxNumbers'
  <2>1. \A k \in 1..Len(inbox) : inbox[k].frame \in Nat
    BY ElementTypes
  <2> QED
    BY <1>1, <1>2, <2>1 DEF Numbers, InboxNumbers
<1>6. SlotNumbers'
  <2>1. \A id \in Ids : d_allocation_buffer[id].frame \in Int
    BY DEF TypeOK, BufTypeOK, Slot
  <2> QED
    BY <1>1, <1>2, <2>1 DEF Numbers, SlotNumbers
<1>7. Held'
  <2> SUFFICES ASSUME NEW n \in FirstAir..FirstWire
               PROVE  \/ n \in lost'
                      \/ \E k \in 1..Len(inbox) : inbox[k].frame = n
                      \/ d_allocation_buffer[n % IdSpace].frame = n
    BY <1>1, <1>2, <1>3 DEF Held
  <2>1. CASE n = FirstWire
    BY <1>1, <1>2, <2>1
  <2>2. CASE n # FirstWire
    <3>1. n \in FirstAir..(FirstWire - 1)
      BY <1>2, <2>2, NumbersBelow
    <3> QED
      BY <1>1, <3>1 DEF Numbers, Held
  <2> QED
    BY <2>1, <2>2
<1>8. Content'
  <2>1. Known' \subseteq Known /\ UnderWay' = UnderWay
    BY <1>1, <1>2 DEF Known, UnderWay, ValuesOf
  <2> QED
    BY <1>1, <2>1 DEF Numbers, Content
<1>9. FrameAgreement' /\ NeverNewer'
  BY <1>1 DEF Numbers, FrameAgreement, NeverNewer
<1> QED
  BY <1>2, <1>4, <1>5, <1>6, <1>7, <1>8, <1>9 DEF Numbers

LEMMA DeliverStep ==
  ASSUME TypeOK, Numbers, Deliver, UNCHANGED <<srcVars, bufVars>>
  PROVE  Numbers'
<1> DEFINE msg == Head(wire)
<1>1. /\ wire # << >> /\ wire' = Tail(wire)
      /\ inbox' = Append(inbox, msg)
      /\ UNCHANGED <<lost, air, frames, d_allocation, d_allocation_out,
                     d_bitcount_out, tx_out, d_allocation_buffer, demapped>>
      /\ Pending' = Pending
  BY DEF Deliver, srcVars, bufVars, Pending
<1>2. /\ msg = wire[1] /\ msg \in Announcement
      /\ msg.frame = FirstWire /\ FirstWire' = FirstWire + 1
      /\ msg.id = FirstWire % IdSpace
      /\ FirstWire \in Nat /\ WireNumbers'
      /\ ValuesOf(wire)' \subseteq ValuesOf(wire)
  BY <1>1, WireHead
<1>3. FirstOut' = FirstOut /\ FirstAir' = FirstAir
  BY <1>1 DEF FirstOut, FirstAir
<1>4. msg \in ValuesOf(wire)
  BY <1>1, <1>2 DEF ValuesOf, TypeOK, ChanTypeOK
<1> HIDE DEF msg
<1>5. /\ Len(inbox) \in Nat /\ Len(inbox') = Len(inbox) + 1
      /\ \A k \in 1..Len(inbox) : inbox'[k] = inbox[k]
      /\ inbox'[Len(inbox) + 1] = msg
      /\ \A k \in 1..Len(inbox) : inbox[k].frame \in Nat
  <2>1. inbox \in Seq(Announcement)
    BY DEF TypeOK, ChanTypeOK
  <2> QED
    BY <1>1, <1>2, <2>1, AppendProperties, ElementTypes
<1>6. SourceNumbers' /\ AirNumbers' /\ OutNumbers'
  BY <1>1, <1>3 DEF Numbers, SourceNumbers, AirNumbers, OutNumbers
<1>7. InboxNumbers'
  <2>1. ASSUME NEW k \in 1..Len(inbox')
        PROVE  inbox'[k].frame < FirstWire + 1
               /\ inbox'[k].id = inbox'[k].frame % IdSpace
    BY SMTT(30), <1>2, <1>5 DEF Numbers, InboxNumbers
  <2>2. ASSUME NEW j \in 1..Len(inbox'), NEW k \in 1..Len(inbox'), j < k
        PROVE  inbox'[j].frame < inbox'[k].frame
    <3>1. j \in 1..Len(inbox)
      BY <1>5, <2>2
    <3>2. CASE k \in 1..Len(inbox)
      BY <1>5, <2>2, <3>1, <3>2 DEF Numbers, InboxNumbers
    <3>3. CASE k = Len(inbox) + 1
      BY <1>2, <1>5, <3>1, <3>3 DEF Numbers, InboxNumbers
    <3> QED
      BY <1>5, <3>2, <3>3
  <2> QED
    BY <1>2, <2>1, <2>2 DEF InboxNumbers
<1>8. SlotNumbers'
  <2>1. \A id \in Ids : d_allocation_buffer[id].frame \in Int
    BY DEF TypeOK, BufTypeOK, Slot
  <2> SUFFICES ASSUME NEW id \in Ids
               PROVE  LET n == d_allocation_buffer[id].frame IN
                        /\ n < FirstWire + 1
                        /\ n # -1 => n % IdSpace = id
                        /\ \A k \in 1..Len(inbox') : n < inbox'[k].frame
    BY <1>1, <1>2 DEF SlotNumbers
  <2> DEFINE n == d_allocation_buffer[id].frame
  <2>2. /\ n < FirstWire /\ n \in Int
        /\ n # -1 => n % IdSpace = id
        /\ \A k \in 1..Len(inbox) : n < inbox[k].frame
    BY <2>1 DEF Numbers, SlotNumbers
  <2> HIDE DEF n
  <2>3. ASSUME NEW k \in 1..Len(inbox') PROVE n < inbox'[k].frame
    <3>1. CASE k \in 1..Len(inbox)
      <4>1. inbox'[k] = inbox[k]
        BY <1>5, <3>1
      <4> QED
        BY <2>2, <3>1, <4>1, Zenon
    <3>2. CASE k = Len(inbox) + 1
      BY <1>2, <1>5, <2>2, <3>2
    <3> QED
      BY <1>5, <3>1, <3>2
  <2> QED
    BY <1>2, <2>2, <2>3 DEF n
<1>9. Held'
  <2> SUFFICES ASSUME NEW n \in FirstAir'..(FirstWire' - 1)
               PROVE  \/ n \in lost'
                      \/ \E k \in 1..Len(inbox') : inbox'[k].frame = n
                      \/ d_allocation_buffer'[n % IdSpace].frame = n
    BY DEF Held
  <2>1. CASE n = FirstWire
    BY <1>2, <1>5, <2>1
  <2>2. CASE n # FirstWire
    <3>1. n \in FirstAir..(FirstWire - 1)
      BY <1>2, <1>3, <2>2, NumbersBelow
    <3>2. \A k \in 1..Len(inbox) : k \in 1..Len(inbox')
      BY <1>5
    <3> QED
      BY <1>1, <1>5, <3>1, <3>2 DEF Numbers, Held
  <2> QED
    BY <2>1, <2>2
<1>10. Content'
  <2>1. Known' \subseteq Known /\ UnderWay' = UnderWay
    BY <1>1, <1>2, <1>4, <1>5 DEF Known, UnderWay, ValuesOf
  <2> QED
    BY <1>1, <2>1 DEF Numbers, Content
<1>11. FrameAgreement' /\ NeverNewer'
  BY <1>1 DEF Numbers, FrameAgreement, NeverNewer
<1> QED
  BY <1>2, <1>6, <1>7, <1>8, <1>9, <1>10, <1>11 DEF Numbers

-----------------------------------------------------------------------------
(* The receiver.                                                           *)

(* A frame under way is less than IdSpace frames older than the newest.    *)
LEMMA WindowBound ==
  ASSUME TypeOK, Control, Numbers
  PROVE  /\ frames - FirstAir <= Window
         /\ Window <= IdSpace
  <1>1. Pending = 1 => tx_todo > 0
    BY DEF Pending, Control
  <1>2. Len(air) + Len(tx_out) + tx_todo <= Window /\ tx_todo \in Nat
    BY DEF Control, TypeOK, SrcTypeOK
  <1> QED
    BY <1>1, <1>2, ElementTypes DEF FirstAir, FirstOut

LEMMA RecvAllocationStep ==
  ASSUME TypeOK, Control, Numbers, RecvAllocation, UNCHANGED srcVars
  PROVE  Numbers'
<1> DEFINE msg == inbox[1]
           slot == [frame |-> msg.frame, bitloading |-> msg.bitloading,
                    divisor |-> msg.divisor]
<1>1. /\ inbox # << >> /\ inbox' = Tail(inbox)
      /\ d_allocation_buffer' = [d_allocation_buffer EXCEPT ![msg.id] = slot]
      /\ UNCHANGED <<wire, lost, air, frames, d_allocation, d_allocation_out,
                     d_bitcount_out, tx_out, demapped>>
      /\ Pending' = Pending
  <2>1. inbox # << >> /\ Head(inbox) = inbox[1]
    BY DEF RecvAllocation, TypeOK, ChanTypeOK
  <2>2. /\ inbox' = Tail(inbox)
        /\ d_allocation_buffer' =
             [d_allocation_buffer EXCEPT
                ![Head(inbox).id] = [frame |-> Head(inbox).frame,
                                     bitloading |-> Head(inbox).bitloading,
                                     divisor |-> Head(inbox).divisor]]
    BY DEF RecvAllocation
  <2>3. /\ UNCHANGED <<wire, lost, air, frames, d_allocation, d_allocation_out,
                       d_bitcount_out, tx_out, demapped>>
        /\ Pending' = Pending
    BY DEF RecvAllocation, srcVars, Pending
  <2> QED
    BY <2>1, <2>2, <2>3
<1>2. /\ Len(inbox) \in Nat \ {0} /\ Len(inbox') = Len(inbox) - 1
      /\ \A k \in 1..Len(inbox') : inbox'[k] = inbox[k + 1]
      /\ msg \in Announcement
  BY <1>1 DEF TypeOK, ChanTypeOK
<1>3. /\ msg.frame \in Nat /\ msg.frame < FirstWire
      /\ msg.id = msg.frame % IdSpace /\ msg.id \in Ids
      /\ \A k \in 1..Len(inbox') : msg.frame < inbox'[k].frame
  <2>1. \A k \in 1..Len(inbox') : k + 1 \in 1..Len(inbox) /\ 1 < k + 1
    BY <1>2
  <2>2. 1 \in 1..Len(inbox)
    BY <1>2
  <2> QED
    BY <1>2, <2>1, <2>2 DEF Numbers, InboxNumbers, Announcement, Ids
<1>4. /\ d_allocation_buffer'[msg.id] = slot
      /\ \A id \in Ids : id # msg.id =>
           d_allocation_buffer'[id] = d_allocation_buffer[id]
  BY <1>1, <1>3 DEF TypeOK, BufTypeOK
<1>5. /\ slot.frame = msg.frame
      /\ slot.bitloading = msg.bitloading
      /\ slot.divisor = msg.divisor
  OBVIOUS
<1> HIDE DEF msg, slot
<1>6. FirstOut' = FirstOut /\ FirstAir' = FirstAir /\ FirstWire' = FirstWire
  BY <1>1 DEF FirstOut, FirstAir, FirstWire
<1>7. SourceNumbers' /\ AirNumbers' /\ OutNumbers' /\ WireNumbers'
  BY <1>1, <1>6 DEF Numbers, SourceNumbers, AirNumbers, OutNumbers, WireNumbers
<1>8. InboxNumbers'
  <2>1. \A k \in 1..Len(inbox') : k + 1 \in 1..Len(inbox)
    BY <1>2
  <2>2. \A j, k \in 1..Len(inbox') : j < k => j + 1 < k + 1
    BY <1>2
  <2> QED
    BY <1>2, <1>6, <2>1, <2>2 DEF Numbers, InboxNumbers
<1>9. SlotNumbers'
  <2> SUFFICES ASSUME NEW id \in Ids
               PROVE  LET n == d_allocation_buffer'[id].frame IN
                        /\ n < FirstWire
                        /\ n # -1 => n % IdSpace = id
                        /\ \A k \in 1..Len(inbox') : n < inbox'[k].frame
    BY <1>6 DEF SlotNumbers
  <2>1. CASE id = msg.id
    BY <1>3, <1>4, <1>5, <2>1
  <2>2. CASE id # msg.id
    <3>1. \A k \in 1..Len(inbox') : k + 1 \in 1..Len(inbox)
      BY <1>2
    <3> QED
      BY <1>2, <1>4, <2>2, <3>1 DEF Numbers, SlotNumbers
  <2> QED
    BY <2>1, <2>2
<1>10. Held'
  <2> SUFFICES ASSUME NEW n \in FirstAir..(FirstWire - 1)
               PROVE  \/ n \in lost
                      \/ \E k \in 1..Len(inbox') : inbox'[k].frame = n
                      \/ d_allocation_buffer'[n % IdSpace].frame = n
    BY <1>1, <1>6 DEF Held
  <2>1. CASE n \in lost
    BY <2>1
  <2>2. ASSUME NEW k \in 1..Len(inbox), inbox[k].frame = n
        PROVE  \/ \E m \in 1..Len(inbox') : inbox'[m].frame = n
               \/ d_allocation_buffer'[n % IdSpace].frame = n
    <3>1. CASE k = 1
      BY <1>3, <1>4, <1>5, <2>2, <3>1 DEF msg
    <3>2. CASE k # 1
      <4>1. k - 1 \in 1..Len(inbox') /\ inbox'[k - 1] = inbox[k]
        BY <1>2, <3>2
      <4> QED
        BY <2>2, <4>1
    <3> QED
      BY <3>1, <3>2
  <2>3. CASE d_allocation_buffer[n % IdSpace].frame = n
    <3>1. n \in Nat /\ n % IdSpace \in Ids
      BY NumbersBelow, DivMod DEF Ids
    <3>2. n < msg.frame
      <4>1. 1 \in 1..Len(inbox)
        BY <1>2
      <4> QED
        BY <2>3, <3>1, <4>1 DEF msg, Numbers, SlotNumbers
    <3>3. msg.frame - n < IdSpace
      <4>1. /\ FirstAir \in Nat /\ FirstWire \in Nat /\ frames \in Nat
            /\ FirstWire <= frames /\ frames - FirstAir <= Window
            /\ Window \in Nat /\ IdSpace \in Nat /\ Window <= IdSpace
        BY WindowBound, NumbersBelow, ElementTypes
      <4> QED
        BY <1>3, <3>1, <4>1
    <3>4. n % IdSpace # msg.id
      <4>1. msg.frame % IdSpace # n % IdSpace
        BY <1>3, <3>1, <3>2, <3>3, ModUnique
      <4> QED
        BY <1>3, <4>1
    <3> QED
      BY <1>4, <2>3, <3>1, <3>4
  <2> QED
    BY <2>1, <2>2, <2>3 DEF Numbers, Held
<1>11. Content'
  <2>1. msg \in Known
    BY <1>2 DEF msg, Known, ValuesOf
  <2>2. Known' \subseteq Known \cup {slot}
    <3>1. ValuesOf(wire)' = ValuesOf(wire)
      BY <1>1 DEF ValuesOf
    <3>2. \A k \in 1..Len(inbox') : inbox'[k] \in ValuesOf(inbox)
      <4>1. \A k \in 1..Len(inbox') : k + 1 \in 1..Len(inbox)
        BY <1>2
      <4> QED
        BY <1>2, <4>1 DEF ValuesOf
    <3>3. ValuesOf(inbox)' \subseteq ValuesOf(inbox)
      BY <3>2 DEF ValuesOf
    <3> QED
      BY <1>4, <3>1, <3>3 DEF Known
  <2>3. UnderWay' = UnderWay /\ frames' = frames /\ Pending' = Pending
        /\ d_allocation' = d_allocation
    BY <1>1 DEF UnderWay, ValuesOf
  <2>4. \A f \in UnderWay : slot.frame = f.frame => Describes(slot, f)
    BY ZenonT(60), <1>5, <2>1 DEF Numbers, Content, Describes
  <2>5. Pending = 1 /\ slot.frame = frames - 1 =>
          /\ slot.bitloading = d_allocation.bitloading
          /\ slot.divisor = Divisor(d_allocation.power)
    BY <1>5, <2>1 DEF Numbers, Content
  <2> QED
    BY <2>2, <2>3, <2>4, <2>5 DEF Numbers, Content, Describes
<1>12. FrameAgreement' /\ NeverNewer'
  BY <1>1 DEF Numbers, FrameAgreement, NeverNewer
<1> QED
  BY <1>7, <1>8, <1>9, <1>10, <1>11, <1>12 DEF Numbers

(* The first id of a call finds the slot its own announcement filled,      *)
(* unless that was dropped or is still on the wire.                        *)
LEMMA FirstItem ==
  ASSUME TypeOK, Control, Numbers, WriteItem, rx_done = 0,
         NEW slot, slot = d_allocation_buffer[SlotId(rx_done)]
  PROVE  /\ air[1].frame \notin lost \cup InTransit =>
              /\ Describes(slot, air[1])
              /\ air[1].bitcount = BitCount(slot.bitloading)
         /\ slot.frame # -1 =>
              /\ slot.frame <= air[1].frame
              /\ slot.frame % IdSpace = air[1].frame % IdSpace
<1> DEFINE sent == air[1]
<1>1. 1 \in 1..Len(air) /\ inbox = << >>
  <2>1. rx_items > 0 /\ rx_items <= Len(air) /\ inbox = << >>
    BY DEF WriteItem, SocketEmpty, Control, TypeOK, BufTypeOK
  <2> QED
    BY <2>1, ElementTypes DEF TypeOK, BufTypeOK
<1>2. /\ sent.frame = FirstAir /\ sent.id = FirstAir % IdSpace
      /\ sent.bitcount = BitCount(sent.bitloading)
      /\ sent.id \in Ids /\ sent \in UnderWay
  <2>1. WellNumbered(sent, FirstAir + 1 - 1)
    BY <1>1 DEF Numbers, AirNumbers
  <2>2. sent \in Frame
    BY <1>1, ElementTypes
  <2>3. sent \in UnderWay
    BY <1>1 DEF UnderWay, ValuesOf
  <2> QED
    BY <2>1, <2>2, <2>3, NumbersBelow DEF WellNumbered, Frame, Ids
<1> HIDE DEF sent
<1>3. slot = d_allocation_buffer[sent.id] /\ slot \in Known
  BY <1>2 DEF sent, SlotId, Known
<1>4. /\ FirstAir \in Nat /\ FirstWire \in Nat /\ frames \in Nat
      /\ FirstWire <= frames /\ frames - FirstAir <= Window
      /\ Window \in Nat /\ IdSpace \in Nat /\ Window <= IdSpace
      /\ FirstAir < frames
  BY <1>2, WindowBound, NumbersBelow, ElementTypes
<1>5. ASSUME sent.frame \notin lost \cup InTransit
      PROVE  Describes(slot, sent) /\ sent.bitcount = BitCount(slot.bitloading)
  <2>1. FirstAir < FirstWire
    <3> SUFFICES ASSUME FirstAir >= FirstWire PROVE FALSE
      BY <1>4
    <3> DEFINE k == FirstAir - FirstWire + 1
    <3>1. k \in 1..Len(wire)
      BY SMTT(30), <1>4, ElementTypes DEF FirstWire
    <3>2. wire[k].frame = FirstWire + k - 1
      BY <3>1 DEF Numbers, WireNumbers
    <3>3. FirstAir \in InTransit
      BY <1>4, <3>1, <3>2 DEF InTransit
    <3> QED
      BY <1>2, <1>5, <3>3
  <2>2. FirstAir \in FirstAir..(FirstWire - 1)
    BY <1>4, <2>1
  <2>3. slot.frame = FirstAir
    BY <1>1, <1>2, <1>3, <1>5, <2>2 DEF Numbers, Held
  <2>4. Describes(slot, sent)
    BY <1>2, <1>3, <2>3 DEF Numbers, Content
  <2> QED
    BY <1>2, <2>4 DEF Describes
<1>6. ASSUME slot.frame # -1
      PROVE  /\ slot.frame <= sent.frame
             /\ slot.frame % IdSpace = sent.frame % IdSpace
  <2>1. /\ slot.frame \in Nat /\ slot.frame < FirstWire
        /\ slot.frame % IdSpace = FirstAir % IdSpace
    BY <1>2, <1>3, <1>6, ElementTypes DEF Numbers, SlotNumbers
  <2>2. slot.frame <= FirstAir
    <3> SUFFICES ASSUME FirstAir < slot.frame PROVE FALSE
      BY <1>4, <2>1
    <3>1. slot.frame - FirstAir < IdSpace
      BY <1>4, <2>1
    <3>2. FirstAir = slot.frame
      <4>1. /\ IdSpace \in Nat \ {0} /\ FirstAir \in Nat /\ slot.frame \in Nat
            /\ FirstAir % IdSpace = slot.frame % IdSpace
            /\ FirstAir <= slot.frame
        BY <1>4, <2>1
      <4> QED
        BY <3>1, <4>1, ModUnique
    <3> QED
      BY <1>4, <3>2
  <2> QED
    BY <1>2, <2>1, <2>2
<1> QED
  BY <1>5, <1>6 DEF sent

LEMMA WriteItemStep ==
  ASSUME TypeOK, Control, Numbers, WriteItem, UNCHANGED srcVars
  PROVE  Numbers'
<1> DEFINE slot == d_allocation_buffer[SlotId(rx_done)]
           sent == air[rx_done + 1]
           d == [sent |-> sent, out |-> Settings(slot.bitloading, slot.divisor),
                 from |-> slot.frame, first |-> rx_done = 0,
                 excused |-> sent.frame \in lost \cup InTransit]
<1>1. /\ demapped' = Append(demapped, d)
      /\ UNCHANGED <<wire, inbox, lost, air, frames, d_allocation,
                     d_allocation_out, d_bitcount_out, tx_out,
                     d_allocation_buffer>>
      /\ Pending' = Pending
  BY DEF WriteItem, srcVars, chanVars, Pending
<1>2. /\ Len(demapped') = Len(demapped) + 1 /\ Len(demapped) \in Nat
      /\ \A k \in 1..Len(demapped) : demapped'[k] = demapped[k]
      /\ demapped'[Len(demapped) + 1] = d
  <2> HIDE DEF d
  <2>1. demapped \in Seq(Demap)
    BY DEF TypeOK, BufTypeOK
  <2>2. demapped \in Seq(Demap \cup {d}) /\ d \in Demap \cup {d}
    BY <2>1
  <2> QED
    BY <1>1, <2>2, AppendProperties
<1>3. d.first =>
        /\ ~d.excused => /\ Describes(d.out, d.sent)
                         /\ d.out.bitcount = d.sent.bitcount
        /\ d.from # -1 => /\ d.from <= d.sent.frame
                          /\ d.from % IdSpace = d.sent.frame % IdSpace
  <2> SUFFICES ASSUME rx_done = 0
               PROVE  /\ ~d.excused => /\ Describes(d.out, d.sent)
                                       /\ d.out.bitcount = d.sent.bitcount
                      /\ d.from # -1 =>
                           /\ d.from <= d.sent.frame
                           /\ d.from % IdSpace = d.sent.frame % IdSpace
    OBVIOUS
  <2>1. sent = air[1]
    OBVIOUS
  <2> HIDE DEF slot
  <2>2. /\ d.out.bitloading = slot.bitloading /\ d.out.divisor = slot.divisor
        /\ d.out.bitcount = BitCount(slot.bitloading)
        /\ d.sent = air[1] /\ d.from = slot.frame
        /\ d.excused = (air[1].frame \in lost \cup InTransit)
    BY <2>1 DEF Settings
  <2> HIDE DEF d, sent
  <2>3. /\ air[1].frame \notin lost \cup InTransit =>
              /\ Describes(slot, air[1])
              /\ air[1].bitcount = BitCount(slot.bitloading)
        /\ slot.frame # -1 =>
              /\ slot.frame <= air[1].frame
              /\ slot.frame % IdSpace = air[1].frame % IdSpace
    BY FirstItem DEF slot
  <2> QED
    BY <2>2, <2>3 DEF Describes
<1> HIDE DEF d
<1>4. FirstOut' = FirstOut /\ FirstAir' = FirstAir /\ FirstWire' = FirstWire
  BY <1>1 DEF FirstOut, FirstAir, FirstWire
<1>5. SourceNumbers' /\ AirNumbers' /\ OutNumbers' /\ WireNumbers'
  BY <1>1, <1>4 DEF Numbers, SourceNumbers, AirNumbers, OutNumbers, WireNumbers
<1>6. InboxNumbers' /\ SlotNumbers' /\ Held'
  BY <1>1, <1>4 DEF Numbers, InboxNumbers, SlotNumbers, Held
<1>7. Content'
  BY <1>1 DEF Numbers, Content, Known, UnderWay, ValuesOf
<1>8. FrameAgreement'
  BY <1>2, <1>3 DEF Numbers, FrameAgreement, Describes
<1>9. NeverNewer'
  BY <1>2, <1>3 DEF Numbers, NeverNewer
<1> QED
  BY <1>5, <1>6, <1>7, <1>8, <1>9 DEF Numbers

LEMMA ReadReturnStep ==
  ASSUME TypeOK, Control, Numbers, ReadReturn, UNCHANGED srcVars
  PROVE  Numbers'
<1>1. /\ air' = SubSeq(air, rx_items + 1, Len(air))
      /\ rx_items > 0 /\ rx_items <= Len(air)
      /\ UNCHANGED <<wire, inbox, lost, frames, d_allocation, d_allocation_out,
                     d_bitcount_out, tx_out, d_allocation_buffer, demapped>>
      /\ Pending' = Pending
  BY DEF ReadReturn, Control, srcVars, Pending
<1>2. rx_items \in Nat
  BY DEF TypeOK, BufTypeOK
<1>3. /\ Len(air') = Len(air) - rx_items
      /\ \A k \in 1..Len(air') : /\ air'[k] = air[k + rx_items]
                                 /\ k + rx_items \in 1..Len(air)
  <2>1. air \in Seq(Frame)
    BY DEF TypeOK, ChanTypeOK
  <2>2. Len(air') = Len(air) - rx_items
    BY <1>1, <1>2, <2>1, ElementTypes
  <2>3. \A k \in 1..Len(air') : k + rx_items \in 1..Len(air)
    BY <1>1, <1>2, <2>2, ElementTypes
  <2>4. \A k \in 1..Len(air') : air'[k] = air[k + rx_items]
    BY <1>1, <1>2, <2>1, <2>2, ElementTypes
  <2> QED
    BY <2>2, <2>3, <2>4
<1>4. /\ FirstOut' = FirstOut /\ FirstWire' = FirstWire
      /\ FirstAir' = FirstAir + rx_items
      /\ FirstAir \in Nat /\ FirstAir' \in Nat
  <2>1. FirstOut' = FirstOut /\ FirstWire' = FirstWire
    BY <1>1 DEF FirstOut, FirstWire
  <2>2. FirstAir = FirstOut - Len(air) /\ FirstAir' = FirstOut' - Len(air')
    BY DEF FirstAir
  <2>3. FirstOut \in Nat /\ FirstAir \in Nat /\ Len(air) \in Nat
    BY NumbersBelow, ElementTypes
  <2>4. rx_items \in Nat /\ Len(air') = Len(air) - rx_items
    BY <1>1, <1>2, <1>3
  <2> HIDE DEF Ids
  <2> QED
    BY <2>1, <2>2, <2>3, <2>4
<1>5. SourceNumbers'
  BY <1>1, <1>4 DEF Numbers, SourceNumbers
<1>6. AirNumbers'
  <2> SUFFICES ASSUME NEW k \in 1..Len(air')
               PROVE  WellNumbered(air'[k], FirstAir' + k - 1)
    BY DEF AirNumbers
  <2>1. WellNumbered(air[k + rx_items], FirstAir + (k + rx_items) - 1)
    BY <1>3 DEF Numbers, AirNumbers
  <2>2. FirstAir + (k + rx_items) - 1 = FirstAir' + k - 1
    BY <1>2, <1>4
  <2> QED
    BY <1>3, <2>1, <2>2
<1>7. OutNumbers' /\ WireNumbers' /\ InboxNumbers' /\ SlotNumbers'
  BY <1>1, <1>4 DEF Numbers, OutNumbers, WireNumbers, InboxNumbers, SlotNumbers
<1>8. Held'
  <2> SUFFICES ASSUME NEW n \in FirstAir'..(FirstWire - 1)
               PROVE  \/ n \in lost
                      \/ \E k \in 1..Len(inbox) : inbox[k].frame = n
                      \/ d_allocation_buffer[n % IdSpace].frame = n
    BY <1>1, <1>4 DEF Held
  <2>1. n \in FirstAir..(FirstWire - 1)
    BY <1>2, <1>4, NumbersBelow
  <2> QED
    BY <2>1 DEF Numbers, Held
<1>9. Content'
  <2>1. ValuesOf(air)' \subseteq ValuesOf(air)
    BY <1>3 DEF ValuesOf
  <2>2. UnderWay' \subseteq UnderWay /\ Known' = Known
    BY <1>1, <2>1 DEF UnderWay, Known, ValuesOf
  <2> QED
    BY <1>1, <2>2 DEF Numbers, Content
<1>10. FrameAgreement' /\ NeverNewer'
  BY <1>1 DEF Numbers, FrameAgreement, NeverNewer
<1> QED
  BY <1>5, <1>6, <1>7, <1>8, <1>9, <1>10 DEF Numbers

-----------------------------------------------------------------------------
(* IndInv is inductive.                                                    *)

LEMMA InitNumbers == Init => Numbers
<1> SUFFICES ASSUME Init PROVE Numbers
  OBVIOUS
<1>1. /\ wire = << >> /\ inbox = << >> /\ air = << >> /\ tx_out = << >>
      /\ frames = 0 /\ Pending = 0 /\ demapped = << >>
      /\ d_allocation_out = d_allocation /\ d_allocation.id = 0
      /\ d_bitcount_out = BitCount(d_allocation.bitloading)
      /\ \A id \in Ids : d_allocation_buffer[id].frame = -1
  BY DEF Init, ChanInit, SrcInit, BufInit, Pending
<1>2. FirstOut = 0 /\ FirstAir = 0 /\ FirstWire = 0
  <2>1. Len(wire) = 0 /\ Len(air) = 0 /\ Len(tx_out) = 0
    BY <1>1
  <2>2. frames = 0 /\ Pending = 0
    BY <1>1
  <2>3. FirstWire = 0 /\ FirstOut = 0
    BY <2>1, <2>2 DEF FirstOut, FirstWire
  <2> QED
    BY <2>1, <2>3 DEF FirstAir
<1>3. 0 % IdSpace = 0
  OBVIOUS
<1>4. SourceNumbers
  BY <1>1, <1>2, <1>3 DEF SourceNumbers
<1>5. AirNumbers /\ OutNumbers /\ WireNumbers /\ InboxNumbers
  BY <1>1, <1>2 DEF AirNumbers, OutNumbers, WireNumbers, InboxNumbers
<1>6. SlotNumbers /\ Held
  BY <1>1, <1>2 DEF SlotNumbers, Held
<1>7. Content
  BY <1>1 DEF Content, UnderWay, ValuesOf
<1>8. FrameAgreement /\ NeverNewer
  BY <1>1 DEF FrameAgreement, NeverNewer
<1> QED
  BY <1>4, <1>5, <1>6, <1>7, <1>8 DEF Numbers

LEMMA NumbersStep ==
  ASSUME TypeOK, Control, Numbers, [Next]_vars
  PROVE  Numbers'
<1>1. CASE Setters /\ UNCHANGED bufVars
  BY <1>1, SettersStep
<1>2. CASE Work /\ UNCHANGED bufVars
  BY <1>2, WorkStep
<1>3. CASE Network /\ UNCHANGED <<srcVars, bufVars>>
  BY <1>3, DeliverStep, LoseStep DEF Network
<1>4. CASE BufferSetter /\ UNCHANGED srcVars
  BY <1>4, QuietStep DEF BufferSetter, SetBufferAllocation, srcVars, Pending
<1>5. CASE Read /\ UNCHANGED srcVars
  <2>1. ASSUME NEW n \in 1..ReadMax, ReadCall(n) PROVE Numbers'
    BY <1>5, <2>1, QuietStep DEF ReadCall, srcVars, Pending
  <2> QED
    BY <1>5, <2>1, RecvAllocationStep, WriteItemStep, ReadReturnStep DEF Read
<1>6. ASSUME NEW n \in 1..snr_due, NEW arriving \in 0..n,
             FeedbackWork(n, arriving)
      PROVE  Numbers'
  BY <1>6, QuietStep DEF FeedbackWork, allocVars, Pending
<1>7. CASE UNCHANGED vars
  BY <1>7, QuietStep DEF vars, srcVars, bufVars, Pending
<1> QED
  BY <1>1, <1>2, <1>3, <1>4, <1>5, <1>6, <1>7 DEF Next

(* The inductive invariant holds in every reachable state.                 *)
THEOREM Inductive == Spec => []IndInv
<1>1. Init => Control
  BY DEF Init, ChanInit, SrcInit, BufInit, Control
<1>2. Init => IndInv
  BY <1>1, InitTypeOK, InitNumbers DEF IndInv, Numbers
<1>3. IndInv /\ [Next]_vars => IndInv'
  <2> SUFFICES ASSUME IndInv, [Next]_vars PROVE IndInv'
    OBVIOUS
  <2>1. TypeOK /\ Control /\ Numbers
    BY DEF IndInv, Numbers
  <2>2. TypeOK' /\ Control' /\ Numbers'
    BY <2>1, TypeStep, ControlStep, NumbersStep
  <2> QED
    BY <2>2 DEF IndInv, Numbers
<1> QED
  BY <1>2, <1>3, PTL DEF Spec

(* What is announced for a frame is what the frame is sent with, whatever  *)
(* the RPC thread and the feedback loop do in between.                     *)
THEOREM Announced == Spec => []AnnouncedAsSent
<1>1. IndInv => AnnouncedAsSent
  BY DEF IndInv, Content, AnnouncedAsSent
<1> QED
  BY <1>1, Inductive, PTL

(* The ring of slots is large enough: with no more frames between the two  *)
(* blocks than there are ids, no announcement is overwritten too early.    *)
THEOREM Kept == Spec => []SlotKept
<1>1. IndInv => SlotKept
  <2> SUFFICES ASSUME IndInv, NEW f \in UnderWay
               PROVE  f.frame \in lost \/ \E x \in Known : x.frame = f.frame
    BY DEF SlotKept
  <2>1. TypeOK /\ Control /\ Numbers
    BY DEF IndInv, Numbers
  <2>2. f.frame \in Nat /\ f.frame >= FirstAir /\ f.frame < frames
    <3>1. ASSUME NEW k \in 1..Len(air), f = air[k]
          PROVE  f.frame >= FirstAir
      <4>1. f.frame = FirstAir + k - 1
        BY <2>1, <3>1 DEF Numbers, AirNumbers, WellNumbered
      <4>2. FirstAir \in Nat
        BY <2>1, NumbersBelow
      <4> QED
        BY <4>1, <4>2
    <3>2. ASSUME NEW k \in 1..Len(tx_out), f = tx_out[k]
          PROVE  f.frame >= FirstAir
      <4>1. f.frame = FirstOut + k - 1
        BY <2>1, <3>2 DEF Numbers, OutNumbers, WellNumbered
      <4>2. FirstOut \in Nat /\ FirstAir \in Nat /\ FirstAir <= FirstOut
        BY <2>1, NumbersBelow
      <4> QED
        BY <4>1, <4>2
    <3> QED
      BY <2>1, <3>1, <3>2, NumbersBelow, ElementTypes DEF UnderWay, ValuesOf
  <2>3. CASE f.frame >= FirstWire
    <3> DEFINE k == f.frame - FirstWire + 1
    <3>1. k \in 1..Len(wire)
      BY SMTT(30), <2>1, <2>2, <2>3, NumbersBelow, ElementTypes DEF FirstWire
    <3>2. wire[k].frame = f.frame
      <4>1. wire[k].frame = FirstWire + k - 1
        BY <2>1, <3>1 DEF Numbers, WireNumbers
      <4> QED
        BY <2>1, <2>2, <4>1, NumbersBelow
    <3> QED
      BY <3>1, <3>2 DEF Known, ValuesOf
  <2>4. CASE f.frame < FirstWire
    <3>1. f.frame \in FirstAir..(FirstWire - 1)
      BY <2>1, <2>2, <2>4, NumbersBelow
    <3>2. f.frame % IdSpace \in Ids
      BY <2>2, DivMod DEF Ids
    <3> QED
      BY <2>1, <3>1, <3>2 DEF Numbers, Held, Known, ValuesOf
  <2> QED
    BY <2>1, <2>2, <2>3, <2>4, NumbersBelow
<1> QED
  BY <1>1, Inductive, PTL

(* The receiver demaps every frame with the settings it was sent with,     *)
(* unless the announcement was dropped or came late.                       *)
THEOREM Agreement == Spec => []FrameAgreement
<1>1. IndInv => FrameAgreement
  BY DEF IndInv
<1> QED
  BY <1>1, Inductive, PTL

(* A stale slot is only ever an older frame of the same id, or the default.*)
THEOREM Stale == Spec => []NeverNewer
<1>1. IndInv => NeverNewer
  BY DEF IndInv
<1> QED
  BY <1>1, Inductive, PTL

(* With coding, where general_work outputs the power whose inverse it      *)
(* announces, the receiver's divisor is the transmitter's gain on every    *)
(* loaded subcarrier.                                                      *)
THEOREM Restored == ASSUME Coding PROVE Spec => []PowerRestored
<1>1. IndInv /\ FrameAgreement => PowerRestored
  <2> SUFFICES ASSUME IndInv, FrameAgreement, NEW k \in 1..Len(demapped),
                      demapped[k].first, ~demapped[k].excused,
                      NEW s \in Subcarriers, demapped[k].sent.gain[s] # 0
               PROVE  demapped[k].out.divisor[s] = demapped[k].sent.gain[s]
    BY DEF PowerRestored
  <2>1. Describes(demapped[k].out, demapped[k].sent)
    BY DEF FrameAgreement
  <2> QED
    BY <2>1 DEF Describes, Gain
<1> QED
  BY <1>1, Inductive, Agreement, PTL

-----------------------------------------------------------------------------
(* The adaptive link implements AllocationLink.                            *)

(* The frames sent so far, as a sequence of the queues that hold them.     *)
Line(d, a, r, t) ==
  [k \in 1..Len(d) |-> Contents(d[k].sent)]
    \o [k \in 1..(Len(a) - r) |-> Contents(a[r + k])]
    \o [k \in 1..Len(t) |-> Contents(t[k])]

Entries == [bitloading : [Subcarriers -> Modes], bitcount : BitCounts]

LEMMA ContentsType == ASSUME NEW f \in Frame PROVE Contents(f) \in Entries
  BY DEF Contents, Frame, Entries

LEMMA PartsOfLine ==
  ASSUME NEW S, NEW p \in Seq(S), NEW q \in Seq(S), NEW z, z = p \o q
  PROVE  /\ z \in Seq(S) /\ Len(z) = Len(p) + Len(q)
         /\ \A k \in 1..Len(p) : z[k] = p[k]
         /\ \A k \in (Len(p) + 1)..(Len(p) + Len(q)) : z[k] = q[k - Len(p)]
<1>1. z \in Seq(S) /\ Len(z) = Len(p) + Len(q)
  BY ConcatProperties
<1>2. \A m \in 1..(Len(p) + Len(q)) :
        z[m] = IF m <= Len(p) THEN p[m] ELSE q[m - Len(p)]
  BY ConcatProperties, Zenon
<1>3. \A m \in 1..Len(p) : z[m] = p[m]
  BY <1>2
<1>4. \A m \in (Len(p) + 1)..(Len(p) + Len(q)) : z[m] = q[m - Len(p)]
  BY <1>2
<1> QED
  BY <1>1, <1>3, <1>4

(* What is where in the line.                                              *)
IsLine(p, d, a, r, t) ==
  /\ p \in Seq(Entries)
  /\ Len(p) = Len(d) + (Len(a) - r) + Len(t)
  /\ \A k \in 1..Len(d) : p[k] = Contents(d[k].sent)
  /\ \A k \in (Len(d) + 1)..(Len(d) + (Len(a) - r)) :
       p[k] = Contents(a[k - Len(d) + r])
  /\ \A k \in (Len(d) + (Len(a) - r) + 1)..(Len(d) + (Len(a) - r) + Len(t)) :
       p[k] = Contents(t[k - (Len(d) + (Len(a) - r))])

LEMMA LineIs ==
  ASSUME NEW d \in Seq(Demap), NEW a \in Seq(Frame), NEW r \in 0..Len(a),
         NEW t \in Seq(Frame)
  PROVE  IsLine(Line(d, a, r, t), d, a, r, t)
<1> DEFINE D == [k \in 1..Len(d) |-> Contents(d[k].sent)]
           A == [k \in 1..(Len(a) - r) |-> Contents(a[r + k])]
           T == [k \in 1..Len(t) |-> Contents(t[k])]
<1>1. D \in Seq(Entries) /\ Len(D) = Len(d)
  <2>1. \A k \in 1..Len(d) : d[k] \in Demap
    OBVIOUS
  <2>2. \A k \in 1..Len(d) : d[k].sent \in Frame
    BY <2>1 DEF Demap
  <2> QED
    BY <2>2, ContentsType
<1>2. A \in Seq(Entries) /\ Len(A) = Len(a) - r
  <2>1. \A k \in 1..(Len(a) - r) : a[r + k] \in Frame
    OBVIOUS
  <2>2. Len(a) - r \in Nat
    OBVIOUS
  <2> QED
    BY <2>1, <2>2, ContentsType
<1>3. T \in Seq(Entries) /\ Len(T) = Len(t)
  BY ContentsType
<1>4. /\ \A k \in 1..Len(d) : D[k] = Contents(d[k].sent)
      /\ \A k \in 1..(Len(a) - r) : A[k] = Contents(a[r + k])
      /\ \A k \in 1..Len(t) : T[k] = Contents(t[k])
  OBVIOUS
<1>5. Line(d, a, r, t) = D \o A \o T
  BY DEF Line
<1>6. Len(d) \in Nat /\ Len(a) - r \in Nat /\ Len(t) \in Nat
  OBVIOUS
<1> DEFINE m == Len(d)
           n == Len(a) - r
<1> HIDE DEF D, A, T, m, n
<1>0. m \in Nat /\ n \in Nat /\ Len(D) = m /\ Len(A) = n
  BY <1>1, <1>2, <1>6 DEF m, n
<1> DEFINE B == D \o A
           C == B \o T
<1>7. B = D \o A /\ C = B \o T
  OBVIOUS
<1> HIDE DEF B, C
<1>8. /\ B \in Seq(Entries) /\ Len(B) = m + n
      /\ \A k \in 1..m : B[k] = D[k]
      /\ \A k \in (m + 1)..(m + n) : B[k] = A[k - m]
  <2>1. B = D \o A
    BY <1>7
  <2>2. D \in Seq(Entries) /\ A \in Seq(Entries)
    BY <1>1, <1>2
  <2> QED
    <3>1. /\ B \in Seq(Entries) /\ Len(B) = Len(D) + Len(A)
          /\ \A k \in 1..Len(D) : B[k] = D[k]
          /\ \A k \in (Len(D) + 1)..(Len(D) + Len(A)) : B[k] = A[k - Len(D)]
      BY <2>1, <2>2, PartsOfLine
    <3> QED
      BY <1>0, <3>1
<1>9. /\ C \in Seq(Entries) /\ Len(C) = m + n + Len(t)
      /\ \A k \in 1..(m + n) : C[k] = B[k]
      /\ \A k \in (m + n + 1)..(m + n + Len(t)) : C[k] = T[k - (m + n)]
  <2>1. C = B \o T
    BY <1>7
  <2>2. B \in Seq(Entries) /\ T \in Seq(Entries)
    BY <1>3, <1>8
  <2>3. /\ C \in Seq(Entries) /\ Len(C) = Len(B) + Len(T)
        /\ \A k \in 1..Len(B) : C[k] = B[k]
        /\ \A k \in (Len(B) + 1)..(Len(B) + Len(T)) : C[k] = T[k - Len(B)]
    BY <2>1, <2>2, PartsOfLine
  <2>4. Len(B) = m + n /\ Len(T) = Len(t)
    BY <1>3, <1>8
  <2> QED
    BY <2>3, <2>4
<1>13. Line(d, a, r, t) = C
  BY <1>5 DEF B, C
<1>10. \A k \in 1..Len(d) : C[k] = Contents(d[k].sent)
  <2>1. \A k \in 1..m : k \in 1..(m + n)
    BY <1>0
  <2>2. \A k \in 1..m : C[k] = D[k]
    BY <1>8, <1>9, <2>1
  <2> QED
    BY <1>4, <2>2 DEF m
<1>11. \A k \in (Len(d) + 1)..(Len(d) + (Len(a) - r)) :
         C[k] = Contents(a[k - Len(d) + r])
  <2> SUFFICES ASSUME NEW k \in (Len(d) + 1)..(Len(d) + (Len(a) - r))
               PROVE  C[k] = Contents(a[k - Len(d) + r])
    OBVIOUS
  <2>1. k \in 1..(Len(d) + (Len(a) - r)) /\ k - Len(d) \in 1..(Len(a) - r)
    BY <1>6
  <2>2. C[k] = A[k - Len(d)]
    BY <1>0, <1>8, <1>9, <2>1 DEF m, n
  <2>3. r + (k - Len(d)) = k - Len(d) + r
    BY <1>6
  <2> QED
    BY <1>4, <2>1, <2>2, <2>3
<1>12. \A k \in (Len(d) + (Len(a) - r) + 1)..(Len(d) + (Len(a) - r) + Len(t)) :
         C[k] = Contents(t[k - (Len(d) + (Len(a) - r))])
  BY <1>0, <1>4, <1>6, <1>9 DEF m, n
<1> QED
  BY <1>9, <1>13, <1>10, <1>11, <1>12 DEF m, n, IsLine

LEMMA OneLine ==
  ASSUME NEW d \in Seq(Demap), NEW a \in Seq(Frame), NEW r \in 0..Len(a),
         NEW t \in Seq(Frame), NEW p, IsLine(p, d, a, r, t)
  PROVE  p = Line(d, a, r, t)
<1> DEFINE q == Line(d, a, r, t)
<1>1. IsLine(q, d, a, r, t)
  BY LineIs
<1> HIDE DEF q
<1>2. p \in Seq(Entries) /\ q \in Seq(Entries) /\ Len(p) = Len(q)
  BY <1>1 DEF IsLine
<1>3. ASSUME NEW k \in 1..Len(p) PROVE p[k] = q[k]
  <2>1. /\ Len(p) = Len(d) + (Len(a) - r) + Len(t)
        /\ Len(d) \in Nat /\ Len(a) - r \in Nat /\ Len(t) \in Nat
    BY DEF IsLine
  <2>2. \/ k \in 1..Len(d)
        \/ k \in (Len(d) + 1)..(Len(d) + (Len(a) - r))
        \/ k \in (Len(d) + (Len(a) - r) + 1)..(Len(d) + (Len(a) - r) + Len(t))
    BY <2>1
  <2> QED
    BY <1>1, <2>2 DEF IsLine
<1> QED
  BY <1>2, <1>3, SeqEqual DEF q

(* The items of a call of general_work reach the air when it returns.      *)
LEMMA LineMoved ==
  ASSUME NEW d \in Seq(Demap), NEW a \in Seq(Frame), NEW r \in 0..Len(a),
         NEW t \in Seq(Frame)
  PROVE  Line(d, a \o t, r, << >>) = Line(d, a, r, t)
<1> DEFINE b == a \o t
           p == Line(d, b, r, << >>)
<1>1. /\ b \in Seq(Frame) /\ Len(b) = Len(a) + Len(t)
      /\ \A k \in 1..Len(a) : b[k] = a[k]
      /\ \A k \in (Len(a) + 1)..(Len(a) + Len(t)) : b[k] = t[k - Len(a)]
  BY PartsOfLine
<1>2. /\ Len(d) \in Nat /\ Len(a) \in Nat /\ Len(t) \in Nat
      /\ r \in Nat /\ r <= Len(a)
      /\ << >> \in Seq(Frame) /\ Len(<< >>) = 0
  OBVIOUS
<1> HIDE DEF b, p
<1>3. IsLine(p, d, b, r, << >>)
  <2>1. r \in 0..Len(b)
    BY <1>1, <1>2
  <2> QED
    BY <1>1, <1>2, <2>1, LineIs DEF p
<1>4. /\ p \in Seq(Entries) /\ Len(p) = Len(d) + (Len(a) - r) + Len(t)
      /\ \A k \in 1..Len(d) : p[k] = Contents(d[k].sent)
  BY <1>1, <1>2, <1>3 DEF IsLine
<1>5. ASSUME NEW k \in (Len(d) + 1)..(Len(d) + (Len(a) - r))
      PROVE  p[k] = Contents(a[k - Len(d) + r])
  <2>1. /\ k - Len(d) + r \in 1..Len(a)
        /\ k \in (Len(d) + 1)..(Len(d) + (Len(b) - r))
    BY <1>1, <1>2
  <2> QED
    BY <1>1, <1>3, <2>1 DEF IsLine
<1>6. ASSUME NEW k \in (Len(d) + (Len(a) - r) + 1)
                     ..(Len(d) + (Len(a) - r) + Len(t))
      PROVE  p[k] = Contents(t[k - (Len(d) + (Len(a) - r))])
  <2> DEFINE j == k - Len(d) + r
  <2>1. /\ j \in (Len(a) + 1)..(Len(a) + Len(t))
        /\ k \in (Len(d) + 1)..(Len(d) + (Len(b) - r))
        /\ j - Len(a) = k - (Len(d) + (Len(a) - r))
    BY <1>1, <1>2
  <2>2. p[k] = Contents(b[j])
    BY <1>3, <2>1 DEF IsLine
  <2> HIDE DEF j
  <2>3. b[j] = t[j - Len(a)]
    BY <1>1, <2>1
  <2> QED
    BY <2>1, <2>2, <2>3
<1>7. IsLine(p, d, a, r, t)
  BY <1>4, <1>5, <1>6 DEF IsLine
<1> QED
  BY <1>7, OneLine DEF p, b

(* The next item of a call goes from the air to the frames demapped.       *)
LEMMA LineServed ==
  ASSUME NEW d \in Seq(Demap), NEW a \in Seq(Frame), NEW r \in 0..Len(a),
         NEW t \in Seq(Frame), NEW e \in Seq(Demap),
         r + 1 <= Len(a), Len(e) = Len(d) + 1,
         \A k \in 1..Len(d) : e[k] = d[k],
         e[Len(d) + 1].sent = a[r + 1]
  PROVE  Line(e, a, r + 1, t) = Line(d, a, r, t)
<1> DEFINE p == Line(d, a, r, t)
<1>1. IsLine(p, d, a, r, t)
  BY LineIs
<1> HIDE DEF p
<1>2. /\ Len(d) \in Nat /\ Len(a) \in Nat /\ Len(t) \in Nat /\ r \in Nat
      /\ Len(a) - (r + 1) = Len(a) - r - 1
      /\ Len(e) + (Len(a) - (r + 1)) = Len(d) + (Len(a) - r)
      /\ r + 1 \in 0..Len(a)
  OBVIOUS
<1>3. p \in Seq(Entries) /\ Len(p) = Len(e) + (Len(a) - (r + 1)) + Len(t)
  BY <1>1, <1>2 DEF IsLine
<1>4. ASSUME NEW k \in 1..Len(e) PROVE p[k] = Contents(e[k].sent)
  <2>1. CASE k \in 1..Len(d)
    BY <1>1, <2>1 DEF IsLine
  <2>2. CASE k = Len(d) + 1
    <3>1. k \in (Len(d) + 1)..(Len(d) + (Len(a) - r)) /\ k - Len(d) + r = r + 1
      BY <1>2, <2>2
    <3>2. p[k] = Contents(a[k - Len(d) + r])
      BY <1>1, <3>1 DEF IsLine
    <3> QED
      BY <2>2, <3>1, <3>2
  <2> QED
    BY <1>2, <2>1, <2>2
<1>5. ASSUME NEW k \in (Len(e) + 1)..(Len(e) + (Len(a) - (r + 1)))
      PROVE  p[k] = Contents(a[k - Len(e) + (r + 1)])
  <2>1. /\ k \in (Len(d) + 1)..(Len(d) + (Len(a) - r))
        /\ k - Len(e) + (r + 1) = k - Len(d) + r
    BY <1>2
  <2> QED
    BY <1>1, <2>1 DEF IsLine
<1>6. ASSUME NEW k \in (Len(e) + (Len(a) - (r + 1)) + 1)
                     ..(Len(e) + (Len(a) - (r + 1)) + Len(t))
      PROVE  p[k] = Contents(t[k - (Len(e) + (Len(a) - (r + 1)))])
  BY <1>1, <1>2 DEF IsLine
<1>7. IsLine(p, e, a, r + 1, t)
  BY <1>3, <1>4, <1>5, <1>6 DEF IsLine
<1> QED
  BY <1>2, <1>7, OneLine DEF p

(* What work has served leaves the air when it returns.                    *)
LEMMA LineConsumed ==
  ASSUME NEW d \in Seq(Demap), NEW a \in Seq(Frame), NEW r \in 0..Len(a),
         NEW t \in Seq(Frame)
  PROVE  Line(d, SubSeq(a, r + 1, Len(a)), 0, t) = Line(d, a, r, t)
<1> DEFINE b == SubSeq(a, r + 1, Len(a))
           p == Line(d, b, 0, t)
<1>1. /\ b \in Seq(Frame) /\ Len(b) = Len(a) - r
      /\ \A k \in 1..(Len(a) - r) : b[k] = a[k + r]
  OBVIOUS
<1>2. /\ Len(d) \in Nat /\ Len(a) \in Nat /\ Len(t) \in Nat
      /\ r \in Nat /\ r <= Len(a)
  OBVIOUS
<1> HIDE DEF b, p
<1>3. IsLine(p, d, b, 0, t) /\ Len(b) - 0 = Len(a) - r
  <2>1. 0 \in 0..Len(b) /\ Len(b) - 0 = Len(a) - r
    BY <1>1, <1>2
  <2> QED
    BY <1>1, <2>1, LineIs DEF p
<1>4. /\ p \in Seq(Entries) /\ Len(p) = Len(d) + (Len(a) - r) + Len(t)
      /\ \A k \in 1..Len(d) : p[k] = Contents(d[k].sent)
      /\ \A k \in (Len(d) + (Len(a) - r) + 1)..(Len(d) + (Len(a) - r) + Len(t)) :
           p[k] = Contents(t[k - (Len(d) + (Len(a) - r))])
  BY <1>3 DEF IsLine
<1>5. ASSUME NEW k \in (Len(d) + 1)..(Len(d) + (Len(a) - r))
      PROVE  p[k] = Contents(a[k - Len(d) + r])
  <2>1. k - Len(d) \in 1..(Len(a) - r) /\ k - Len(d) + 0 = k - Len(d)
    BY <1>2
  <2>2. p[k] = Contents(b[k - Len(d)])
    BY <1>3, <2>1 DEF IsLine
  <2> QED
    BY <1>1, <2>1, <2>2
<1>6. IsLine(p, d, a, r, t)
  BY <1>4, <1>5 DEF IsLine
<1> QED
  BY <1>6, OneLine DEF p, b

-----------------------------------------------------------------------------
(* What the received settings have to do with the frames sent.             *)

(* The frames are numbered in the order they are demapped.                 *)
Served == Len(demapped) = FirstAir + rx_done

(* Both ends compute the bit count from the loading.                       *)
Counted ==
  \A k \in 1..Len(sentContents) :
    sentContents[k].bitcount = BitCount(sentContents[k].bitloading)

(* An announcement, wherever it is, carries the loading of its frame, also *)
(* when that frame was demapped long ago.                                  *)
Recorded ==
  \A x \in Known :
    x.frame + 1 \in 1..Len(sentContents) =>
      x.bitloading = sentContents[x.frame + 1].bitloading

Unfilled ==
  \A id \in Ids :
    d_allocation_buffer[id].frame = -1 =>
      d_allocation_buffer[id].bitloading = Default.bitloading

LinkInv == Served /\ Counted /\ Recorded /\ Unfilled

LEMMA SentIsLine == sentContents = Line(demapped, air, rx_done, tx_out)
  BY DEF sentContents, Line

LEMMA Places ==
  ASSUME TypeOK, Control
  PROVE  /\ demapped \in Seq(Demap) /\ air \in Seq(Frame) /\ tx_out \in Seq(Frame)
         /\ rx_done \in 0..Len(air) /\ rx_done \in 0..rx_items
         /\ rx_items \in Nat /\ rx_items <= Len(air)
  BY DEF TypeOK, ChanTypeOK, SrcTypeOK, BufTypeOK, Control

LEMMA SentLength ==
  ASSUME TypeOK, Control, Numbers, Served
  PROVE  /\ sentContents \in Seq(Entries)
         /\ Len(sentContents) = frames - Pending
         /\ FirstAir \in Nat /\ frames \in Nat /\ Pending \in {0, 1}
<1>1. IsLine(sentContents, demapped, air, rx_done, tx_out)
  BY Places, SentIsLine, LineIs
<1>2. Len(sentContents) = Len(demapped) + (Len(air) - rx_done) + Len(tx_out)
  BY <1>1 DEF IsLine
<1>3. Len(sentContents) = frames - Pending
  BY SMTT(30), <1>2, Places, ElementTypes DEF Served, FirstAir, FirstOut
<1> QED
  BY <1>1, <1>3, ElementTypes, NumbersBelow DEF IsLine

(* The invariant survives a step that leaves the line as it is and brings  *)
(* no announcement of a frame in it that was not there.                    *)
LEMMA LineKept ==
  ASSUME LinkInv, Served',
         sentContents' = sentContents,
         \A x \in Known' :
           x.frame + 1 \in 1..Len(sentContents) =>
             \E y \in Known : y.frame = x.frame /\ y.bitloading = x.bitloading,
         Unfilled'
  PROVE  LinkInv'
<1>1. Counted'
  BY DEF LinkInv, Counted
<1>2. Recorded'
  <2> SUFFICES ASSUME NEW x \in Known', x.frame + 1 \in 1..Len(sentContents)
               PROVE  x.bitloading = sentContents[x.frame + 1].bitloading
    BY DEF Recorded
  <2>1. PICK y \in Known : y.frame = x.frame /\ y.bitloading = x.bitloading
    OBVIOUS
  <2> QED
    BY <2>1 DEF LinkInv, Recorded
<1> QED
  BY <1>1, <1>2 DEF LinkInv

-----------------------------------------------------------------------------
(* The steps, each a step of the abstract link or none.                    *)

Stutter == UNCHANGED <<sentContents, receivedContents>>

(* What neither end notices.                                               *)
LEMMA QuietLink ==
  ASSUME LinkInv,
         UNCHANGED <<wire, inbox, air, d_allocation_buffer, frames, tx_out,
                     rx_done, demapped>>,
         Pending' = Pending
  PROVE  LinkInv' /\ Stutter
<1>1. Stutter
  BY DEF Stutter, sentContents, receivedContents
<1>2. Served'
  BY DEF LinkInv, Served, FirstAir, FirstOut
<1>3. Known' = Known
  BY DEF Known, ValuesOf
<1>4. Unfilled'
  BY DEF LinkInv, Unfilled
<1>5. sentContents' = sentContents
  BY <1>1 DEF Stutter
<1>6. LinkInv'
  BY <1>2, <1>3, <1>4, <1>5, LineKept
<1> QED
  BY <1>1, <1>6

LEMMA SendAllocationLink ==
  ASSUME TypeOK, Control, Numbers, LinkInv, SendAllocation, UNCHANGED bufVars
  PROVE  LinkInv' /\ Stutter
<1> DEFINE msg == [id |-> d_allocation.id,
                   frame |-> frames,
                   bitloading |-> d_allocation.bitloading,
                   divisor |-> Divisor(d_allocation.power)]
<1>1. /\ wire' = Append(wire, msg)
      /\ frames' = frames + 1
      /\ Pending = 0 /\ Pending' = 1
      /\ UNCHANGED <<inbox, air, tx_out, d_allocation_buffer, demapped, rx_done>>
  BY DEF SendAllocation, Pending, allocVars, bufVars
<1>2. /\ Len(wire') = Len(wire) + 1 /\ Len(wire) \in Nat
      /\ \A k \in 1..Len(wire) : wire'[k] = wire[k]
      /\ wire'[Len(wire) + 1] = msg
  <2>1. msg \in Announcement
    BY DivisorType DEF TypeOK, SrcTypeOK, Announcement
  <2> QED
    BY <1>1, <2>1 DEF TypeOK, ChanTypeOK
<1>3. msg.frame = frames
  OBVIOUS
<1> HIDE DEF msg
<1>4. Known' \subseteq Known \cup {msg}
  BY <1>1, <1>2 DEF Known, ValuesOf
<1>5. frames' - Pending' = frames - Pending
  BY <1>1, ElementTypes
<1>6. Served'
  BY <1>1, <1>5 DEF LinkInv, Served, FirstAir, FirstOut
<1>7. Stutter
  BY <1>1 DEF Stutter, sentContents, receivedContents
<1>8. ~(msg.frame + 1 \in 1..Len(sentContents))
  BY <1>1, <1>3, SentLength DEF LinkInv
<1>9. Unfilled'
  BY <1>1 DEF LinkInv, Unfilled
<1>10. \A x \in Known' : x.frame + 1 \in 1..Len(sentContents) => x \in Known
  BY <1>4, <1>8
<1>11. sentContents' = sentContents
  BY <1>7 DEF Stutter
<1>12. LinkInv'
  BY <1>6, <1>9, <1>10, <1>11, LineKept
<1> QED
  BY <1>7, <1>12

LEMMA WorkReturnLink ==
  ASSUME TypeOK, Control, Numbers, LinkInv, WorkReturn, UNCHANGED bufVars
  PROVE  LinkInv' /\ Stutter
<1>1. /\ air' = air \o tx_out /\ tx_out' = << >>
      /\ Pending = 0 /\ Pending' = 0
      /\ UNCHANGED <<wire, inbox, frames, d_allocation_buffer, demapped, rx_done>>
  BY DEF WorkReturn, Pending, allocVars, bufVars
<1>2. sentContents' = sentContents
  <2>1. sentContents' = Line(demapped, air \o tx_out, rx_done, << >>)
    BY <1>1 DEF sentContents, Line
  <2> QED
    BY <2>1, Places, LineMoved, SentIsLine
<1>3. Stutter
  BY <1>1, <1>2 DEF Stutter, receivedContents
<1>4. Served'
  <2>1. /\ Len(air \o tx_out) = Len(air) + Len(tx_out) /\ Len(<< >>) = 0
        /\ Len(air) \in Nat /\ Len(tx_out) \in Nat /\ frames \in Nat
    BY ElementTypes DEF TypeOK, ChanTypeOK, SrcTypeOK
  <2>2. FirstAir' = FirstAir
    BY <1>1, <2>1 DEF FirstAir, FirstOut
  <2> QED
    BY <1>1, <2>2 DEF LinkInv, Served
<1>5. Known' = Known /\ Unfilled'
  BY <1>1 DEF Known, ValuesOf, LinkInv, Unfilled
<1>6. LinkInv'
  BY <1>2, <1>4, <1>5, LineKept
<1> QED
  BY <1>3, <1>6

LEMMA OutputFrameLink ==
  ASSUME TypeOK, Control, Numbers, LinkInv, OutputFrame, UNCHANGED bufVars
  PROVE  /\ LinkInv' /\ UNCHANGED receivedContents
         /\ Len(sentContents') = Len(sentContents) + 1
         /\ SubSeq(sentContents', 1, Len(sentContents)) = sentContents
<1> DEFINE f == [id |-> d_allocation_out.id,
                 frame |-> frames - 1,
                 bitloading |-> d_allocation_out.bitloading,
                 gain |-> Gain(d_allocation_out.power),
                 amplitude |-> IF Coding THEN Unit ELSE d_amplitude_abs,
                 bitcount |-> d_bitcount_out]
           t == Append(tx_out, f)
           n == Len(sentContents)
<1>1. /\ tx_out' = t /\ Pending = 1 /\ Pending' = 0
      /\ UNCHANGED <<wire, inbox, air, frames, d_allocation_buffer, demapped,
                     rx_done>>
  BY DEF OutputFrame, Pending, chanVars, bufVars
<1>2. /\ t \in Seq(Frame) /\ Len(t) = Len(tx_out) + 1
      /\ \A k \in 1..Len(tx_out) : t[k] = tx_out[k]
      /\ t[Len(tx_out) + 1] = f
  <2>1. frames > 0
    BY <1>1 DEF Numbers, SourceNumbers, FirstAir, FirstOut, TypeOK, SrcTypeOK,
                ChanTypeOK
  <2>2. f \in Frame
    BY <2>1, GainType DEF TypeOK, SrcTypeOK, Frame
  <2> QED
    BY <2>2 DEF TypeOK, SrcTypeOK
<1>3. /\ f.bitloading = d_allocation.bitloading
      /\ f.bitcount = BitCount(f.bitloading)
  BY <1>1 DEF Numbers, SourceNumbers
<1>4. Contents(f).bitloading = f.bitloading /\ Contents(f).bitcount = f.bitcount
  BY DEF Contents
<1> HIDE DEF f, t, n
<1>5. IsLine(sentContents, demapped, air, rx_done, tx_out)
  BY Places, SentIsLine, LineIs
<1>6. IsLine(sentContents', demapped, air, rx_done, t)
  <2>1. sentContents' = Line(demapped, air, rx_done, t)
    BY <1>1 DEF sentContents, Line
  <2> QED
    BY <1>2, <2>1, Places, LineIs
<1>7. /\ n = Len(demapped) + (Len(air) - rx_done) + Len(tx_out)
      /\ Len(demapped) \in Nat /\ Len(air) - rx_done \in Nat
      /\ Len(tx_out) \in Nat
  BY <1>5, Places DEF IsLine, n
<1>8. /\ sentContents \in Seq(Entries) /\ sentContents' \in Seq(Entries)
      /\ n = Len(sentContents) /\ n \in Nat /\ Len(sentContents') = n + 1
  BY <1>2, <1>5, <1>6, <1>7 DEF IsLine, n
<1>9. ASSUME NEW k \in 1..n PROVE sentContents'[k] = sentContents[k]
  <2>1. CASE k \in 1..Len(demapped)
    BY <1>5, <1>6, <2>1 DEF IsLine
  <2>2. CASE k \in (Len(demapped) + 1)..(Len(demapped) + (Len(air) - rx_done))
    BY <1>5, <1>6, <2>2 DEF IsLine
  <2>3. CASE k \in (Len(demapped) + (Len(air) - rx_done) + 1)..n
    <3> DEFINE j == k - (Len(demapped) + (Len(air) - rx_done))
    <3>1. j \in 1..Len(tx_out)
      BY <1>7, <2>3
    <3>2. sentContents[k] = Contents(tx_out[j])
      BY <1>5, <1>7, <2>3 DEF IsLine
    <3>3. k \in (Len(demapped) + (Len(air) - rx_done) + 1)
               ..(Len(demapped) + (Len(air) - rx_done) + Len(t))
      BY <1>2, <1>7, <2>3
    <3>4. sentContents'[k] = Contents(t[j])
      BY <1>6, <3>3 DEF IsLine
    <3> HIDE DEF j
    <3> QED
      BY <1>2, <3>1, <3>2, <3>4
  <2> QED
    BY <1>7, <2>1, <2>2, <2>3
<1>10. sentContents'[n + 1] = Contents(f)
  <2>1. ASSUME NEW k, k = n + 1 PROVE sentContents'[k] = Contents(f)
    <3>1. /\ k \in (Len(demapped) + (Len(air) - rx_done) + 1)
                 ..(Len(demapped) + (Len(air) - rx_done) + Len(t))
          /\ k - (Len(demapped) + (Len(air) - rx_done)) = Len(tx_out) + 1
      BY <1>2, <1>7, <2>1
    <3>2. sentContents'[k]
            = Contents(t[k - (Len(demapped) + (Len(air) - rx_done))])
      BY <1>6, <3>1 DEF IsLine
    <3> QED
      BY <1>2, <3>1, <3>2
  <2> QED
    BY <2>1
<1>11. SubSeq(sentContents', 1, n) = sentContents
  <2> DEFINE z == SubSeq(sentContents', 1, n)
  <2>1. /\ z \in Seq(Entries) /\ Len(z) = n
        /\ \A k \in 1..n : z[k] = sentContents'[k]
    BY <1>8
  <2> HIDE DEF z
  <2>2. z = sentContents
    BY <1>8, <1>9, <2>1, SeqEqual
  <2> QED
    BY <2>2 DEF z
<1>12. n = frames - 1 /\ frames \in Nat
  BY <1>1, SentLength DEF n, LinkInv
<1>13. Served'
  <2>1. FirstAir' = FirstAir
    BY <1>1, <1>2, ElementTypes DEF FirstAir, FirstOut
  <2> QED
    BY <1>1, <2>1 DEF LinkInv, Served
<1>14. Counted'
  <2> SUFFICES ASSUME NEW k \in 1..(n + 1)
               PROVE  sentContents'[k].bitcount = BitCount(sentContents'[k].bitloading)
    BY <1>8 DEF Counted
  <2>1. CASE k \in 1..n
    BY <1>8, <1>9, <2>1 DEF LinkInv, Counted
  <2>2. CASE k = n + 1
    BY <1>3, <1>4, <1>10, <2>2
  <2> QED
    BY <1>8, <2>1, <2>2
<1>15. Recorded'
  <2>1. Known' = Known
    BY <1>1 DEF Known, ValuesOf
  <2> SUFFICES ASSUME NEW x \in Known, x.frame + 1 \in 1..(n + 1)
               PROVE  x.bitloading = sentContents'[x.frame + 1].bitloading
    BY <1>8, <2>1 DEF Recorded
  <2>2. CASE x.frame + 1 \in 1..n
    BY <1>8, <1>9, <2>2 DEF LinkInv, Recorded
  <2>3. CASE x.frame + 1 = n + 1
    <3>1. x.frame = frames - 1
      BY <1>12, <2>3, NumbersBelow
    <3>2. x.bitloading = d_allocation.bitloading
      BY <1>1, <3>1 DEF Numbers, Content
    <3> QED
      BY <1>3, <1>4, <1>10, <2>3, <3>2
  <2> QED
    BY <1>8, <2>2, <2>3
<1>16. Unfilled'
  BY <1>1 DEF LinkInv, Unfilled
<1>17. UNCHANGED receivedContents
  BY <1>1 DEF receivedContents
<1> QED
  BY <1>8, <1>11, <1>13, <1>14, <1>15, <1>16, <1>17 DEF LinkInv, n

LEMMA NetworkLink ==
  ASSUME TypeOK, Control, Numbers, LinkInv, Network,
         UNCHANGED <<srcVars, bufVars>>
  PROVE  LinkInv' /\ Stutter
<1>1. /\ wire # << >> /\ wire' = Tail(wire)
      /\ UNCHANGED <<air, frames, tx_out, d_allocation_buffer, demapped, rx_done>>
      /\ Pending' = Pending
  BY DEF Network, Deliver, Lose, srcVars, bufVars, Pending
<1>2. /\ ValuesOf(wire)' \subseteq ValuesOf(wire)
      /\ Head(wire) = wire[1] /\ Head(wire) \in Announcement
  BY <1>1, WireHead
<1>3. Head(wire) \in ValuesOf(wire)
  BY <1>1, <1>2 DEF ValuesOf, TypeOK, ChanTypeOK
<1>4. ValuesOf(inbox)' \subseteq ValuesOf(inbox) \cup ValuesOf(wire)
  <2>1. inbox \in Seq(Announcement)
    BY DEF TypeOK, ChanTypeOK
  <2>2. CASE inbox' = Append(inbox, Head(wire))
    <3>1. /\ Len(inbox') = Len(inbox) + 1 /\ Len(inbox) \in Nat
          /\ \A k \in 1..Len(inbox) : inbox'[k] = inbox[k]
          /\ inbox'[Len(inbox) + 1] = Head(wire)
      BY <1>2, <2>1, <2>2, AppendProperties
    <3> QED
      BY <1>3, <3>1 DEF ValuesOf
  <2>3. CASE inbox' = inbox
    BY <2>3 DEF ValuesOf
  <2> QED
    BY <2>2, <2>3 DEF Network, Deliver, Lose
<1>5. Known' \subseteq Known
  BY <1>1, <1>2, <1>4 DEF Known
<1>6. Stutter
  BY <1>1 DEF Stutter, sentContents, receivedContents
<1>7. Served' /\ Unfilled'
  BY <1>1 DEF LinkInv, Served, Unfilled, FirstAir, FirstOut
<1>8. sentContents' = sentContents
  BY <1>6 DEF Stutter
<1>9. LinkInv'
  BY <1>5, <1>7, <1>8, LineKept
<1> QED
  BY <1>6, <1>9

LEMMA RecvAllocationLink ==
  ASSUME TypeOK, Control, Numbers, LinkInv, RecvAllocation, UNCHANGED srcVars
  PROVE  LinkInv' /\ Stutter
<1> DEFINE msg == Head(inbox)
           slot == [frame |-> msg.frame, bitloading |-> msg.bitloading,
                    divisor |-> msg.divisor]
<1>1. /\ inbox # << >> /\ inbox' = Tail(inbox)
      /\ d_allocation_buffer' = [d_allocation_buffer EXCEPT ![msg.id] = slot]
      /\ UNCHANGED <<wire, air, frames, tx_out, demapped, rx_done>>
      /\ Pending' = Pending
  BY DEF RecvAllocation, srcVars, Pending
<1>2. /\ Len(inbox) \in Nat \ {0} /\ Len(inbox') = Len(inbox) - 1
      /\ \A k \in 1..Len(inbox') : inbox'[k] = inbox[k + 1]
      /\ msg = inbox[1] /\ msg \in Announcement
  BY <1>1 DEF TypeOK, ChanTypeOK
<1>3. msg \in Known /\ msg.id \in Ids /\ msg.frame # -1
  BY <1>2 DEF Known, ValuesOf, Announcement, Ids
<1>4. /\ slot.frame = msg.frame /\ slot.bitloading = msg.bitloading
      /\ d_allocation_buffer'[msg.id] = slot
      /\ \A id \in Ids : id # msg.id =>
           d_allocation_buffer'[id] = d_allocation_buffer[id]
  BY <1>1, <1>3 DEF TypeOK, BufTypeOK
<1> HIDE DEF msg, slot
<1>5. Known' \subseteq Known \cup {slot}
  <2>1. ValuesOf(wire)' = ValuesOf(wire)
    BY <1>1 DEF ValuesOf
  <2>2. \A k \in 1..Len(inbox') : k + 1 \in 1..Len(inbox)
    BY <1>2
  <2>3. ValuesOf(inbox)' \subseteq ValuesOf(inbox)
    BY <1>2, <2>2 DEF ValuesOf
  <2> QED
    BY <1>4, <2>1, <2>3 DEF Known
<1>6. \A x \in Known' :
        \E y \in Known : y.frame = x.frame /\ y.bitloading = x.bitloading
  BY <1>3, <1>4, <1>5
<1>7. Stutter
  BY <1>1 DEF Stutter, sentContents, receivedContents
<1>8. Served'
  BY <1>1 DEF LinkInv, Served, FirstAir, FirstOut
<1>9. Unfilled'
  BY <1>3, <1>4 DEF LinkInv, Unfilled
<1>10. sentContents' = sentContents
  BY <1>7 DEF Stutter
<1>11. LinkInv'
  BY <1>6, <1>8, <1>9, <1>10, LineKept
<1> QED
  BY <1>7, <1>11

LEMMA ReadReturnLink ==
  ASSUME TypeOK, Control, Numbers, LinkInv, ReadReturn, UNCHANGED srcVars
  PROVE  LinkInv' /\ Stutter
<1>1. /\ rx_done = rx_items
      /\ air' = SubSeq(air, rx_done + 1, Len(air)) /\ rx_done' = 0
      /\ UNCHANGED <<wire, inbox, frames, tx_out, d_allocation_buffer, demapped>>
      /\ Pending' = Pending
  BY DEF ReadReturn, srcVars, Pending
<1>2. sentContents' = sentContents
  <2>1. sentContents' = Line(demapped, SubSeq(air, rx_done + 1, Len(air)), 0, tx_out)
    BY <1>1 DEF sentContents, Line
  <2> QED
    BY <2>1, Places, LineConsumed, SentIsLine
<1>3. Stutter
  BY <1>1, <1>2 DEF Stutter, receivedContents
<1>4. Served'
  <2>1. Len(air') = Len(air) - rx_done
    BY <1>1, Places
  <2>2. FirstOut' = FirstOut /\ FirstOut \in Nat /\ FirstAir \in Nat
    BY <1>1, NumbersBelow DEF FirstOut
  <2>3. FirstAir' = FirstAir + rx_done
    BY <2>1, <2>2, Places, ElementTypes DEF FirstAir
  <2> QED
    BY <1>1, <2>2, <2>3, Places DEF LinkInv, Served
<1>5. Known' = Known /\ Unfilled'
  BY <1>1 DEF Known, ValuesOf, LinkInv, Unfilled
<1>6. LinkInv'
  BY <1>2, <1>4, <1>5, LineKept
<1> QED
  BY <1>3, <1>6

(* The slot that serves a frame holds the loading of a frame of its id     *)
(* that is not newer, or the default.                                      *)
LEMMA WriteItemLink ==
  ASSUME TypeOK, Control, Numbers, LinkInv, WriteItem, UNCHANGED srcVars,
         ReadMax = 1
  PROVE  LinkInv' /\ Link!Receive /\ UNCHANGED sentContents
<1> DEFINE slot == d_allocation_buffer[SlotId(rx_done)]
           d == [sent |-> air[rx_done + 1],
                 out |-> Settings(slot.bitloading, slot.divisor),
                 from |-> slot.frame, first |-> rx_done = 0,
                 excused |-> air[rx_done + 1].frame \in lost \cup InTransit]
           n == Len(receivedContents)
<1>1. /\ demapped' = Append(demapped, d) /\ rx_done' = rx_done + 1
      /\ UNCHANGED <<wire, inbox, air, frames, tx_out, d_allocation_buffer>>
      /\ Pending' = Pending
  BY DEF WriteItem, srcVars, chanVars, Pending
<1>2. rx_done = 0 /\ rx_done + 1 <= Len(air)
  BY Places DEF WriteItem, TypeOK, BufTypeOK
<1>3. TypeOK'
  BY ReadTypeOK DEF Read
<1>4. /\ demapped' \in Seq(Demap) /\ demapped \in Seq(Demap)
      /\ Len(demapped') = Len(demapped) + 1 /\ Len(demapped) \in Nat
      /\ \A k \in 1..Len(demapped) : demapped'[k] = demapped[k]
      /\ demapped'[Len(demapped) + 1] = d
  <2> HIDE DEF d
  <2>1. demapped' \in Seq(Demap) /\ demapped \in Seq(Demap)
    BY <1>3 DEF TypeOK, BufTypeOK
  <2>2. demapped \in Seq(Demap \cup {d}) /\ d \in Demap \cup {d}
    BY <2>1
  <2> QED
    BY <1>1, <2>1, <2>2, AppendProperties
<1>5. /\ d.sent = air[rx_done + 1]
      /\ Contents(d.out).bitloading = slot.bitloading
      /\ Contents(d.out).bitcount = BitCount(slot.bitloading)
      /\ Contents(d.out) = [bitloading |-> slot.bitloading,
                            bitcount |-> BitCount(slot.bitloading)]
  BY DEF Contents, Settings
<1> HIDE DEF d, slot
<1>6. sentContents' = sentContents
  <2>1. sentContents' = Line(demapped', air, rx_done + 1, tx_out)
    BY <1>1 DEF sentContents, Line
  <2>2. Line(demapped', air, rx_done + 1, tx_out)
          = Line(demapped, air, rx_done, tx_out)
    BY SMTT(30), <1>2, <1>4, <1>5, Places, LineServed
  <2> QED
    BY <2>1, <2>2, SentIsLine
<1>7. LinkInv'
  <2>1. Served'
    <3>1. FirstAir' = FirstAir
      BY <1>1 DEF FirstAir, FirstOut
    <3>2. FirstAir \in Nat
      BY NumbersBelow
    <3> QED
      BY <1>1, <1>2, <1>4, <3>1, <3>2 DEF LinkInv, Served
  <2>2. Known' = Known /\ Unfilled'
    BY <1>1 DEF Known, ValuesOf, LinkInv, Unfilled
  <2> QED
    BY <1>6, <2>1, <2>2, LineKept
<1>8. n = Len(demapped) /\ n = FirstAir /\ n \in Nat
  BY <1>2, <1>4, SentLength DEF receivedContents, LinkInv, Served
<1>9. n < Len(sentContents)
  <2>1. frames - Pending - FirstAir >= 1
    BY <1>2, ElementTypes DEF FirstAir, FirstOut
  <2> QED
    BY <1>8, <2>1, SentLength DEF LinkInv
<1>10. receivedContents' = Append(receivedContents, Contents(d.out))
  <2> DEFINE D == [k \in 1..Len(demapped) |-> Contents(demapped[k].out)]
             E == [k \in 1..Len(demapped') |-> Contents(demapped'[k].out)]
  <2>1. E = Append(D, Contents(d.out))
    BY <1>4
  <2> QED
    BY <2>1 DEF receivedContents
<1>11. Contents(d.out) \in {Contents(Settings(Default.bitloading, Default.power))}
                             \cup {sentContents[m] : m \in Link!SameId(n + 1)}
  <2>1. /\ slot.frame # -1 => /\ slot.frame <= air[1].frame
                              /\ slot.frame % IdSpace = air[1].frame % IdSpace
    BY FirstItem, <1>2 DEF slot
  <2>2. air[1].frame = FirstAir /\ air[1].id \in Ids
    <3>1. 1 \in 1..Len(air)
      BY <1>2, ElementTypes
    <3>2. WellNumbered(air[1], FirstAir + 1 - 1) /\ air[1] \in Frame
      BY <3>1, ElementTypes DEF Numbers, AirNumbers
    <3> QED
      BY <3>2, NumbersBelow DEF WellNumbered, Frame, Ids
  <2>3. slot \in Known
    BY <2>2 DEF slot, SlotId, Known
  <2>4. CASE slot.frame = -1
    <3>1. slot.bitloading = Default.bitloading
      BY <2>2, <2>4 DEF slot, SlotId, LinkInv, Unfilled
    <3>2. Contents(Settings(Default.bitloading, Default.power))
            = [bitloading |-> Default.bitloading,
               bitcount |-> BitCount(Default.bitloading)]
      BY DEF Contents, Settings
    <3> QED
      BY <1>5, <3>1, <3>2
  <2>5. CASE slot.frame # -1
    <3> DEFINE m == slot.frame + 1
    <3>1. slot.frame \in Nat /\ slot.frame <= n
      BY <1>8, <2>1, <2>2, <2>5, ElementTypes DEF slot, SlotId
    <3>2. m \in 1..(n + 1) /\ m \in 1..Len(sentContents)
      BY <1>8, <1>9, <3>1, SentLength DEF LinkInv
    <3>3. m % IdSpace = (n + 1) % IdSpace
      <4>1. slot.frame % IdSpace = n % IdSpace
        BY <1>8, <2>1, <2>2, <2>5
      <4>2. /\ ((slot.frame % IdSpace) + 1) % IdSpace = (slot.frame + 1) % IdSpace
            /\ ((n % IdSpace) + 1) % IdSpace = (n + 1) % IdSpace
        BY <1>8, <3>1, ModSucc
      <4> QED
        BY <4>1, <4>2
    <3>4. m \in Link!SameId(n + 1)
      BY <3>2, <3>3 DEF Link!SameId
    <3>5. slot.bitloading = sentContents[m].bitloading
      BY <2>3, <3>2 DEF LinkInv, Recorded
    <3>6. sentContents[m].bitcount = BitCount(sentContents[m].bitloading)
      BY <3>2 DEF LinkInv, Counted
    <3>7. sentContents[m] \in Entries
      BY <3>2, SentLength DEF LinkInv
    <3> HIDE DEF m
    <3>8. sentContents[m] = Contents(d.out)
      BY <1>5, <3>5, <3>6, <3>7 DEF Entries
    <3> QED
      BY <3>4, <3>8
  <2> QED
    BY <2>4, <2>5
<1>12. Link!Receive
  BY <1>9, <1>10, <1>11 DEF Link!Receive, n
<1> QED
  BY <1>6, <1>7, <1>12

-----------------------------------------------------------------------------
LEMMA LinkInit == Init => LinkInv /\ Link!Init
<1> SUFFICES ASSUME Init PROVE LinkInv /\ Link!Init
  OBVIOUS
<1>1. /\ wire = << >> /\ inbox = << >> /\ air = << >> /\ tx_out = << >>
      /\ frames = 0 /\ Pending = 0 /\ demapped = << >> /\ rx_done = 0
      /\ \A id \in Ids :
           /\ d_allocation_buffer[id].frame = -1
           /\ d_allocation_buffer[id].bitloading = Default.bitloading
  BY DEF Init, ChanInit, SrcInit, BufInit, Pending
<1>2. TypeOK /\ Control
  BY InitTypeOK DEF Init, ChanInit, SrcInit, BufInit, Control
<1>3. sentContents = << >>
  <2>1. IsLine(sentContents, demapped, air, rx_done, tx_out)
    BY <1>2, Places, SentIsLine, LineIs
  <2>2. /\ Len(demapped) = 0 /\ Len(air) = 0 /\ Len(tx_out) = 0
    BY <1>1
  <2>3. sentContents \in Seq(Entries) /\ Len(sentContents) = 0
    BY <1>1, <2>1, <2>2 DEF IsLine
  <2> QED
    BY <2>3
<1>4. receivedContents = << >>
  BY <1>1 DEF receivedContents
<1>5. Served
  <2>1. /\ Len(demapped) = 0 /\ Len(air) = 0 /\ Len(tx_out) = 0
        /\ frames = 0 /\ Pending = 0 /\ rx_done = 0
    BY <1>1
  <2>2. FirstOut = 0
    BY <2>1 DEF FirstOut
  <2>3. FirstAir = 0
    BY <2>1, <2>2 DEF FirstAir
  <2> QED
    BY <2>1, <2>3 DEF Served
<1>6. Counted /\ Unfilled
  BY <1>1, <1>3 DEF Counted, Unfilled
<1>7. Recorded
  BY <1>3 DEF Recorded
<1> QED
  BY <1>3, <1>4, <1>5, <1>6, <1>7 DEF LinkInv, Link!Init

LEMMA LinkStep ==
  ASSUME TypeOK, Control, Numbers, LinkInv, [Next]_vars, ReadMax = 1
  PROVE  /\ LinkInv'
         /\ [Link!Next]_<<sentContents, receivedContents>>
<1> USE DEF Stutter
<1>1. CASE Setters /\ UNCHANGED bufVars
  BY <1>1, QuietLink
     DEF Setters, SetAllocation, SetAllocationScheme, allocVars, chanVars,
         bufVars, Pending
<1>2. CASE Work /\ UNCHANGED bufVars
  <2>1. ASSUME NEW n \in 1..WorkMax, WorkCall(n) PROVE LinkInv' /\ Stutter
    BY <1>2, <2>1, QuietLink
       DEF WorkCall, allocVars, chanVars, bufVars, Pending
  <2>2. CASE RecvSnr
    BY <1>2, <2>2, QuietLink DEF RecvSnr, chanVars, bufVars, Pending
  <2>3. CASE OutputFrame
    BY <1>2, <2>3, OutputFrameLink DEF Link!Next, Link!Send
  <2> QED
    BY <1>2, <2>1, <2>2, <2>3, SendAllocationLink, WorkReturnLink DEF Work
<1>3. CASE Network /\ UNCHANGED <<srcVars, bufVars>>
  BY <1>3, NetworkLink
<1>4. CASE BufferSetter /\ UNCHANGED srcVars
  BY <1>4, QuietLink
     DEF BufferSetter, SetBufferAllocation, chanVars, srcVars, Pending
<1>5. CASE Read /\ UNCHANGED srcVars
  <2>1. ASSUME NEW n \in 1..ReadMax, ReadCall(n) PROVE LinkInv' /\ Stutter
    <3>1. rx_done' = rx_done
      BY <2>1, Places DEF ReadCall
    <3> QED
      BY <1>5, <2>1, <3>1, QuietLink DEF ReadCall, chanVars, srcVars, Pending
  <2>2. CASE WriteItem
    BY <1>5, <2>2, WriteItemLink DEF Link!Next
  <2> QED
    BY <1>5, <2>1, <2>2, RecvAllocationLink, ReadReturnLink DEF Read
<1>6. ASSUME NEW n \in 1..snr_due, NEW arriving \in 0..n,
             FeedbackWork(n, arriving)
      PROVE  LinkInv' /\ Stutter
  BY <1>6, QuietLink DEF FeedbackWork, chanVars, Pending
<1>7. CASE UNCHANGED vars
  BY <1>7, QuietLink DEF vars, chanVars, srcVars, bufVars, Pending
<1> QED
  BY <1>1, <1>2, <1>3, <1>4, <1>5, <1>6, <1>7 DEF Next

(* The adaptive link keeps the promise of AllocationLink while work is     *)
(* called with one id at a time: frames are demapped in the order they     *)
(* were sent, each once, with the settings of a frame of the same id that  *)
(* is not newer or with the initial ones, for every id space, window and   *)
(* number of frames, and whatever is dropped or set in between.            *)
THEOREM Refinement == ASSUME ReadMax = 1 PROVE Spec => ImplementsLink
<1>1. Init => LinkInv /\ Link!Init
  BY LinkInit
<1>2. IndInv /\ LinkInv /\ [Next]_vars
        => LinkInv' /\ [Link!Next]_<<sentContents, receivedContents>>
  BY LinkStep DEF IndInv, Numbers
<1> QED
  BY <1>1, <1>2, Inductive, PTL DEF Spec, ImplementsLink, Link!Spec

-----------------------------------------------------------------------------
(* The resource blocks.                                                    *)

(* The blocks follow one another without gap or overlap and end with the   *)
(* last subcarrier.                                                        *)
Start(r, k) ==
  IF k = r.number THEN d_subcarriers ELSE Offset(r, k, FirstBlock(r))

Contiguous(r) ==
  /\ r.number > 0
  /\ Start(r, 0) = 0
  /\ \A k \in 0..(r.number - 1) :
       Offset(r, k, FirstBlock(r)) + Width(r, k) = Start(r, k + 1)

(* Unless the RPC thread stored something since recv_snr began, the blocks *)
(* are a complete grouping and the vectors are filled along it.            *)
Own(value, r, k) == value = Block(r, k - 1, FirstBlock(r))

Running ==
  /\ Contiguous(blocks)
  /\ firstBlock = FirstBlock(blocks)
  /\ i <= blocks.number

Combining ==
  pc = "combine" =>
    /\ Len(snr) = i
    /\ \A k \in 1..i : Own(snr[k], blocks, k)

Loading ==
  pc = "load" =>
    /\ Len(snr) = blocks.number /\ Len(loaded) = i
    /\ \A k \in 1..blocks.number : Own(snr[k], blocks, k)
    /\ \A k \in 1..i : Own(loaded[k], blocks, k)

Mine(value, s) == value = DefaultValue \/ s - 1 \in value

Duplicating ==
  pc = "duplicate" =>
    /\ Len(loaded) = blocks.number
    /\ \A k \in 1..blocks.number :
         loaded[k] = DefaultValue \/ Own(loaded[k], blocks, k)
    /\ Len(allocation) = Start(blocks, i)
    /\ \A s \in 1..Len(allocation) : Mine(allocation[s], s)

BlocksInv ==
  /\ BlocksTypeOK
  /\ \A f \in Fields \ unwritten : blocks[f] = target[f]
  /\ pc = "idle" \/ disturbed \/ (Running /\ Combining /\ Loading /\ Duplicating)
  /\ pc = "combine" => loaded = << >>
  /\ OwnBlock

-----------------------------------------------------------------------------
USE BlocksAssumption

(* Grouping by size.                                                       *)
LEMMA BySizeContiguous ==
  ASSUME NEW b \in Nat \ {0}
  PROVE  BySize(b) \in [Fields -> Nat] /\ Contiguous(BySize(b))
<1> DEFINE q == d_subcarriers \div b
           m == d_subcarriers % b
           h == m \div 2
           r == BySize(b)
           n == q + (IF m = 0 THEN 0 ELSE IF h = 0 THEN 1 ELSE 2)
<1>1. /\ d_subcarriers = b * q + m
      /\ q \in Nat /\ m \in 0..(b - 1)
      /\ h \in Nat /\ m - h \in Nat /\ (m > 0 => m - h > 0)
  <2>1. d_subcarriers = b * q + m /\ q \in Nat /\ m \in 0..(b - 1)
    BY DivMod
  <2> HIDE DEF m, q
  <2>2. h \in Nat /\ m - h \in Nat /\ (m > 0 => m - h > 0)
    BY <2>1
  <2> QED
    BY <2>1, <2>2
<1>2. r.size = b /\ r.number = n /\ r.first = h /\ r.last = m - h
  BY DEF BySize
<1>3. r \in [size : Nat, number : Nat, first : Nat, last : Nat]
  BY <1>1 DEF BySize
<1>4. r \in [Fields -> Nat]
  BY <1>3 DEF Fields
<1> HIDE DEF r, q, m, h
<1>5. n \in Nat /\ n > 0
  <2>1. m = 0 => q > 0
    BY <1>1
  <2> QED
    BY <1>1, <2>1
<1>6. CASE h = 0
  <2>1. FirstBlock(r) = 0
    BY <1>2, <1>6 DEF FirstBlock
  <2>2. \A k \in Nat : Offset(r, k, 0) = k * b
    BY <1>2, <1>6 DEF Offset
  <2>3. Start(r, 0) = 0
    BY <1>2, <1>5, <2>1, <2>2 DEF Start
  <2>4. ASSUME NEW k \in 0..(n - 1)
        PROVE  k * b + Width(r, k) = Start(r, k + 1)
    <3>1. CASE k = n - 1 /\ m > 0
      <4>1. k = q /\ Width(r, k) = m
        BY <1>1, <1>2, <1>6, <3>1 DEF Width
      <4> QED
        BY <1>1, <1>2, <3>1, <4>1 DEF Start
    <3>2. CASE k = n - 1 /\ m = 0
      <4>1. k = q - 1 /\ Width(r, k) = b
        BY <1>1, <1>2, <1>6, <3>2 DEF Width
      <4>2. (q - 1) * b + b = b * q
        BY <1>1
      <4> QED
        BY <1>1, <1>2, <3>2, <4>1, <4>2 DEF Start
    <3>3. CASE k # n - 1
      <4>1. Width(r, k) = b
        BY <1>2, <1>6, <3>3 DEF Width
      <4>2. Start(r, k + 1) = (k + 1) * b
        BY <1>2, <1>5, <2>1, <2>2, <3>3 DEF Start
      <4> QED
        BY <4>1, <4>2
    <3> QED
      BY <1>1, <3>1, <3>2, <3>3
  <2> QED
    <3>1. \A k \in 0..(r.number - 1) :
             Offset(r, k, FirstBlock(r)) + Width(r, k) = Start(r, k + 1)
      BY <1>2, <2>1, <2>2, <2>4
    <3>2. r.number > 0
      BY <1>2, <1>5
    <3>3. Contiguous(r)
      BY <2>3, <3>1, <3>2 DEF Contiguous
    <3> QED
      BY <1>4, <3>3 DEF r
<1>7. CASE h > 0
  <2>1. FirstBlock(r) = 1 /\ m > 0 /\ n = q + 2
    BY <1>1, <1>2, <1>7 DEF FirstBlock, h
  <2>2. /\ Offset(r, 0, 1) = 0
        /\ \A k \in Nat \ {0} : Offset(r, k, 1) = (k - 1) * b + h
    BY <1>2 DEF Offset
  <2>3. Start(r, 0) = 0
    BY <1>2, <1>5, <2>1, <2>2 DEF Start
  <2>4. ASSUME NEW k \in 0..(n - 1)
        PROVE  Offset(r, k, 1) + Width(r, k) = Start(r, k + 1)
    <3>1. CASE k = 0
      <4>1. Width(r, 0) = h
        BY <1>2, <1>7 DEF Width
      <4>2. Start(r, 1) = (1 - 1) * b + h
        BY <1>1, <1>2, <2>1, <2>2 DEF Start
      <4> QED
        BY <1>1, <2>2, <3>1, <4>1, <4>2
    <3>2. CASE k # 0 /\ k = n - 1
      <4>1. Width(r, k) = m - h
        BY <1>1, <1>2, <2>1, <3>2 DEF Width
      <4>2. Offset(r, k, 1) = q * b + h
        BY <1>1, <2>1, <2>2, <3>2
      <4>3. Start(r, k + 1) = d_subcarriers
        BY <1>1, <1>2, <2>1, <3>2 DEF Start
      <4> QED
        BY <1>1, <4>1, <4>2, <4>3
    <3>3. CASE k # 0 /\ k # n - 1
      <4>1. Width(r, k) = b
        BY <1>2, <3>3 DEF Width
      <4>2. Start(r, k + 1) = ((k + 1) - 1) * b + h
        BY <1>1, <1>2, <2>1, <2>2, <3>3 DEF Start
      <4>3. (k - 1) * b + h + b = ((k + 1) - 1) * b + h
        BY <1>1, <3>3
      <4> QED
        BY <2>2, <3>3, <4>1, <4>2, <4>3
    <3> QED
      BY <3>1, <3>2, <3>3
  <2> QED
    <3>1. r.number > 0 /\ r.number = n
      BY <1>2, <1>5
    <3>2. Contiguous(r)
      BY <2>1, <2>3, <2>4, <3>1 DEF Contiguous
    <3> QED
      BY <1>4, <3>2 DEF r
<1> QED
  BY <1>1, <1>6, <1>7

(* Grouping by number: the first and the last block take what is left.     *)
LEMMA ByNumberContiguous ==
  ASSUME NEW n \in Nat \ {0}
  PROVE  ByNumber(n) \in [Fields -> Nat] /\ Contiguous(ByNumber(n))
<1> DEFINE q == d_subcarriers \div n
           m == d_subcarriers % n
           h == m \div 2
           r == ByNumber(n)
<1>1. /\ d_subcarriers = n * q + m
      /\ q \in Nat /\ m \in 0..(n - 1)
      /\ h \in Nat /\ m - h \in Nat /\ m - h >= h
      /\ (m > 0 => m - h > 0)
  <2>1. d_subcarriers = n * q + m /\ q \in Nat /\ m \in 0..(n - 1)
    BY DivMod
  <2> HIDE DEF m, q
  <2>2. h \in Nat /\ m - h \in Nat /\ m - h >= h /\ (m > 0 => m - h > 0)
    BY <2>1
  <2> QED
    BY <2>1, <2>2
<1>2. r.size = q /\ r.number = n /\ r.first = q + h /\ r.last = q + m - h
  BY DEF ByNumber
<1> HIDE DEF q, m, h
<1>3. r \in [Fields -> Nat]
  <2>1. q + h \in Nat /\ q + m - h \in Nat
    BY <1>1
  <2>2. r \in [size : Nat, number : Nat, first : Nat, last : Nat]
    BY <1>1, <2>1 DEF ByNumber, q, m, h
  <2> HIDE DEF r
  <2> QED
    BY <2>2 DEF Fields
<1> HIDE DEF r
<1>4. r.last > 0
  <2>1. q > 0 \/ m > 0
    BY <1>1
  <2> QED
    BY <1>1, <1>2, <2>1
<1>5. CASE q + h = 0
  <2>1. q = 0 /\ h = 0 /\ m = d_subcarriers /\ FirstBlock(r) = 0
    BY <1>1, <1>2, <1>5 DEF FirstBlock
  <2>2. \A k \in Nat : Offset(r, k, 0) = 0
    BY <1>2, <2>1 DEF Offset
  <2>3. Start(r, 0) = 0
    BY <1>2, <2>1, <2>2 DEF Start
  <2>4. ASSUME NEW k \in 0..(n - 1)
        PROVE  Offset(r, k, 0) + Width(r, k) = Start(r, k + 1)
    <3>1. CASE k = n - 1
      BY <1>2, <1>4, <2>1, <2>2, <3>1 DEF Width, Start
    <3>2. CASE k # n - 1
      BY <1>2, <2>1, <2>2, <3>2 DEF Width, Start
    <3> QED
      BY <3>1, <3>2
  <2> QED
    BY <1>2, <1>3, <2>1, <2>3, <2>4 DEF Contiguous, r
<1>6. CASE q + h > 0
  <2>1. FirstBlock(r) = 1
    BY <1>2, <1>6 DEF FirstBlock
  <2>2. /\ Offset(r, 0, 1) = 0
        /\ \A k \in Nat \ {0} : Offset(r, k, 1) = (k - 1) * q + (q + h)
    BY <1>2 DEF Offset
  <2>3. Start(r, 0) = 0
    BY <1>2, <2>1, <2>2 DEF Start
  <2>4. ASSUME NEW k \in 0..(n - 1)
        PROVE  Offset(r, k, 1) + Width(r, k) = Start(r, k + 1)
    <3>1. CASE k = 0 /\ n = 1
      <4>1. m = 0 /\ h = 0 /\ q = d_subcarriers
        BY <1>1, <3>1
      <4>2. Width(r, k) = q
        BY <1>1, <1>2, <1>6, <3>1, <4>1 DEF Width
      <4>3. Start(r, k + 1) = d_subcarriers
        BY <1>2, <3>1 DEF Start
      <4> QED
        BY <2>2, <3>1, <4>1, <4>2, <4>3
    <3>2. CASE k = 0 /\ n > 1
      <4>1. Width(r, k) = q + h
        BY <1>1, <1>2, <1>6, <3>2 DEF Width
      <4>2. Start(r, k + 1) = (1 - 1) * q + (q + h)
        BY <1>2, <2>1, <2>2, <3>2 DEF Start
      <4> QED
        BY <1>1, <2>2, <3>2, <4>1, <4>2
    <3>3. CASE k # 0 /\ k = n - 1
      <4>1. Width(r, k) = q + m - h
        BY <1>2, <1>4, <3>3 DEF Width
      <4>2. Offset(r, k, 1) = (n - 2) * q + (q + h)
        BY <1>1, <2>2, <3>3
      <4>3. (n - 2) * q + (q + h) + (q + m - h) = n * q + m
        BY <1>1
      <4>4. Start(r, k + 1) = d_subcarriers
        BY <1>2, <3>3 DEF Start
      <4> QED
        BY <1>1, <4>1, <4>2, <4>3, <4>4
    <3>4. CASE k # 0 /\ k # n - 1
      <4>1. Width(r, k) = q
        BY <1>2, <3>4 DEF Width
      <4>2. Start(r, k + 1) = ((k + 1) - 1) * q + (q + h)
        BY <1>1, <1>2, <2>1, <2>2, <3>4 DEF Start
      <4>3. (k - 1) * q + (q + h) + q = ((k + 1) - 1) * q + (q + h)
        BY <1>1, <3>4
      <4> QED
        BY <2>2, <3>4, <4>1, <4>2, <4>3
    <3> QED
      BY <3>1, <3>2, <3>3, <3>4
  <2> QED
    BY <1>2, <1>3, <2>1, <2>3, <2>4 DEF Contiguous, r
<1> QED
  BY <1>1, <1>5, <1>6

LEMMA GroupingContiguous ==
  ASSUME NEW r \in Groupings \cup {BySize(1)}
  PROVE  r \in [Fields -> Nat] /\ Contiguous(r)
<1> USE BlocksAssumption DEF Groupings
<1>1. CASE \E b \in Nat \ {0} : r = BySize(b)
  BY <1>1, BySizeContiguous, Zenon
<1>2. CASE \E n \in Nat \ {0} : r = ByNumber(n)
  BY <1>2, ByNumberContiguous, Zenon
<1>3. 1 \in Nat \ {0}
  OBVIOUS
<1>4. \/ \E b \in Nat \ {0} : r = BySize(b)
      \/ \E n \in Nat \ {0} : r = ByNumber(n)
  BY <1>3, Zenon
<1> QED
  BY <1>1, <1>2, <1>4

(* Where the blocks are contiguous, Block and Width agree.                 *)
LEMMA BlockRange ==
  ASSUME NEW r \in [Fields -> Nat], NEW k \in Nat
  PROVE  /\ Offset(r, k, FirstBlock(r)) \in Nat
         /\ Width(r, k) \in Nat
         /\ Block(r, k, FirstBlock(r)) =
              Offset(r, k, FirstBlock(r))
                ..(Offset(r, k, FirstBlock(r)) + Width(r, k) - 1)
<1>1. r.size \in Nat /\ r.number \in Nat /\ r.first \in Nat /\ r.last \in Nat
  BY DEF Fields
<1>2. Width(r, k) \in Nat
  BY <1>1 DEF Width
<1>3. Offset(r, k, FirstBlock(r)) \in Nat
  <2>1. CASE k = 0
    BY <1>1, <2>1 DEF Offset, FirstBlock
  <2>2. CASE k # 0
    <3>1. k - FirstBlock(r) \in Nat
      BY <2>2 DEF FirstBlock
    <3>2. (k - FirstBlock(r)) * r.size \in Nat
      BY <1>1, <3>1
    <3> QED
      BY <1>1, <2>2, <3>2 DEF Offset
  <2> QED
    BY <2>1, <2>2
<1>4. Block(r, k, FirstBlock(r)) =
        Offset(r, k, FirstBlock(r))
          ..(Offset(r, k, FirstBlock(r)) + Width(r, k) - 1)
  <2>1. (k = 0 /\ FirstBlock(r) = 1) <=> (k = 0 /\ r.first # 0)
    BY DEF FirstBlock
  <2> QED
    BY <2>1 DEF Block, Width
<1> QED
  BY <1>2, <1>3, <1>4

(* Past the first block, offsets grow by the block size.                   *)
LEMMA OffsetsGrow ==
  ASSUME NEW r \in [Fields -> Nat], NEW j \in Nat \ {0}, NEW k \in Nat, j <= k
  PROVE  Offset(r, j, FirstBlock(r)) <= Offset(r, k, FirstBlock(r))
<1> DEFINE fb == FirstBlock(r)
<1>1. r.size \in Nat /\ r.first \in Nat
  BY DEF Fields
<1>2. fb \in {0, 1} /\ j - fb \in Nat /\ k - fb \in Nat /\ j - fb <= k - fb
  BY DEF FirstBlock
<1>3. /\ Offset(r, j, fb) = (j - fb) * r.size + r.first
      /\ Offset(r, k, fb) = (k - fb) * r.size + r.first
  BY DEF Offset
<1> HIDE DEF fb
<1>4. ASSUME NEW x \in Nat, NEW y \in Nat, NEW z \in Nat, x <= y
      PROVE  x * z <= y * z
  <2>1. y * z = x * z + (y - x) * z /\ (y - x) * z \in Nat /\ x * z \in Nat
    BY <1>4
  <2> QED
    BY <2>1
<1>5. (j - fb) * r.size <= (k - fb) * r.size
  BY <1>1, <1>2, <1>4
<1>6. (j - fb) * r.size \in Nat /\ (k - fb) * r.size \in Nat
  BY <1>1, <1>2
<1> QED
  BY <1>1, <1>3, <1>5, <1>6 DEF fb

(* Contiguous blocks do not overlap, and each subcarrier is in one.        *)
LEMMA BlocksPartition ==
  ASSUME NEW r \in [Fields -> Nat], Contiguous(r)
  PROVE  /\ \A k \in 0..(r.number - 1) :
              Block(r, k, FirstBlock(r)) \subseteq 0..(d_subcarriers - 1)
         /\ \A j, k \in 0..(r.number - 1) :
              j < k => Block(r, j, FirstBlock(r)) \cap Block(r, k, FirstBlock(r)) = {}
         /\ \A s \in 0..(d_subcarriers - 1) :
              \E k \in 0..(r.number - 1) : s \in Block(r, k, FirstBlock(r))
<1> DEFINE off(k) == Offset(r, k, FirstBlock(r))
           to(k)  == off(k) + Width(r, k)
           last   == r.number - 1
<1>1. /\ r.number \in Nat \ {0} /\ last \in Nat
      /\ r.size \in Nat /\ r.first \in Nat
  BY DEF Contiguous, Fields
<1>2. \A k \in Nat : off(k) \in Nat /\ to(k) \in Nat /\ off(k) <= to(k)
  <2> SUFFICES ASSUME NEW k \in Nat
               PROVE  off(k) \in Nat /\ to(k) \in Nat /\ off(k) <= to(k)
    OBVIOUS
  <2>1. off(k) \in Nat /\ Width(r, k) \in Nat
    BY BlockRange
  <2> HIDE DEF off
  <2> QED
    BY <2>1
<1>2a. \A k \in Nat : Block(r, k, FirstBlock(r)) = off(k)..(to(k) - 1)
  BY BlockRange
<1>3. /\ off(0) = 0
      /\ \A k \in 0..(last - 1) : to(k) = off(k + 1)
      /\ to(last) = d_subcarriers
  BY <1>1 DEF Contiguous, Start
<1>4. ASSUME NEW j \in Nat, NEW k \in Nat, 1 <= j, j <= k
      PROVE  off(j) <= off(k)
  BY <1>4, OffsetsGrow
<1>5. /\ FirstBlock(r) \in {0, 1}
      /\ \A k \in Nat \ {0} : off(k) = (k - FirstBlock(r)) * r.size + r.first
  BY DEF FirstBlock, Offset
<1> HIDE DEF off, to
<1>6. \A k \in 0..last : to(k) <= d_subcarriers
  <2>1. ASSUME NEW k \in 0..(last - 1) PROVE to(k) <= d_subcarriers
    <3>1. off(k + 1) <= off(last)
      BY <1>1, <1>4
    <3> QED
      BY <1>1, <1>2, <1>3, <3>1
  <2> QED
    BY <1>1, <1>2, <1>3, <2>1
<1>7. ASSUME NEW j \in 0..last, NEW k \in 0..last, j < k
      PROVE  to(j) <= off(k)
  <2>1. to(j) = off(j + 1)
    BY <1>1, <1>3, <1>7
  <2>2. off(j + 1) <= off(k)
    BY <1>1, <1>4, <1>7
  <2> QED
    BY <2>1, <2>2
<1>8. ASSUME NEW s \in 0..(d_subcarriers - 1)
      PROVE  \E k \in 0..last : off(k) <= s /\ s < to(k)
  <2>1. CASE s < to(0)
    BY <1>1, <1>3, <2>1
  <2>2. CASE s >= off(last)
    BY <1>1, <1>3, <2>2
  <2>3. CASE s >= to(0) /\ s < off(last)
    <3>1. last >= 1 /\ to(0) = off(1)
      BY <1>1, <1>3, <2>3
    <3>2. r.size > 0
      <4>1. ASSUME r.size = 0 PROVE off(1) = off(last)
        BY <1>1, <1>5, <3>1, <4>1
      <4> QED
        BY <1>1, <1>2, <2>3, <3>1, <4>1
    <3> DEFINE t == s - r.first
               q == t \div r.size
               m == t % r.size
               k == q + FirstBlock(r)
    <3>3. t \in Nat /\ (FirstBlock(r) = 0 => t >= r.size)
      <4>1. off(1) = (1 - FirstBlock(r)) * r.size + r.first
        BY <1>5
      <4>2. CASE FirstBlock(r) = 0
        BY <1>1, <2>3, <3>1, <4>1, <4>2
      <4>3. CASE FirstBlock(r) = 1
        BY <1>1, <2>3, <3>1, <4>1, <4>3
      <4> QED
        BY <1>5, <4>2, <4>3
    <3> HIDE DEF t
    <3>4. t = r.size * q + m /\ m \in 0..(r.size - 1) /\ q \in Nat
      <4>1. t \in Nat /\ r.size \in Nat \ {0}
        BY <1>1, <3>2, <3>3
      <4> QED
        BY <4>1, DivMod
    <3> HIDE DEF q, m
    <3>5. k \in Nat /\ k >= 1
      <4>1. ASSUME FirstBlock(r) = 0, q = 0 PROVE FALSE
        BY <1>1, <3>3, <3>4, <4>1
      <4> QED
        BY <1>5, <3>4, <4>1
    <3>6. k - FirstBlock(r) = q /\ (k + 1) - FirstBlock(r) = q + 1
      BY <1>5, <3>4
    <3>7. off(k) = q * r.size + r.first /\ off(k + 1) = (q + 1) * r.size + r.first
      <4>1. k \in Nat \ {0} /\ k + 1 \in Nat \ {0}
        BY <3>5
      <4> HIDE DEF k
      <4> QED
        BY <1>5, <3>6, <4>1
    <3> HIDE DEF k
    <3>8. off(k) <= s /\ s < off(k + 1)
      BY <1>1, <3>4, <3>7 DEF t
    <3>9. k < last
      <4>1. ASSUME k >= last PROVE FALSE
        <5>1. off(last) <= off(k)
          BY <1>1, <1>4, <3>1, <3>5, <4>1
        <5> QED
          BY <1>1, <1>2, <2>3, <3>5, <3>8, <5>1
      <4> QED
        BY <1>1, <3>5, <4>1
    <3>10. to(k) = off(k + 1)
      BY <1>1, <1>3, <3>5, <3>9
    <3> QED
      BY <1>1, <3>5, <3>8, <3>9, <3>10
  <2> QED
    BY <1>1, <1>2, <2>1, <2>2, <2>3
<1>9. ASSUME NEW k \in 0..last
      PROVE  Block(r, k, FirstBlock(r)) \subseteq 0..(d_subcarriers - 1)
  <2>1. k \in Nat /\ to(k) <= d_subcarriers /\ off(k) \in Nat /\ to(k) \in Nat
    BY <1>1, <1>2, <1>6
  <2>2. Block(r, k, FirstBlock(r)) = off(k)..(to(k) - 1)
    BY <1>2a, <2>1
  <2> QED
    BY <2>1, <2>2
<1>10. ASSUME NEW j \in 0..last, NEW k \in 0..last, j < k
       PROVE  Block(r, j, FirstBlock(r)) \cap Block(r, k, FirstBlock(r)) = {}
  <2>1. /\ Block(r, j, FirstBlock(r)) = off(j)..(to(j) - 1) /\ to(j) \in Nat
        /\ Block(r, k, FirstBlock(r)) = off(k)..(to(k) - 1) /\ off(k) \in Nat
    <3>1. j \in Nat /\ k \in Nat
      BY <1>1
    <3> QED
      BY <1>2, <1>2a, <3>1
  <2> QED
    BY <1>7, <1>10, <2>1
<1>11. ASSUME NEW s \in 0..(d_subcarriers - 1)
       PROVE  \E k \in 0..last : s \in Block(r, k, FirstBlock(r))
  <2>1. PICK k \in 0..last : off(k) <= s /\ s < to(k)
    BY <1>8
  <2>2. k \in Nat /\ off(k) \in Nat /\ to(k) \in Nat
    BY <1>1, <1>2
  <2>3. s \in Block(r, k, FirstBlock(r))
    BY <1>2a, <2>1, <2>2
  <2> QED
    BY <2>3
<1> QED
  BY <1>9, <1>10, <1>11

-----------------------------------------------------------------------------
(* The steps.                                                              *)

LEMMA BlockValue ==
  ASSUME NEW r \in [Fields -> Nat], NEW k \in Nat
  PROVE  Block(r, k, FirstBlock(r)) \in Values
  BY SMTT(30), BlockRange DEF Values

(* Any step of combine_snr, also with a stale firstBlock, builds a set.    *)
LEMMA BlockType ==
  ASSUME NEW r \in [Fields -> Nat], NEW k \in Nat, NEW fb \in {0, 1}
  PROVE  Block(r, k, fb) \in Values
<1>1. r.size \in Nat /\ r.number \in Nat /\ r.first \in Nat /\ r.last \in Nat
  BY DEF Fields
<1>2. Offset(r, k, fb) \in Int
  BY <1>1 DEF Offset
<1> QED
  BY <1>1, <1>2 DEF Block, Values

LEMMA AtType ==
  ASSUME NEW seq \in Seq(Values), NEW k \in Nat
  PROVE  At(seq, k) \in Values
  BY DEF At, Garbage, Values

LEMMA Copies ==
  ASSUME NEW n \in Nat, NEW v \in Values
  PROVE  /\ [k \in 1..n |-> v] \in Seq(Values)
         /\ Len([k \in 1..n |-> v]) = n
         /\ \A k \in 1..n : [j \in 1..n |-> v][k] = v
  OBVIOUS

LEMMA BlocksInit == InitBlocks => BlocksInv
<1> SUFFICES ASSUME InitBlocks PROVE BlocksInv
  OBVIOUS
<1>1. BySize(1) \in [Fields -> Nat]
  BY GroupingContiguous
<1>2. allocation \in Seq(Values) /\ Len(allocation) = d_subcarriers
      /\ \A s \in 1..d_subcarriers : allocation[s] = DefaultValue
  BY DEF InitBlocks, Values, DefaultValue
<1>3. BlocksTypeOK
  <2>1. /\ blocks \in [Fields -> Nat] /\ target \in Groupings \cup {BySize(1)}
        /\ unwritten \subseteq Fields /\ resizes \in Nat
    BY <1>1 DEF InitBlocks
  <2>2. /\ pc \in {"idle", "combine", "load", "duplicate"} /\ i \in Nat
        /\ firstBlock \in {0, 1} /\ disturbed \in BOOLEAN /\ torn \in BOOLEAN
    BY DEF InitBlocks
  <2>3. /\ snr \in Seq(Values) /\ loaded \in Seq(Values)
        /\ allocation_out \in Seq(Values)
    BY <1>2 DEF InitBlocks
  <2> QED
    BY <1>2, <2>1, <2>2, <2>3 DEF BlocksTypeOK
<1>4. OwnBlock
  BY <1>2 DEF InitBlocks, OwnBlock
<1> QED
  BY <1>3, <1>4 DEF InitBlocks, BlocksInv

LEMMA RpcStep ==
  ASSUME BlocksInv, Rpc
  PROVE  BlocksInv'
<1>0. UNCHANGED <<pc, i, firstBlock, snr, loaded, allocation, allocation_out,
                  torn>>
  BY DEF Rpc, SetResourceBlocks, StoreField, StoreWholeBlocks, outVars
<1>1. OwnBlock' /\ (pc' = "combine" => loaded' = << >>)
  BY <1>0 DEF BlocksInv, OwnBlock
<1>2. ASSUME NEW r \in Groupings, SetResourceBlocks(r) PROVE BlocksInv'
  <2>1. BlocksTypeOK'
    BY <1>0, <1>2 DEF BlocksInv, BlocksTypeOK, SetResourceBlocks
  <2>2. UNCHANGED <<blocks, disturbed>> /\ unwritten' = Fields
    BY <1>2 DEF SetResourceBlocks
  <2>3. (Running /\ Combining /\ Loading /\ Duplicating)' =
           (Running /\ Combining /\ Loading /\ Duplicating)
    BY <1>0, <2>2 DEF Running, Combining, Loading, Duplicating
  <2> QED
    BY <1>0, <1>1, <2>1, <2>2, <2>3 DEF BlocksInv
<1>3. ASSUME NEW f \in Fields, StoreField(f) PROVE BlocksInv'
  <2>1. target \in [Fields -> Nat]
    BY GroupingContiguous DEF BlocksInv, BlocksTypeOK
  <2>2. /\ blocks' \in [Fields -> Nat] /\ blocks'[f] = target[f]
        /\ \A g \in Fields \ {f} : blocks'[g] = blocks[g]
    BY <1>3, <2>1 DEF BlocksInv, BlocksTypeOK, StoreField
  <2>3. /\ UNCHANGED <<target, resizes>> /\ unwritten' = unwritten \ {f}
        /\ disturbed' = (disturbed \/ pc # "idle")
    BY <1>3 DEF StoreField
  <2>4. BlocksTypeOK'
    BY <1>0, <2>2, <2>3 DEF BlocksInv, BlocksTypeOK
  <2>5. pc' = "idle" \/ disturbed'
    BY <1>0, <2>3
  <2>6. \A g \in Fields \ unwritten' : blocks'[g] = target'[g]
    BY <2>2, <2>3 DEF BlocksInv
  <2> QED
    BY <1>1, <2>4, <2>5, <2>6 DEF BlocksInv
<1>4. CASE StoreWholeBlocks
  <2>1. PICK b \in BlockSizes : target = BySize(b)
    BY <1>4 DEF StoreWholeBlocks
  <2>2. d_subcarriers \div target.size \in Nat
    <3>1. target.size = b /\ b \in Nat \ {0}
      BY <2>1 DEF BySize
    <3> QED
      BY <3>1, DivMod
  <2>3. /\ blocks' \in [Fields -> Nat]
        /\ \A g \in Fields \ {"number"} : blocks'[g] = blocks[g]
    BY <1>4, <2>2 DEF BlocksInv, BlocksTypeOK, StoreWholeBlocks, Fields
  <2>4. /\ UNCHANGED <<target, unwritten, resizes>> /\ "number" \in unwritten
        /\ disturbed' = (disturbed \/ pc # "idle")
    BY <1>4 DEF StoreWholeBlocks
  <2>5. BlocksTypeOK'
    BY <1>0, <2>3, <2>4 DEF BlocksInv, BlocksTypeOK
  <2>6. pc' = "idle" \/ disturbed'
    BY <1>0, <2>4
  <2>7. \A g \in Fields \ unwritten' : blocks'[g] = target'[g]
    BY <2>3, <2>4 DEF BlocksInv
  <2> QED
    BY <1>1, <2>5, <2>6, <2>7 DEF BlocksInv
<1> QED
  BY <1>2, <1>3, <1>4 DEF Rpc

(* With every field written, the blocks are the grouping asked for.        *)
LEMMA WrittenContiguous ==
  ASSUME BlocksInv, unwritten = {}
  PROVE  Contiguous(blocks)
<1>1. blocks \in [Fields -> Nat] /\ target \in [Fields -> Nat]
      /\ Contiguous(target)
  BY GroupingContiguous DEF BlocksInv, BlocksTypeOK
<1>2. \A f \in Fields : blocks[f] = target[f]
  BY DEF BlocksInv
<1>3. blocks = target
  BY <1>1, <1>2
<1> QED
  BY <1>1, <1>3

LEMMA CombineStep ==
  ASSUME BlocksInv, CombineStart \/ CombineBlock \/ CombineDone
  PROVE  BlocksInv'
<1>0. /\ UNCHANGED <<blocks, target, unwritten, resizes, allocation,
                     allocation_out, torn>>
  BY DEF CombineStart, CombineBlock, CombineDone, rpcVars, outVars
<1>1. OwnBlock' /\ \A f \in Fields \ unwritten' : blocks'[f] = target'[f]
  BY <1>0 DEF BlocksInv, OwnBlock
<1>2. CASE CombineStart
  <2>1. /\ pc' = "combine" /\ i' = 0 /\ firstBlock' = FirstBlock(blocks)
        /\ snr' = << >> /\ loaded' = << >> /\ disturbed' = (unwritten # {})
    BY <1>2 DEF CombineStart
  <2>2. BlocksTypeOK'
    BY <1>0, <2>1 DEF BlocksInv, BlocksTypeOK, FirstBlock
  <2>3. ASSUME unwritten = {} PROVE Running'
    <3>1. Contiguous(blocks)
      BY <2>3, WrittenContiguous
    <3>2. blocks.number > 0
      BY <3>1 DEF Contiguous
    <3> QED
      BY <1>0, <2>1, <3>1, <3>2 DEF Running, BlocksInv, BlocksTypeOK, Fields
  <2>4. Combining' /\ Loading' /\ Duplicating'
    BY <2>1 DEF Combining, Loading, Duplicating
  <2> QED
    BY <1>1, <2>1, <2>2, <2>3, <2>4 DEF BlocksInv
<1>3. CASE CombineBlock
  <2> DEFINE e == Block(blocks, i, firstBlock)
  <2>1. /\ pc = "combine" /\ i < blocks.number
        /\ snr' = Append(snr, e) /\ i' = i + 1
        /\ UNCHANGED <<pc, firstBlock, loaded, disturbed>>
    BY <1>3 DEF CombineBlock
  <2>2. i \in Nat /\ blocks.number \in Nat /\ snr \in Seq(Values)
        /\ e \in Values
    BY BlockType DEF BlocksInv, BlocksTypeOK, Fields
  <2> HIDE DEF e
  <2>3. /\ snr' \in Seq(Values) /\ Len(snr') = Len(snr) + 1
        /\ \A k \in 1..Len(snr) : snr'[k] = snr[k]
        /\ snr'[Len(snr) + 1] = e
    BY <2>1, <2>2, AppendProperties
  <2>4. BlocksTypeOK'
    BY <1>0, <2>1, <2>2, <2>3 DEF BlocksInv, BlocksTypeOK
  <2>5. ASSUME ~disturbed PROVE (Running /\ Combining /\ Loading /\ Duplicating)'
    <3>1. Running /\ Combining
      BY <2>1, <2>5 DEF BlocksInv
    <3>2. Running'
      BY <1>0, <2>1, <2>2, <3>1 DEF Running
    <3>3. Len(snr) = i /\ \A k \in 1..i : Own(snr[k], blocks, k)
      BY <2>1, <3>1 DEF Combining
    <3>4. Own(e, blocks, i + 1)
      BY <2>2, <3>1 DEF e, Own, Running
    <3>5. \A k \in 1..(i + 1) : Own(snr'[k], blocks, k)
      BY <2>2, <2>3, <3>3, <3>4
    <3>6. Combining'
      BY <1>0, <2>1, <2>2, <2>3, <3>3, <3>5 DEF Combining, Own
    <3>7. Loading' /\ Duplicating'
      BY <2>1 DEF Loading, Duplicating
    <3> QED
      BY <3>2, <3>6, <3>7
  <2>6. loaded' = << >>
    BY <2>1 DEF BlocksInv
  <2> QED
    BY <1>1, <2>1, <2>4, <2>5, <2>6 DEF BlocksInv
<1>4. CASE CombineDone
  <2>1. /\ pc = "combine" /\ i >= blocks.number /\ pc' = "load" /\ i' = 0
        /\ UNCHANGED <<firstBlock, snr, loaded, disturbed>>
    BY <1>4 DEF CombineDone
  <2>2. BlocksTypeOK'
    BY <1>0, <2>1 DEF BlocksInv, BlocksTypeOK
  <2>3. ASSUME ~disturbed PROVE (Running /\ Combining /\ Loading /\ Duplicating)'
    <3>1. Running /\ Combining /\ i \in Nat /\ blocks.number \in Nat
      BY <2>1, <2>3 DEF BlocksInv, BlocksTypeOK, Fields
    <3>2. i = blocks.number
      BY <2>1, <3>1 DEF Running
    <3>3. Running'
      BY <1>0, <2>1, <3>1 DEF Running
    <3>4. loaded = << >>
      BY <2>1 DEF BlocksInv
    <3>5. Loading'
      BY <1>0, <2>1, <3>1, <3>2, <3>4 DEF Combining, Loading, Own
    <3>6. Combining' /\ Duplicating'
      BY <2>1 DEF Combining, Duplicating
    <3> QED
      BY <3>3, <3>5, <3>6
  <2> QED
    BY <1>1, <2>1, <2>2, <2>3 DEF BlocksInv
<1> QED
  BY <1>2, <1>3, <1>4

LEMMA LoadStep ==
  ASSUME BlocksInv,
         LoadBlock \/ LoadReturn \/ (\E default \in BOOLEAN : LoadDone(default))
  PROVE  BlocksInv'
<1>0. /\ UNCHANGED <<blocks, target, unwritten, resizes, firstBlock, snr,
                     allocation_out, torn, disturbed>>
      /\ pc = "load"
  BY DEF LoadBlock, LoadReturn, LoadDone, rpcVars, outVars
<1>1. OwnBlock' /\ \A f \in Fields \ unwritten' : blocks'[f] = target'[f]
  BY <1>0 DEF BlocksInv, OwnBlock
<1>2. /\ i \in Nat /\ blocks.number \in Nat
      /\ snr \in Seq(Values) /\ loaded \in Seq(Values)
      /\ allocation \in Seq(Values)
  BY DEF BlocksInv, BlocksTypeOK, Fields
<1>3. CASE LoadBlock
  <2> DEFINE e == At(snr, i)
  <2>1. /\ i < blocks.number /\ loaded' = Append(loaded, e) /\ i' = i + 1
        /\ UNCHANGED <<pc, allocation>>
    BY <1>3 DEF LoadBlock
  <2>2. e \in Values
    BY <1>2, AtType
  <2> HIDE DEF e
  <2>3. /\ loaded' \in Seq(Values) /\ Len(loaded') = Len(loaded) + 1
        /\ \A k \in 1..Len(loaded) : loaded'[k] = loaded[k]
        /\ loaded'[Len(loaded) + 1] = e
    BY <1>2, <2>1, <2>2, AppendProperties
  <2>4. BlocksTypeOK'
    BY <1>0, <1>2, <2>1, <2>3 DEF BlocksInv, BlocksTypeOK
  <2>5. ASSUME ~disturbed PROVE (Running /\ Combining /\ Loading /\ Duplicating)'
    <3>1. Running /\ Loading
      BY <1>0, <2>5 DEF BlocksInv
    <3>2. Running'
      BY <1>0, <1>2, <2>1, <3>1 DEF Running
    <3>3. /\ Len(snr) = blocks.number /\ Len(loaded) = i
          /\ \A k \in 1..blocks.number : Own(snr[k], blocks, k)
          /\ \A k \in 1..i : Own(loaded[k], blocks, k)
      BY <1>0, <3>1 DEF Loading
    <3>4. Own(e, blocks, i + 1)
      <4>1. e = snr[i + 1] /\ i + 1 \in 1..blocks.number
        BY <1>2, <2>1, <3>3 DEF e, At
      <4> QED
        BY <3>3, <4>1
    <3>5. \A k \in 1..(i + 1) : Own(loaded'[k], blocks, k)
      BY <1>2, <2>3, <3>3, <3>4
    <3>6. Loading'
      BY <1>0, <1>2, <2>1, <2>3, <3>3, <3>5 DEF Loading, Own
    <3>7. Combining' /\ Duplicating'
      BY <1>0, <2>1 DEF Combining, Duplicating
    <3> QED
      BY <3>2, <3>6, <3>7
  <2> QED
    BY <1>0, <1>1, <2>1, <2>4, <2>5 DEF BlocksInv
<1>4. CASE LoadReturn
  <2>1. pc' = "idle" /\ i' = 0 /\ UNCHANGED <<loaded, allocation>>
    BY <1>4 DEF LoadReturn
  <2>2. BlocksTypeOK'
    BY <1>0, <2>1 DEF BlocksInv, BlocksTypeOK
  <2> QED
    BY <1>1, <2>1, <2>2 DEF BlocksInv
<1>5. ASSUME NEW default \in BOOLEAN, LoadDone(default) PROVE BlocksInv'
  <2>1. /\ i >= blocks.number /\ allocation' = << >> /\ pc' = "duplicate"
        /\ i' = 0
        /\ loaded' = IF default THEN [k \in 1..blocks.number |-> DefaultValue] ELSE loaded
    BY <1>5 DEF LoadDone
  <2>2. /\ loaded' \in Seq(Values)
        /\ default => /\ Len(loaded') = blocks.number
                      /\ \A k \in 1..blocks.number : loaded'[k] = DefaultValue
        /\ ~default => loaded' = loaded
    <3>1. CASE default
      <4>1. loaded' = [k \in 1..blocks.number |-> DefaultValue] /\ DefaultValue \in Values
        BY <2>1, <3>1 DEF DefaultValue, Values
      <4> DEFINE ones == [k \in 1..blocks.number |-> DefaultValue]
      <4>2. /\ ones \in Seq(Values) /\ Len(ones) = blocks.number
            /\ \A k \in 1..blocks.number : ones[k] = DefaultValue
        <5>1. blocks.number \in Nat /\ DefaultValue \in Values
          BY <1>2, <4>1
        <5> QED
          BY <5>1, Copies, ZenonT(60)
      <4>3. loaded' = ones
        BY <4>1
      <4> HIDE DEF ones
      <4> QED
        BY <3>1, <4>2, <4>3
    <3>2. CASE ~default
      BY <1>2, <2>1, <3>2
    <3> QED
      BY <3>1, <3>2
  <2>3. BlocksTypeOK'
    BY <1>0, <2>1, <2>2 DEF BlocksInv, BlocksTypeOK
  <2>4. ASSUME ~disturbed PROVE (Running /\ Combining /\ Loading /\ Duplicating)'
    <3>1. Running /\ Loading
      BY <1>0, <2>4 DEF BlocksInv
    <3>2. Running' /\ Start(blocks, 0) = 0 /\ i = blocks.number
      BY <1>0, <1>2, <2>1, <3>1 DEF Running, Contiguous
    <3>3. /\ Len(loaded') = blocks.number
          /\ \A k \in 1..blocks.number :
               loaded'[k] = DefaultValue \/ Own(loaded'[k], blocks, k)
      BY <1>0, <2>2, <3>1, <3>2 DEF Loading
    <3>4. Duplicating'
      <4>1. Len(allocation') = 0 /\ Start(blocks', i') = 0
        BY <1>0, <2>1, <3>2
      <4>2. /\ Len(loaded') = blocks'.number
            /\ \A k \in 1..blocks'.number :
                 loaded'[k] = DefaultValue \/ Own(loaded'[k], blocks', k)
        BY <1>0, <3>3
      <4>3. \A s \in 1..Len(allocation') : Mine(allocation'[s], s)
        BY <4>1
      <4> QED
        BY <4>1, <4>2, <4>3 DEF Duplicating, Own
    <3>5. Combining' /\ Loading'
      BY <2>1 DEF Combining, Loading
    <3> QED
      BY <3>2, <3>4, <3>5
  <2> QED
    BY <1>0, <1>1, <2>1, <2>3, <2>4 DEF BlocksInv
<1> QED
  BY <1>3, <1>4, <1>5

LEMMA DuplicateStep ==
  ASSUME BlocksInv, DuplicateBlock \/ DuplicateDone
  PROVE  BlocksInv'
<1>0. /\ UNCHANGED <<blocks, target, unwritten, resizes, firstBlock, snr, loaded,
                     disturbed>>
      /\ pc = "duplicate"
  BY DEF DuplicateBlock, DuplicateDone, rpcVars, outVars
<1>1. \A f \in Fields \ unwritten' : blocks'[f] = target'[f]
  BY <1>0 DEF BlocksInv
<1>2. /\ i \in Nat /\ blocks \in [Fields -> Nat] /\ blocks.number \in Nat
      /\ loaded \in Seq(Values) /\ allocation \in Seq(Values)
      /\ Len(allocation) \in Nat
  BY DEF BlocksInv, BlocksTypeOK, Fields
<1>3. CASE DuplicateBlock
  <2> DEFINE e == At(loaded, i)
             w == Width(blocks, i)
             part == [k \in 1..w |-> e]
  <2>1. /\ i < blocks.number /\ allocation' = allocation \o part
        /\ i' = i + 1 /\ UNCHANGED <<pc, allocation_out, torn>>
    BY <1>3 DEF DuplicateBlock, outVars
  <2>2. e \in Values /\ w \in Nat
    BY <1>2, AtType, BlockRange
  <2> HIDE DEF e, w
  <2>3. part \in Seq(Values) /\ Len(part) = w /\ \A k \in 1..w : part[k] = e
    BY <2>2
  <2> HIDE DEF part
  <2>4. /\ allocation' \in Seq(Values)
        /\ Len(allocation') = Len(allocation) + w
        /\ \A s \in 1..Len(allocation) : allocation'[s] = allocation[s]
        /\ \A s \in (Len(allocation) + 1)..(Len(allocation) + w) :
             allocation'[s] = e
    <3>1. /\ allocation' \in Seq(Values)
          /\ Len(allocation') = Len(allocation) + w
          /\ \A s \in 1..(Len(allocation) + w) :
               allocation'[s] = IF s <= Len(allocation) THEN allocation[s]
                                  ELSE part[s - Len(allocation)]
      BY <1>2, <2>1, <2>3, ConcatProperties
    <3>2. \A s \in 1..Len(allocation) : s \in 1..(Len(allocation) + w)
      BY <1>2, <2>2
    <3>3. \A s \in (Len(allocation) + 1)..(Len(allocation) + w) :
            /\ s \in 1..(Len(allocation) + w) /\ ~(s <= Len(allocation))
            /\ s - Len(allocation) \in 1..w
      BY <1>2, <2>2
    <3> QED
      BY <1>2, <2>3, <3>1, <3>2, <3>3
  <2>5. BlocksTypeOK'
    BY <1>0, <1>2, <2>1, <2>4 DEF BlocksInv, BlocksTypeOK
  <2>6. ASSUME ~disturbed PROVE (Running /\ Combining /\ Loading /\ Duplicating)'
    <3>1. Running /\ Duplicating
      BY <1>0, <2>6 DEF BlocksInv
    <3>2. Running'
      BY <1>0, <1>2, <2>1, <3>1 DEF Running
    <3>3. /\ Len(loaded) = blocks.number
          /\ \A k \in 1..blocks.number :
               loaded[k] = DefaultValue \/ Own(loaded[k], blocks, k)
          /\ Len(allocation) = Start(blocks, i)
          /\ \A s \in 1..Len(allocation) : Mine(allocation[s], s)
      BY <1>0, <3>1 DEF Duplicating
    <3> DEFINE o == Offset(blocks, i, FirstBlock(blocks))
    <3>4. Len(allocation) = o /\ o + w = Start(blocks, i + 1) /\ o \in Nat
      <4>1. Start(blocks, i) = o
        BY <1>2, <2>1 DEF Start
      <4>2. i \in 0..(blocks.number - 1)
        BY <1>2, <2>1
      <4>3. o + w = Start(blocks, i + 1)
        BY <3>1, <4>2 DEF Running, Contiguous, w
      <4> QED
        BY <1>2, <3>3, <4>1, <4>3
    <3>5. e = DefaultValue \/ e = o..(o + w - 1)
      <4>1. e = loaded[i + 1] /\ i + 1 \in 1..blocks.number
        BY <1>2, <2>1, <3>3 DEF e, At
      <4>2. Block(blocks, i, FirstBlock(blocks)) = o..(o + w - 1)
        BY <1>2, BlockRange DEF w
      <4>3. e = DefaultValue \/ e = Block(blocks, (i + 1) - 1, FirstBlock(blocks))
        BY <3>3, <4>1 DEF Own
      <4>4. (i + 1) - 1 = i
        BY <1>2
      <4> QED
        BY <4>2, <4>3, <4>4
    <3> HIDE DEF o
    <3>6. \A s \in 1..Len(allocation') : Mine(allocation'[s], s)
      <4> SUFFICES ASSUME NEW s \in 1..Len(allocation')
                   PROVE  Mine(allocation'[s], s)
        OBVIOUS
      <4>1. CASE s <= Len(allocation)
        BY <2>4, <3>3, <4>1, <1>2
      <4>2. CASE s > Len(allocation)
        <5>1. s \in (Len(allocation) + 1)..(Len(allocation) + w)
          BY <1>2, <2>2, <2>4, <4>2
        <5>2. allocation'[s] = e
          BY <2>4, <5>1
        <5>3. s - 1 \in o..(o + w - 1)
          BY <2>2, <3>4, <5>1
        <5> QED
          BY <3>5, <5>2, <5>3 DEF Mine
      <4> QED
        BY <1>2, <2>2, <2>4, <4>1, <4>2
    <3>7. Duplicating'
      <4>1. Len(allocation') = Start(blocks, i + 1)
        BY <2>4, <3>4
      <4> QED
        BY <1>0, <2>1, <3>3, <3>6, <4>1 DEF Duplicating, Own, Start
    <3>8. Combining' /\ Loading'
      BY <1>0, <2>1 DEF Combining, Loading
    <3> QED
      BY <3>2, <3>7, <3>8
  <2>7. OwnBlock'
    BY <2>1 DEF BlocksInv, OwnBlock
  <2> QED
    BY <1>0, <1>1, <2>1, <2>5, <2>6, <2>7 DEF BlocksInv
<1>4. CASE DuplicateDone
  <2>1. /\ i >= blocks.number /\ allocation_out' = allocation
        /\ torn' = disturbed /\ pc' = "idle" /\ i' = 0
        /\ UNCHANGED allocation
    BY <1>4 DEF DuplicateDone
  <2>2. BlocksTypeOK'
    BY <1>0, <1>2, <2>1 DEF BlocksInv, BlocksTypeOK
  <2>3. OwnBlock'
    <3> SUFFICES ASSUME ~disturbed
                 PROVE  /\ Len(allocation) = d_subcarriers
                        /\ \A s \in 1..d_subcarriers : Mine(allocation[s], s)
      BY <2>1 DEF OwnBlock, Mine
    <3>1. Running /\ Duplicating
      BY <1>0 DEF BlocksInv
    <3>2. i = blocks.number
      BY <1>2, <2>1, <3>1 DEF Running
    <3> QED
      BY <1>0, <3>1, <3>2 DEF Duplicating, Start
  <2> QED
    BY <1>1, <2>1, <2>2, <2>3 DEF BlocksInv
<1> QED
  BY <1>3, <1>4

LEMMA BlocksStep == BlocksInv /\ [NextBlocks]_blocksVars => BlocksInv'
<1> SUFFICES ASSUME BlocksInv, [NextBlocks]_blocksVars PROVE BlocksInv'
  OBVIOUS
<1>1. CASE UNCHANGED blocksVars
  <2>1. UNCHANGED <<blocks, target, unwritten, resizes, pc, i, firstBlock, snr,
                    loaded, allocation, allocation_out, disturbed, torn>>
    BY <1>1 DEF blocksVars, rpcVars, outVars
  <2>2. BlocksTypeOK' /\ OwnBlock'
    BY <2>1 DEF BlocksInv, BlocksTypeOK, OwnBlock
  <2>3. (Running /\ Combining /\ Loading /\ Duplicating)' =
           (Running /\ Combining /\ Loading /\ Duplicating)
    BY <2>1 DEF Running, Combining, Loading, Duplicating
  <2> QED
    BY <2>1, <2>2, <2>3 DEF BlocksInv
<1>2. CASE NextBlocks
  BY <1>2, RpcStep, CombineStep, LoadStep, DuplicateStep DEF NextBlocks, ProcessSnr
<1> QED
  BY <1>1, <1>2

(* Every report that is processed without a resize in between leaves each  *)
(* subcarrier with one entry, computed from the block its own SNR is in,   *)
(* for every number of subcarriers and every block size and number.        *)
THEOREM Grouped == BlocksSpec => []OwnBlock
<1>1. BlocksInv => OwnBlock
  BY DEF BlocksInv
<1> QED
  BY <1>1, BlocksInit, BlocksStep, PTL DEF BlocksSpec

(* Every variable keeps its type, whenever the RPC thread stores.          *)
THEOREM BlockTypes == BlocksSpec => []BlocksTypeOK
<1>1. BlocksInv => BlocksTypeOK
  BY DEF BlocksInv
<1> QED
  BY <1>1, BlocksInit, BlocksStep, PTL DEF BlocksSpec

(* After an undisturbed combine_snr, the SNR of each subcarrier is in      *)
(* exactly one block's average and nothing else is, for every number of    *)
(* subcarriers and every block size and number.                            *)
THEOREM UsedOnce == BlocksSpec => []SnrUsedOnce
<1>1. BlocksInv => SnrUsedOnce
  <2> SUFFICES ASSUME BlocksInv, pc = "load", ~disturbed
               PROVE  /\ UNION {snr[k] : k \in 1..Len(snr)} = 0..(d_subcarriers - 1)
                      /\ \A j, k \in 1..Len(snr) : j # k => snr[j] \cap snr[k] = {}
    BY DEF SnrUsedOnce
  <2>1. /\ blocks \in [Fields -> Nat] /\ Contiguous(blocks)
        /\ Len(snr) = blocks.number
        /\ \A k \in 1..blocks.number : snr[k] = Block(blocks, k - 1, FirstBlock(blocks))
    BY DEF BlocksInv, BlocksTypeOK, Running, Loading, Own
  <2>2. blocks.number \in Nat
    BY <2>1 DEF Fields
  <2> DEFINE B(k) == Block(blocks, k, FirstBlock(blocks))
             N    == blocks.number
  <2>3. /\ \A k \in 0..(N - 1) : B(k) \subseteq 0..(d_subcarriers - 1)
        /\ \A j, k \in 0..(N - 1) : j < k => B(j) \cap B(k) = {}
        /\ \A s \in 0..(d_subcarriers - 1) : \E k \in 0..(N - 1) : s \in B(k)
    BY <2>1, BlocksPartition
  <2>4. \A k \in 1..N : snr[k] = B(k - 1) /\ k - 1 \in 0..(N - 1)
    BY <2>1, <2>2
  <2>5. \A k \in 0..(N - 1) : B(k) = snr[k + 1] /\ k + 1 \in 1..N
    BY <2>2, <2>4
  <2> HIDE DEF B
  <2>6. UNION {snr[k] : k \in 1..N} \subseteq 0..(d_subcarriers - 1)
    BY <2>3, <2>4
  <2>7. 0..(d_subcarriers - 1) \subseteq UNION {snr[k] : k \in 1..N}
    BY <2>3, <2>5
  <2>8. ASSUME NEW j \in 1..N, NEW k \in 1..N, j # k
        PROVE  snr[j] \cap snr[k] = {}
    <3>1. CASE j < k
      <4>1. j - 1 < k - 1
        BY <2>2, <3>1
      <4> QED
        BY <2>3, <2>4, <4>1
    <3>2. CASE k < j
      <4>1. k - 1 < j - 1
        BY <2>2, <3>2
      <4> QED
        BY <2>3, <2>4, <4>1
    <3> QED
      BY <2>2, <2>8, <3>1, <3>2
  <2> QED
    BY <2>1, <2>6, <2>7, <2>8
<1> QED
  BY <1>1, BlocksInit, BlocksStep, PTL DEF BlocksSpec
=============================================================================
