------------------------------ MODULE EthFrames ------------------------------
(***************************************************************************)
(* Frames between lwIP and the Ethernet DMA: low_level_output and          *)
(* low_level_input of ethernetif.c, the descriptors they share with the    *)
(* DMA, and the loop of ETH_IRQHandler (stm32f10x_it.c).                   *)
(*                                                                         *)
(* Level 0 is the main loop, whose timers send frames; level 1 is the      *)
(* interrupt, which handles the frames received and answers them, also in  *)
(* the middle of a frame that the main loop sends.  low_level_output       *)
(* copies the frame before ETH_TxPkt_ChainMode asks who owns the           *)
(* descriptor, and each of its steps takes DMATxDescToSet as it finds it.  *)
(***************************************************************************)
EXTENDS Integers, Sequences

CONSTANTS
  Frames,         \* what a frame to send may be
  ETH_RXBUFNB     \* descriptors for reception

ASSUME FramesAssumption == 0 \notin Frames /\ ETH_RXBUFNB \in Nat \ {0}

VARIABLES
  DMATxDescToSet,  \* the descriptor for the next frame
  tx_dma,          \* the descriptor that the DMA comes to next
  tx_own,          \* those that the DMA owns
  tx_front,        \* the frame in the first half of their buffers
  tx_rest,         \* the frame in the second half
  tx_len,          \* the frame whose length they give
  out_pc,          \* per level: the next step of low_level_output
  out_frame,       \* per level: the frame it sends
  out_at,          \* per level: the buffer or descriptor it has read
  rx,              \* the descriptors with received frames, oldest first
  rx_pending,      \* the receive interrupt is requested
  rx_pc,           \* the handler: "idle", "check", "input", "clear"
  queue,           \* history: frames handed to the DMA and not yet sent
  spoilt,          \* history: descriptors whose buffer was written while the DMA owned
                   \* them, or that were handed over by an output the interrupt came into
  inside,          \* history: the interrupt has sent a frame inside the main loop's
  crossed,         \* history: it has done so since the descriptors were linked
  late             \* history: frames since the handler's last look, until it ends

tx_vars == <<DMATxDescToSet, tx_dma, tx_own, tx_front, tx_rest, tx_len, out_pc, out_frame, out_at,
             queue, spoilt, inside, crossed>>
rx_vars == <<rx, rx_pending, rx_pc, late>>
frame_vars == <<tx_vars, rx_vars>>

-----------------------------------------------------------------------------
ETH_TXBUFNB == 2
TxDescriptors == 0 .. ETH_TXBUFNB - 1
NoFrame == 0
Following(d) == (d + 1) % ETH_TXBUFNB

(* Mutants used to show that the properties below can fail: the descriptor *)
(* is given away unasked; the handler takes one frame per interrupt.       *)
NeverOwned(d) == FALSE
EndsAfterOne == rx_pc = "input" /\ rx_pc' = "clear"

(* Level 1 is the handler; it sends from its place "input". *)
MayStep(w) == w = 0 => rx_pc = "idle"
Sending(w) == out_pc[w] # "idle"
AtOut(w, place) == MayStep(w) /\ out_pc[w] = place
GotoOut(w, place) == out_pc' = [out_pc EXCEPT ![w] = place]

FramesInit ==
  /\ DMATxDescToSet = 0 /\ tx_dma = 0 /\ tx_own = {}
  /\ tx_front = [d \in TxDescriptors |-> NoFrame] /\ tx_rest = tx_front /\ tx_len = tx_front
  /\ out_pc = [w \in {0, 1} |-> "idle"]
  /\ out_frame = [w \in {0, 1} |-> NoFrame] /\ out_at = [w \in {0, 1} |-> 0]
  /\ rx = <<>> /\ rx_pending = FALSE /\ rx_pc = "idle"
  /\ queue = <<>> /\ spoilt = {} /\ inside = FALSE /\ crossed = FALSE /\ late = 0

-----------------------------------------------------------------------------
(* low_level_output takes the current buffer. *)
ETH_GetCurrentTxBuffer(w, f) ==
  /\ AtOut(w, "idle") /\ (w = 1 => rx_pc = "input")
  /\ out_at' = [out_at EXCEPT ![w] = DMATxDescToSet]
  /\ out_frame' = [out_frame EXCEPT ![w] = f]
  /\ GotoOut(w, "copy")
  /\ inside' = (inside \/ (w = 1 /\ Sending(0))) /\ crossed' = (crossed \/ inside')
  /\ queue' = IF crossed' THEN <<>> ELSE queue
  /\ UNCHANGED <<DMATxDescToSet, tx_dma, tx_own, tx_front, tx_rest, tx_len, spoilt, rx_vars>>

(* memcpy, in which the interrupt and the DMA may come half-way. *)
Written(w) == spoilt' = IF out_at[w] \in tx_own THEN spoilt \cup {out_at[w]} ELSE spoilt

CopyFront(w) ==
  /\ AtOut(w, "copy") /\ GotoOut(w, "rest")
  /\ tx_front' = [tx_front EXCEPT ![out_at[w]] = out_frame[w]]
  /\ Written(w)
  /\ UNCHANGED <<DMATxDescToSet, tx_dma, tx_own, tx_rest, tx_len, out_frame, out_at, queue,
                 inside, crossed, rx_vars>>

CopyRest(w) ==
  /\ AtOut(w, "rest") /\ GotoOut(w, "check")
  /\ tx_rest' = [tx_rest EXCEPT ![out_at[w]] = out_frame[w]]
  /\ Written(w)
  /\ UNCHANGED <<DMATxDescToSet, tx_dma, tx_own, tx_front, tx_len, out_frame, out_at, queue,
                 inside, crossed, rx_vars>>

(* ETH_TxPkt_ChainMode: the frame is dropped when the DMA still owns the   *)
(* descriptor.                                                             *)
OwnedByDma(d) == d \in tx_own

Forget(w) ==
  /\ GotoOut(w, "idle") /\ inside' = (inside /\ w = 1)
  /\ out_frame' = [out_frame EXCEPT ![w] = NoFrame] /\ out_at' = [out_at EXCEPT ![w] = 0]

CheckOwn(w) ==
  /\ AtOut(w, "check")
  /\ \/ OwnedByDma(DMATxDescToSet) /\ Forget(w)
     \/ /\ ~OwnedByDma(DMATxDescToSet)
        /\ out_at' = [out_at EXCEPT ![w] = DMATxDescToSet]
        /\ GotoOut(w, "give") /\ UNCHANGED <<out_frame, inside>>
  /\ UNCHANGED <<DMATxDescToSet, tx_dma, tx_own, tx_front, tx_rest, tx_len, queue, spoilt,
                 crossed, rx_vars>>

(* DMATxDescToSet is not volatile: where it is read again, the compiler    *)
(* may keep what it has read before.                                       *)
ReadAgain(w) == {out_at[w], DMATxDescToSet}

(* Length and OWN; the DMA is told if it waits. *)
GiveToDma(w) ==
  /\ AtOut(w, "give")
  /\ \E d \in ReadAgain(w) :
       /\ tx_len' = [tx_len EXCEPT ![d] = out_frame[w]]
       /\ tx_own' = tx_own \cup {d}
       /\ spoilt' = IF w = 0 /\ inside THEN spoilt \cup {d} ELSE spoilt \ {d}
       /\ out_at' = [out_at EXCEPT ![w] = d]
  /\ queue' = IF crossed THEN <<>> ELSE Append(queue, out_frame[w])
  /\ GotoOut(w, "advance")
  /\ UNCHANGED <<DMATxDescToSet, tx_dma, tx_front, tx_rest, out_frame, inside, crossed, rx_vars>>

Advance(w) ==
  /\ AtOut(w, "advance")
  /\ \E d \in ReadAgain(w) : DMATxDescToSet' = Following(d)
  /\ Forget(w)
  /\ UNCHANGED <<tx_dma, tx_own, tx_front, tx_rest, tx_len, queue, spoilt, crossed, rx_vars>>

low_level_output(w) ==
  \/ \E f \in Frames : ETH_GetCurrentTxBuffer(w, f)
  \/ CopyFront(w) \/ CopyRest(w) \/ CheckOwn(w) \/ GiveToDma(w) \/ Advance(w)

(* The DMA sends the frame of the next descriptor, if it owns that. *)
Transmit ==
  /\ tx_dma \in tx_own
  /\ tx_own' = tx_own \ {tx_dma} /\ tx_dma' = Following(tx_dma)
  /\ spoilt' = spoilt \ {tx_dma}
  /\ queue' = IF crossed THEN <<>> ELSE Tail(queue)
  /\ UNCHANGED <<DMATxDescToSet, tx_front, tx_rest, tx_len, out_pc, out_frame, out_at, inside,
                 crossed, rx_vars>>

-----------------------------------------------------------------------------
(* The DMA stores a frame: in one descriptor, or in two if it is longer    *)
(* than a buffer, and cut off if there is only one.  Without a descriptor  *)
(* it is lost, and no receive interrupt requested.                         *)
Long == IF Len(rx) + 1 = ETH_RXBUFNB THEN <<"first">> ELSE <<"first", "last">>

DmaStores(parts) ==
  /\ Len(rx) < ETH_RXBUFNB
  /\ rx' = rx \o parts
  /\ rx_pending' = TRUE
  /\ late' = IF rx_pc = "clear" THEN late + Len(parts) ELSE late
  /\ UNCHANGED <<rx_pc, tx_vars>>

HandlerStarts ==
  /\ rx_pending /\ rx_pc = "idle"
  /\ rx_pc' = "check" /\ late' = 0
  /\ UNCHANGED <<rx, rx_pending, tx_vars>>

(* ETH_GetRxPktSize: 0 if there is no frame, or one that is not whole in   *)
(* the first descriptor.                                                   *)
SizeIsNot0 == rx # <<>> /\ Head(rx) = "whole"

(* low_level_input copies the frame and gives the descriptor back.         *)
low_level_input ==
  /\ rx_pc = "check" /\ SizeIsNot0
  /\ rx' = Tail(rx) /\ rx_pc' = "input"
  /\ UNCHANGED <<rx_pending, late, tx_vars>>

(* The next look, when lwIP has handled the frame and sent its answers.    *)
LooksAgain == rx_pc = "input" /\ rx_pc' = "check"

Handled ==
  /\ ~Sending(1) /\ LooksAgain
  /\ UNCHANGED <<rx, rx_pending, late, tx_vars>>

LastLook ==
  /\ rx_pc = "check" /\ ~SizeIsNot0
  /\ rx_pc' = "clear"
  /\ UNCHANGED <<rx, rx_pending, late, tx_vars>>

ETH_DMAClearITPendingBit ==
  /\ rx_pc = "clear"
  /\ rx_pc' = "idle" /\ rx_pending' = FALSE
  /\ UNCHANGED <<rx, late, tx_vars>>

(* The supervision's reset: the main loop links all descriptors anew while *)
(* the DMA is stopped.                                                     *)
low_level_init ==
  /\ rx_pc = "idle" /\ ~Sending(0)
  /\ DMATxDescToSet' = 0 /\ tx_dma' = 0 /\ tx_own' = {}
  /\ rx' = <<>> /\ rx_pending' = FALSE
  /\ queue' = <<>> /\ spoilt' = {} /\ crossed' = FALSE /\ late' = 0
  /\ UNCHANGED <<tx_front, tx_rest, tx_len, out_pc, out_frame, out_at, inside, rx_pc>>

FramesNext ==
  \/ \E w \in {0, 1} : low_level_output(w)
  \/ Transmit
  \/ DmaStores(<<"whole">>) \/ DmaStores(Long)
  \/ HandlerStarts \/ low_level_input \/ Handled \/ LastLook \/ ETH_DMAClearITPendingBit
  \/ low_level_init

FramesSpec == FramesInit /\ [][FramesNext]_frame_vars

-----------------------------------------------------------------------------
(* What the DMA is yet to send is what was handed to it, whole and in that *)
(* order, as long as the interrupt has not sent while the main loop was    *)
(* sending: the descriptors that it owns follow one another from tx_dma,   *)
(* the next frame goes behind them, and a frame is only ever spoilt by one *)
(* that is copied while all descriptors are waiting.                       *)
TxIsQueue ==
  ~crossed =>
    LET Place(k) == (tx_dma + k) % ETH_TXBUFNB
        n == Len(queue)
    IN /\ tx_own = {Place(k) : k \in 0 .. n - 1} /\ n <= ETH_TXBUFNB
       /\ (\A w \in {0, 1} : out_pc[w] # "advance") => DMATxDescToSet = Place(n)
       /\ \A k \in 1 .. n :
            LET d == Place(k - 1)
            IN /\ tx_len[d] = queue[k]
               /\ d \notin spoilt => tx_front[d] = queue[k] /\ tx_rest[d] = queue[k]
       /\ spoilt # {} => n = ETH_TXBUFNB

(* When the interrupt sends in the middle of the main loop's frame, the    *)
(* descriptors may be out of step from then on; but the frame that is cut  *)
(* is the one it came into, or one that another is copied over while it    *)
(* waits.  Every other that the DMA is yet to send is whole and has its    *)
(* own length, before, between and after such crossings.                   *)
TxIsWhole ==
  \A d \in tx_own \ spoilt :
    tx_front[d] = tx_len[d] /\ tx_rest[d] = tx_len[d] /\ tx_len[d] \in Frames

TxSound == TxIsQueue /\ TxIsWhole

(* The receive bit is cleared after the last look, so a frame that comes   *)
(* in between is not noticed before the next one.  Only such frames are    *)
(* left: reception stops for good, full and without an interrupt, only if  *)
(* all descriptors were filled in between, or by a frame that is longer    *)
(* than a buffer and never taken out.                                      *)
RxNoticed ==
  rx_pc = "idle" /\ ~rx_pending /\ SizeIsNot0 => Len(rx) <= late
=============================================================================
