------------------------------ MODULE BaseBus ------------------------------
(***************************************************************************)
(* The base bus: the I2C bus between the base board and the output and     *)
(* measuring boards (BSP/BaseBus_Protocol.c, BSP/I2CRoutines.c with        *)
(* I2C_METHOD POLLING, the bus parts of BSP/bsp.c).                        *)
(*                                                                         *)
(* The main loop (level 0) executes trips and asks for the measured values *)
(* periodically; the UART shell (level 1) and the telnet shell and Modbus  *)
(* (level 2) use the bus from interrupts, wherever the levels below are.   *)
(* All of them share TxBuffer, RxBuffer and the peripheral, and what they  *)
(* go by is its BUSY bit.  Of a command's eight bytes only the type and    *)
(* the sequence number vary.                                               *)
(***************************************************************************)
EXTENDS Integers, FiniteSets

CONSTANTS
  Levels,       \* preemption levels: 0 main loop, 1 UART shell, 2 telnet and Modbus
  Outputs,      \* the outputs DoExecute may be asked for: 1..8 on the board
  Channels,     \* the fourth byte of the other commands: a channel, or AI_CALB, AI_TIME
  BackOff,      \* the literal 7 in AiQuerry
  Byte,         \* number of values of error_count, a uint8_t: 256
  BusyLimit     \* the literal 0x07 in I2CHW_Maintain

ASSUME BusAssumption ==
  /\ 0 \in Levels /\ Levels \subseteq 0..2
  /\ Outputs \subseteq Nat /\ Channels \subseteq Nat
  /\ BackOff \in Nat \ {0} /\ Byte \in Nat \ {0} /\ BusyLimit \in Nat

VARIABLES
  TxBuffer,        \* type and sequence number of the command to send
  RxBuffer,        \* the frame received: "cleared", "partial", "good" or "bad"
  I2C_MeasureTab,  \* the measured values: "genuine" or "spoiled"
  error_count,     \* AiQuerry's count of failures
  BusBusyCounter,  \* I2CHW_Maintain's count of looks at a busy bus
  live,            \* the levels whose transfer the peripheral is carrying on
  stuck,           \* some board holds the bus
  pc, job,         \* per level: the next step, and the command to send
  wire,            \* per level: what was sent of it
  loaded,          \* per level: error_count as read for the increment
  preempted        \* history: levels that a bus operation above has preempted

buffers == <<TxBuffer, RxBuffer, I2C_MeasureTab>>
counters == <<error_count, BusBusyCounter>>
bus == <<live, stuck>>
control == <<pc, job, wire, loaded, preempted>>
vars == <<buffers, counters, bus, control>>

-----------------------------------------------------------------------------
DO_EXE == "DO_EXE"
Nothing == <<"none", 0>>
DoCommands == {DO_EXE} \X Outputs
AiCommands == {"AI_SET"} \X Channels    \* AI_COF, AI_CALB and AI_TIME
Query == <<"AI_RES", 0>>
Commands == DoCommands \cup AiCommands

(* Mutants used to show that the properties below can fail. *)
NeverBusy == FALSE
HeaderOnly == RxBuffer # "cleared"
KeepsSeq(w) == TxBuffer
Saturated(n) == IF n < Byte - 1 THEN n + 1 ELSE n
StartsAgain(n) == 0
OneLater(n) == n > BusyLimit + 1

Check_i2c_State == live # {} \/ stuck

(* Deal_I2CComming: the header and the CRC are those of a frame. *)
FrameChecked == RxBuffer = "good"

(* After more than BackOff failures only every BackOff-th request is made. *)
Skips(n) == n > BackOff /\ n % BackOff # 0

Running(w) == \A v \in Levels : v > w => pc[v] = "idle"
Goto(w, place) == pc' = [pc EXCEPT ![w] = place]
At(w, place) == Running(w) /\ pc[w] = place

Init ==
  /\ TxBuffer = Nothing /\ RxBuffer = "cleared" /\ I2C_MeasureTab = "genuine"
  /\ error_count = 0 /\ BusBusyCounter = 0
  /\ live = {} /\ stuck = FALSE
  /\ pc = [w \in Levels |-> "idle"] /\ job = [w \in Levels |-> Nothing]
  /\ wire = [w \in Levels |-> Nothing] /\ loaded = [w \in Levels |-> 0]
  /\ preempted = {}

(* I2CHW_Reset gives up any transfer; a board that holds the bus may or    *)
(* may not let go.                                                         *)
I2CHW_Reset == live' = {} /\ stuck' \in {FALSE, stuck}

-----------------------------------------------------------------------------
(* Level w calls one of the operations: it preempts what runs below it.    *)
Call(w, command, place) ==
  /\ At(w, "idle")
  /\ job' = [job EXCEPT ![w] = command]
  /\ Goto(w, place)
  /\ preempted' = preempted \cup {v \in Levels : v < w /\ pc[v] # "idle"}
  /\ UNCHANGED <<wire, loaded>>

(* The operation returns; AiQuerry is followed by I2CHW_Maintain in the    *)
(* main loop.                                                              *)
Return(w) ==
  /\ Goto(w, IF w = 0 /\ job[w] = Query THEN "maintain" ELSE "idle")
  /\ job' = [job EXCEPT ![w] = Nothing] /\ wire' = [wire EXCEPT ![w] = Nothing]
  /\ loaded' = [loaded EXCEPT ![w] = 0]
  /\ preempted' = preempted \ {w}

(* DoExecute: a trip of the main loop, CMD_DO or a Modbus write. *)
DoExecute(w) ==
  /\ \E command \in DoCommands : Call(w, command, "type")
  /\ UNCHANGED <<buffers, counters, bus>>

(* AiCoefSet, Calibration and Time_Calib, which only the shells call.      *)
AiSet(w) ==
  /\ w # 0
  /\ \E command \in AiCommands : Call(w, command, "type")
  /\ RxBuffer' = "cleared"
  /\ UNCHANGED <<TxBuffer, I2C_MeasureTab, counters, bus>>

(* They fill TxBuffer byte by byte. *)
FillType(w) ==
  /\ At(w, "type")
  /\ TxBuffer' = <<job[w][1], TxBuffer[2]>>
  /\ Goto(w, "seq")
  /\ UNCHANGED <<RxBuffer, I2C_MeasureTab, counters, bus, job, wire, loaded, preempted>>

WithSeq(w) == <<TxBuffer[1], job[w][2]>>

FillSeq(w) ==
  /\ At(w, "seq")
  /\ TxBuffer' = WithSeq(w)
  /\ Goto(w, "check")
  /\ UNCHANGED <<RxBuffer, I2C_MeasureTab, counters, bus, job, wire, loaded, preempted>>

(* The bus is free: start.  If it is busy an output command resets it and  *)
(* looks again, and any other gives up.                                    *)
CheckFree(w) ==
  /\ pc[w] \in {"check", "again"} /\ Running(w)
  /\ ~Check_i2c_State
  /\ Goto(w, "start")
  /\ UNCHANGED <<buffers, counters, bus, job, wire, loaded, preempted>>

CheckBusy(w) ==
  /\ pc[w] \in {"check", "again"} /\ Running(w)
  /\ Check_i2c_State
  /\ \/ /\ job[w] \in DoCommands /\ pc[w] = "check"
        /\ I2CHW_Reset
        /\ Goto(w, "again")
        /\ UNCHANGED <<job, wire, loaded, preempted>>
     \/ /\ job[w] \notin DoCommands \/ pc[w] = "again"
        /\ Return(w)
        /\ UNCHANGED bus
  /\ UNCHANGED <<buffers, counters>>

(* START, in I2C_Master_BufferWrite and I2C_Master_BufferRead. *)
Start(w) ==
  /\ At(w, "start")
  /\ live' = live \cup {w}
  /\ Goto(w, IF job[w] = Query THEN "head" ELSE "byte2")
  /\ UNCHANGED <<buffers, counters, stuck, job, wire, loaded, preempted>>

-----------------------------------------------------------------------------
(* I2C_Master_BufferWrite reads TxBuffer as it goes.                       *)
Carried(w) == w \in live /\ ~stuck

SendType(w) ==
  /\ At(w, "byte2") /\ Carried(w)
  /\ wire' = [wire EXCEPT ![w] = <<TxBuffer[1], 0>>]
  /\ Goto(w, "byte3")
  /\ UNCHANGED <<buffers, counters, bus, job, loaded, preempted>>

SendSeq(w) ==
  /\ At(w, "byte3") /\ Carried(w)
  /\ wire' = [wire EXCEPT ![w][2] = TxBuffer[2]]
  /\ Goto(w, "sent")
  /\ UNCHANGED <<buffers, counters, bus, job, loaded, preempted>>

(* STOP after the last byte: the operation returns Success. *)
Sent(w) ==
  /\ At(w, "sent") /\ Carried(w)
  /\ live' = live \ {w}
  /\ Return(w)
  /\ UNCHANGED <<buffers, counters, stuck>>

(* A wait runs out: the board does not answer, it holds the bus, or an     *)
(* operation above has reset the peripheral.                               *)
TransferPlaces == {"byte2", "byte3", "sent", "head", "rest"}

TimesOut(w) ==
  /\ Running(w) /\ pc[w] \in TransferPlaces
  /\ Goto(w, IF job[w] = Query THEN "failed" ELSE "recover")
  /\ UNCHANGED <<buffers, counters, bus, job, wire, loaded, preempted>>

(* STOP, START and a reset: the operation returns Error. *)
Recover(w) ==
  /\ At(w, "recover")
  /\ I2CHW_Reset
  /\ Return(w)
  /\ UNCHANGED <<buffers, counters>>

-----------------------------------------------------------------------------
(* AiQuerry, in the main loop and for CMD_AI: it clears RxBuffer before it *)
(* looks at the bus.                                                       *)
AiQuerry(w) ==
  /\ Call(w, Query, "ask")
  /\ RxBuffer' = "cleared"
  /\ UNCHANGED <<TxBuffer, I2C_MeasureTab, counters, bus>>

QueryBusy(w) ==
  /\ At(w, "ask") /\ Check_i2c_State
  /\ Return(w)
  /\ UNCHANGED <<buffers, counters, bus>>

QueryDecision(w) ==
  /\ At(w, "ask") /\ ~Check_i2c_State
  /\ IF Skips(error_count)
     THEN Goto(w, "skip") /\ loaded' = [loaded EXCEPT ![w] = error_count]
     ELSE Goto(w, "start") /\ UNCHANGED loaded
  /\ UNCHANGED <<buffers, counters, bus, job, wire, preempted>>

Incremented(n) == (n + 1) % Byte

QuerySkipped(w) ==
  /\ At(w, "skip")
  /\ error_count' = Incremented(loaded[w])
  /\ Return(w)
  /\ UNCHANGED <<buffers, BusBusyCounter, bus>>

(* The first bytes, which the operations above may clear, and the others.  *)
ReceiveHead(w) ==
  /\ At(w, "head") /\ Carried(w)
  /\ RxBuffer' = "partial"
  /\ Goto(w, "rest")
  /\ UNCHANGED <<TxBuffer, I2C_MeasureTab, counters, bus, job, wire, loaded, preempted>>

ReceiveRest(w) ==
  /\ At(w, "rest") /\ Carried(w)
  /\ RxBuffer' \in (IF RxBuffer = "partial" THEN {"good", "bad"} ELSE {"bad"})
  /\ live' = live \ {w}
  /\ Goto(w, "verify")
  /\ UNCHANGED <<TxBuffer, I2C_MeasureTab, counters, stuck, job, wire, loaded, preempted>>

(* Deal_I2CComming.  The CRC unit is shared: a preempted computation may   *)
(* reject a frame that is good.                                            *)
VerifyAccepts(w) ==
  /\ At(w, "verify") /\ FrameChecked
  /\ Goto(w, "copy")
  /\ UNCHANGED <<buffers, counters, bus, job, wire, loaded, preempted>>

VerifyRejects(w) ==
  /\ At(w, "verify") /\ (~FrameChecked \/ w \in preempted)
  /\ error_count' = 0
  /\ Return(w)
  /\ UNCHANGED <<buffers, BusBusyCounter, bus>>

(* AiProcess, and error_count = 0 after it. *)
AiProcess(w) ==
  /\ At(w, "copy")
  /\ I2C_MeasureTab' = IF RxBuffer = "good" THEN "genuine" ELSE "spoiled"
  /\ error_count' = 0
  /\ Return(w)
  /\ UNCHANGED <<TxBuffer, RxBuffer, BusBusyCounter, bus>>

QueryFailed(w) ==
  /\ At(w, "failed")
  /\ loaded' = [loaded EXCEPT ![w] = error_count]
  /\ Goto(w, "count")
  /\ UNCHANGED <<buffers, counters, bus, job, wire, preempted>>

CountFailure(w) ==
  /\ At(w, "count")
  /\ error_count' = Incremented(loaded[w])
  /\ Goto(w, "recover")
  /\ UNCHANGED <<buffers, BusBusyCounter, bus, job, wire, loaded, preempted>>

-----------------------------------------------------------------------------
(* I2CHW_Maintain: the counter of looks at a busy bus, and the reset.      *)
Looked(n) == IF Check_i2c_State THEN n + 1 ELSE 0
TooBusy(n) == n > BusyLimit

MaintainLooks ==
  /\ At(0, "maintain") /\ ~TooBusy(Looked(BusBusyCounter))
  /\ BusBusyCounter' = Looked(BusBusyCounter)
  /\ Goto(0, "idle") /\ preempted' = preempted \ {0}
  /\ UNCHANGED <<buffers, error_count, bus, job, wire, loaded>>

MaintainResets ==
  /\ At(0, "maintain") /\ TooBusy(Looked(BusBusyCounter))
  /\ BusBusyCounter' = 0
  /\ I2CHW_Reset
  /\ Goto(0, "idle") /\ preempted' = preempted \ {0}
  /\ UNCHANGED <<buffers, error_count, job, wire, loaded>>

(* A board holds the bus, or lets go. *)
BusSticks == stuck' = ~stuck /\ UNCHANGED <<buffers, counters, live, control>>

Step(w) ==
  \/ FillType(w) \/ FillSeq(w) \/ CheckFree(w) \/ CheckBusy(w) \/ Start(w)
  \/ SendType(w) \/ SendSeq(w) \/ Sent(w) \/ TimesOut(w) \/ Recover(w)
  \/ QueryBusy(w) \/ QueryDecision(w) \/ QuerySkipped(w)
  \/ ReceiveHead(w) \/ ReceiveRest(w) \/ VerifyAccepts(w) \/ VerifyRejects(w)
  \/ AiProcess(w) \/ QueryFailed(w) \/ CountFailure(w)

Operation(w) == DoExecute(w) \/ AiSet(w) \/ AiQuerry(w) \/ Step(w)

Next ==
  \/ \E w \in Levels : Operation(w)
  \/ MaintainLooks \/ MaintainResets
  \/ BusSticks

Spec == Init /\ [][Next]_vars

(* The interrupts leave the main loop some of the processor, AiQuerry is   *)
(* called again and again (QRY_TMR_INTERVAL), and a board that holds the   *)
(* bus lets go of it after enough resets by I2CHW_Maintain.                *)
StepContinues(w) == SF_vars(Step(w))

Fairness ==
  /\ \A w \in Levels : StepContinues(w)
  /\ SF_vars(MaintainLooks \/ MaintainResets)
  /\ SF_vars(AiQuerry(0))
  /\ SF_vars(MaintainResets /\ ~stuck')

FairSpec == Spec /\ Fairness

-----------------------------------------------------------------------------
QueryPlaces == {"ask", "skip", "head", "rest", "verify", "copy", "failed", "count"}
WritePlaces == {"type", "seq", "check", "again", "byte2", "byte3", "sent"}
Places == QueryPlaces \cup WritePlaces \cup {"idle", "start", "recover", "maintain"}
Frames == {DO_EXE, "AI_SET", "none"} \X (Outputs \cup Channels \cup {0})

TypeOK ==
  /\ TxBuffer \in Frames
  /\ RxBuffer \in {"cleared", "partial", "good", "bad"}
  /\ I2C_MeasureTab \in {"genuine", "spoiled"}
  /\ error_count \in 0 .. Byte - 1 /\ BusBusyCounter \in 0 .. BusyLimit
  /\ live \subseteq Levels /\ stuck \in BOOLEAN
  /\ pc \in [Levels -> Places]
  /\ job \in [Levels -> Commands \cup {Query, Nothing}]
  /\ \A w \in Levels : /\ pc[w] \in QueryPlaces => job[w] = Query
                       /\ pc[w] \in WritePlaces => job[w] \in Commands
                       /\ pc[w] = "start" => job[w] # Nothing
                       /\ pc[w] = "maintain" => w = 0
  /\ wire \in [Levels -> Frames]
  /\ loaded \in [Levels -> 0 .. Byte - 1]
  /\ preempted \subseteq Levels

(* The peripheral carries on one transfer at a time, of a level that has   *)
(* not finished with it: whoever is preempted and however a transfer ends, *)
(* no transfer is started into another one or left behind.                 *)
OneTransfer ==
  \A w \in live : /\ pc[w] \in TransferPlaces \cup {"failed", "count", "recover"}
                  /\ \A v \in live : v = w

(* "Remote control must be executed with priority" (BaseBus_Protocol.c:113)*)
(* and nothing else: a transfer is given up by the operation it belongs to *)
(* or by an output command above it.                                       *)
OnlyOutputsAbort ==
  [][\A w \in live \ live' :
       pc'[w] # pc[w] \/ \E v \in Levels : v > w /\ job[v] \in DoCommands]_vars

(* An output command that is reported as executed was sent as it was       *)
(* asked for, unless a bus operation of a higher level preempted it.       *)
ExactUnlessPreempted ==
  [][\A w \in Levels :
       Sent(w) => wire[w] = job[w] \/ w \in preempted]_vars

(* What replaces the measured values is a frame that passed the checks,    *)
(* unless a bus operation of a higher level preempted the copying.         *)
GenuineUnlessPreempted ==
  [][\A w \in Levels :
       AiProcess(w) => I2C_MeasureTab' = "genuine" \/ w \in preempted]_vars

(* The measuring board is asked again and again as long as the bus is not  *)
(* held, however often it failed: backing off never becomes giving up.     *)
RequestsGoOn == <>[]~stuck => []<>(\E w \in Levels : pc[w] = "head")

(* A bus that is held is reset until it is let go, although AiQuerry does  *)
(* nothing on a busy bus.                                                  *)
BusReleased == stuck ~> ~stuck

(* DoExecute returns Success for "executed" (shellcmd.c:1139): the output  *)
(* board was sent the command that was asked for.                          *)
SuccessMeansExecuted ==
  [][\A w \in Levels : Sent(w) /\ job[w] \in DoCommands => wire[w] = job[w]]_vars
=============================================================================
