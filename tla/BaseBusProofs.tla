--------------------------- MODULE BaseBusProofs ---------------------------
(***************************************************************************)
(* Proofs about the base bus, for any preemption levels, outputs, channels *)
(* and limits: what the transfers and buffers may never be, from the       *)
(* inductive invariant IInv, and that the requests and the resets go on,   *)
(* from the fairness of the specification.                                 *)
(***************************************************************************)
EXTENDS BaseBus, TLAPS

LEMMA Increments ==
  ASSUME NEW n \in 0 .. Byte - 1
  PROVE  Incremented(n) \in 0 .. Byte - 1
BY BusAssumption DEF Incremented

(* The commands are frames, and queries are not commands. *)
LEMMA FrameKinds ==
  /\ Nothing \in Frames
  /\ \A command \in Commands : command \in Frames
  /\ Query \notin Commands /\ Nothing \notin Commands /\ Query # Nothing
  /\ DoCommands \subseteq Commands /\ AiCommands \subseteq Commands
  /\ \A f, g \in Frames : <<f[1], g[2]>> \in Frames /\ <<f[1], 0>> \in Frames
BY DEF Frames, Commands, DoCommands, AiCommands, Nothing, Query, DO_EXE

(* Every step of a level changes that level's entries only.                *)
LEMMA Returning ==
  ASSUME TypeOK, NEW w \in Levels, Return(w), pc[w] # "maintain", pc[w] # "idle"
  PROVE  /\ pc' \in [Levels -> Places] /\ pc'[w] \in {"idle", "maintain"}
         /\ pc'[w] = "maintain" => w = 0
         /\ \A v \in Levels \ {w} : pc'[v] = pc[v] /\ job'[v] = job[v]
         /\ job' \in [Levels -> Commands \cup {Query, Nothing}]
         /\ wire' \in [Levels -> Frames]
         /\ loaded' \in [Levels -> 0 .. Byte - 1]
         /\ preempted' \subseteq Levels
BY BusAssumption, FrameKinds
DEF TypeOK, Return, Goto, Places, QueryPlaces, WritePlaces

(* What TypeOK says of pc and job. *)
JobFits(w) ==
  /\ pc[w] \in QueryPlaces => job[w] = Query
  /\ pc[w] \in WritePlaces => job[w] \in Commands
  /\ pc[w] = "start" => job[w] # Nothing
  /\ pc[w] = "maintain" => w = 0

LEMMA Calling ==
  ASSUME TypeOK, NEW w \in Levels, NEW command \in Commands \cup {Query},
         NEW place \in Places, Call(w, command, place)
  PROVE  /\ pc' = [pc EXCEPT ![w] = place] /\ pc' \in [Levels -> Places]
         /\ job' = [job EXCEPT ![w] = command]
         /\ job' \in [Levels -> Commands \cup {Query, Nothing}]
         /\ preempted' \subseteq Levels
         /\ UNCHANGED <<wire, loaded>>
BY DEF TypeOK, Call, Goto

LEMMA Going ==
  ASSUME TypeOK, NEW w \in Levels, NEW place \in Places, Goto(w, place)
  PROVE  /\ pc' \in [Levels -> Places] /\ pc'[w] = place
         /\ \A v \in Levels \ {w} : pc'[v] = pc[v]
BY DEF TypeOK, Goto

(* A level that goes on to a place that fits its operation stays typed.    *)
LEMMA Moving ==
  ASSUME TypeOK, NEW w \in Levels, NEW place \in Places, Goto(w, place), job' = job,
         place \in QueryPlaces => job[w] = Query,
         place \in WritePlaces => job[w] \in Commands,
         place = "start" => job[w] # Nothing,
         place = "maintain" => w = 0
  PROVE  pc' \in [Levels -> Places] /\ \A v \in Levels : JobFits(v)'
BY DEF TypeOK, Goto, JobFits

(* The initial state is typed. *)
LEMMA InitTyped == Init => TypeOK
<1> USE BusAssumption
<1> SUFFICES ASSUME Init PROVE TypeOK
  OBVIOUS
<1>1. pc \in [Levels -> Places] /\ \A w \in Levels : pc[w] = "idle"
  BY DEF Init, Places
<1>2. /\ job \in [Levels -> Commands \cup {Query, Nothing}]
      /\ wire \in [Levels -> Frames] /\ loaded \in [Levels -> 0 .. Byte - 1]
  BY FrameKinds DEF Init
<1> QED
  <2>1. TxBuffer \in Frames /\ error_count \in 0 .. Byte - 1 /\ BusBusyCounter \in 0 .. BusyLimit
    BY FrameKinds DEF Init
  <2> QED
    BY <1>1, <1>2, <2>1 DEF Init, TypeOK, QueryPlaces, WritePlaces

(* Type correctness, for every number of levels and every limit. *)
THEOREM TypeCorrect == Spec => []TypeOK
<1> USE BusAssumption
<1>1. Init => TypeOK
  BY InitTyped
<1>2. TypeOK /\ [Next]_vars => TypeOK'
  <2> SUFFICES ASSUME TypeOK, [Next]_vars PROVE TypeOK'
    OBVIOUS
  <2>a. \A w \in Levels : (DoExecute(w) => TypeOK')
    <3> SUFFICES ASSUME NEW w \in Levels, DoExecute(w) PROVE TypeOK'
       OBVIOUS
    <3>1. PICK command \in DoCommands : Call(w, command, "type")
      BY DEF DoExecute
    <3> QED
      BY <3>1, Calling, FrameKinds DEF DoExecute, TypeOK, Places, QueryPlaces, WritePlaces, buffers, counters, bus
  <2>b. \A w \in Levels : AiSet(w) => TypeOK'
    <3> SUFFICES ASSUME NEW w \in Levels, AiSet(w) PROVE TypeOK'
       OBVIOUS
    <3>1. PICK command \in AiCommands : Call(w, command, "type")
      BY DEF AiSet
    <3> QED
      BY <3>1, Calling, FrameKinds DEF AiSet, TypeOK, Places, QueryPlaces, WritePlaces, counters, bus
  <2>c. \A w \in Levels : AiQuerry(w) => TypeOK'
      BY Calling, FrameKinds DEF AiQuerry, TypeOK, Places, QueryPlaces, WritePlaces, counters, bus
  <2>d. \A w \in Levels : FillType(w) => TypeOK'
    <3> SUFFICES ASSUME NEW w \in Levels, FillType(w) PROVE TypeOK'
      OBVIOUS
    <3>1. pc' \in [Levels -> Places] /\ \A v \in Levels : JobFits(v)'
      BY Moving DEF FillType, At, TypeOK, Places, QueryPlaces, WritePlaces
    <3>2. TxBuffer' \in Frames
      BY FrameKinds DEF FillType, At, TypeOK, WritePlaces
    <3> QED
      BY <3>1, <3>2 DEF FillType, JobFits, TypeOK, counters, bus
  <2>e. \A w \in Levels : FillSeq(w) => TypeOK'
    <3> SUFFICES ASSUME NEW w \in Levels, FillSeq(w) PROVE TypeOK'
      OBVIOUS
    <3>1. pc' \in [Levels -> Places] /\ \A v \in Levels : JobFits(v)'
      BY Moving DEF FillSeq, At, TypeOK, Places, QueryPlaces, WritePlaces
    <3>2. TxBuffer' \in Frames
      BY FrameKinds DEF FillSeq, WithSeq, At, TypeOK, WritePlaces
    <3> QED
      BY <3>1, <3>2 DEF FillSeq, JobFits, TypeOK, counters, bus
  <2>f. \A w \in Levels : CheckFree(w) => TypeOK'
    <3> SUFFICES ASSUME NEW w \in Levels, CheckFree(w) PROVE TypeOK'
      OBVIOUS
    <3>1. pc' \in [Levels -> Places] /\ \A v \in Levels : JobFits(v)'
      BY Moving, FrameKinds DEF CheckFree, At, TypeOK, Places, QueryPlaces, WritePlaces
    <3> QED
      BY <3>1 DEF CheckFree, JobFits, TypeOK, buffers, counters, bus
  <2>g. \A w \in Levels : CheckBusy(w) => TypeOK'
    <3> SUFFICES ASSUME NEW w \in Levels, CheckBusy(w) PROVE TypeOK'
      OBVIOUS
    <3>1. CASE Return(w) /\ UNCHANGED bus
      BY <3>1, Returning DEF CheckBusy, TypeOK, Places, QueryPlaces, WritePlaces, buffers, counters, bus
    <3>2. CASE I2CHW_Reset /\ Goto(w, "again") /\ UNCHANGED <<job, wire, loaded, preempted>>
      <4>1. pc' \in [Levels -> Places] /\ \A v \in Levels : JobFits(v)'
        BY <3>2, Moving DEF CheckBusy, TypeOK, Places, QueryPlaces, WritePlaces
      <4> QED
        BY <3>2, <4>1 DEF CheckBusy, I2CHW_Reset, JobFits, TypeOK, buffers, counters
    <3> QED
      BY <3>1, <3>2 DEF CheckBusy
  <2>h. \A w \in Levels : Start(w) => TypeOK'
    <3> SUFFICES ASSUME NEW w \in Levels, Start(w) PROVE TypeOK'
      OBVIOUS
    <3>1. pc' \in [Levels -> Places] /\ \A v \in Levels : JobFits(v)'
      <4> job[w] \in Commands \cup {Query}
        BY DEF Start, At, TypeOK
      <4>1. CASE Goto(w, "head") /\ job[w] = Query
        BY <4>1, Moving DEF Start, Places, QueryPlaces, WritePlaces
      <4>2. CASE Goto(w, "byte2") /\ job[w] # Query
        BY <4>2, Moving DEF Start, At, TypeOK, Places, QueryPlaces, WritePlaces
      <4> QED
        BY <4>1, <4>2 DEF Start
    <3> QED
      BY <3>1 DEF Start, JobFits, TypeOK, buffers, counters
  <2>i. \A w \in Levels : SendType(w) => TypeOK'
    <3> SUFFICES ASSUME NEW w \in Levels, SendType(w) PROVE TypeOK'
      OBVIOUS
    <3>1. pc' \in [Levels -> Places] /\ \A v \in Levels : JobFits(v)'
      BY Moving DEF SendType, At, TypeOK, Places, QueryPlaces, WritePlaces
    <3> QED
      BY <3>1, FrameKinds DEF SendType, JobFits, TypeOK, buffers, counters, bus
  <2>x. \A w \in Levels : SendSeq(w) => TypeOK'
    <3> SUFFICES ASSUME NEW w \in Levels, SendSeq(w) PROVE TypeOK'
      OBVIOUS
    <3>1. pc' \in [Levels -> Places] /\ \A v \in Levels : JobFits(v)'
      BY Moving DEF SendSeq, At, TypeOK, Places, QueryPlaces, WritePlaces
    <3>2. wire' \in [Levels -> Frames]
      <4>1. wire' = [wire EXCEPT ![w] = [wire[w] EXCEPT ![2] = TxBuffer[2]]]
        BY DEF SendSeq
      <4>2. [wire[w] EXCEPT ![2] = TxBuffer[2]] \in Frames
        BY DEF TypeOK, Frames
      <4> QED
        BY <4>1, <4>2 DEF TypeOK
    <3> QED
      BY <3>1, <3>2 DEF SendSeq, JobFits, TypeOK, buffers, counters, bus
  <2>j. \A w \in Levels : Sent(w) => TypeOK'
      BY Returning DEF Sent, At, TypeOK, Places, QueryPlaces, WritePlaces, buffers, counters
  <2>k. \A w \in Levels : TimesOut(w) => TypeOK'
      BY Going DEF TimesOut, TransferPlaces, At, TypeOK, Places, QueryPlaces, WritePlaces, buffers, counters, bus
  <2>l. \A w \in Levels : Recover(w) => TypeOK'
      BY Returning DEF Recover, I2CHW_Reset, At, TypeOK, Places, QueryPlaces, WritePlaces, buffers, counters
  <2>m. \A w \in Levels : QueryBusy(w) => TypeOK'
      BY Returning DEF QueryBusy, At, TypeOK, Places, QueryPlaces, WritePlaces, buffers, counters, bus
  <2>n. \A w \in Levels : QueryDecision(w) => TypeOK'
    <3> SUFFICES ASSUME NEW w \in Levels, QueryDecision(w) PROVE TypeOK'
      OBVIOUS
    <3>1. pc' \in [Levels -> Places] /\ \A v \in Levels : JobFits(v)'
      BY Moving, FrameKinds DEF QueryDecision, At, TypeOK, Places, QueryPlaces, WritePlaces
    <3> QED
      BY <3>1 DEF QueryDecision, JobFits, TypeOK, buffers, counters, bus
  <2>o. \A w \in Levels : QuerySkipped(w) => TypeOK'
      BY Returning, Increments DEF QuerySkipped, At, TypeOK, Places, QueryPlaces, WritePlaces, buffers, bus
  <2>p. \A w \in Levels : ReceiveHead(w) => TypeOK'
    <3> SUFFICES ASSUME NEW w \in Levels, ReceiveHead(w) PROVE TypeOK'
      OBVIOUS
    <3>1. pc' \in [Levels -> Places] /\ \A v \in Levels : JobFits(v)'
      BY Moving DEF ReceiveHead, At, TypeOK, Places, QueryPlaces, WritePlaces
    <3> QED
      BY <3>1 DEF ReceiveHead, JobFits, TypeOK, counters, bus
  <2>y. \A w \in Levels : ReceiveRest(w) => TypeOK'
    <3> SUFFICES ASSUME NEW w \in Levels, ReceiveRest(w) PROVE TypeOK'
      OBVIOUS
    <3>1. pc' \in [Levels -> Places] /\ \A v \in Levels : JobFits(v)'
      BY Moving DEF ReceiveRest, At, TypeOK, Places, QueryPlaces, WritePlaces
    <3> QED
      BY <3>1 DEF ReceiveRest, JobFits, TypeOK, counters
  <2>q. \A w \in Levels : VerifyAccepts(w) => TypeOK'
      BY Going DEF VerifyAccepts, At, TypeOK, Places, QueryPlaces, WritePlaces, buffers, counters, bus
  <2>r. \A w \in Levels : VerifyRejects(w) => TypeOK'
      BY Returning DEF VerifyRejects, At, TypeOK, Places, QueryPlaces, WritePlaces, buffers, bus
  <2>s. \A w \in Levels : AiProcess(w) => TypeOK'
      BY Returning DEF AiProcess, At, TypeOK, Places, QueryPlaces, WritePlaces, bus
  <2>t. \A w \in Levels : QueryFailed(w) => TypeOK'
      BY Going DEF QueryFailed, At, TypeOK, Places, QueryPlaces, WritePlaces, buffers, counters, bus
  <2>u. \A w \in Levels : CountFailure(w) => TypeOK'
      BY Going, Increments DEF CountFailure, At, TypeOK, Places, QueryPlaces, WritePlaces, buffers, bus
  <2>v. MaintainLooks => TypeOK'
    <3> SUFFICES ASSUME MaintainLooks PROVE TypeOK'
      OBVIOUS
    <3>1. pc' \in [Levels -> Places] /\ \A v \in Levels : JobFits(v)'
      BY Moving DEF MaintainLooks, At, TypeOK, Places, QueryPlaces, WritePlaces
    <3>2. BusBusyCounter' \in 0 .. BusyLimit
      BY DEF MaintainLooks, Looked, TooBusy, TypeOK
    <3> QED
      BY <3>1, <3>2 DEF MaintainLooks, JobFits, TypeOK, buffers, bus
  <2>z. MaintainResets => TypeOK'
    <3> SUFFICES ASSUME MaintainResets PROVE TypeOK'
      OBVIOUS
    <3>1. pc' \in [Levels -> Places] /\ \A v \in Levels : JobFits(v)'
      BY Moving DEF MaintainResets, At, TypeOK, Places, QueryPlaces, WritePlaces
    <3>2. live' \subseteq Levels /\ stuck' \in BOOLEAN
      BY DEF MaintainResets, I2CHW_Reset, TypeOK
    <3>3. BusBusyCounter' \in 0 .. BusyLimit
      BY DEF MaintainResets
    <3> QED
      BY <3>1, <3>2, <3>3 DEF MaintainResets, JobFits, TypeOK, buffers
  <2>w. BusSticks \/ UNCHANGED vars => TypeOK'
      BY DEF BusSticks, TypeOK, buffers, counters, bus, control, vars
  <2> QED
    BY <2>a, <2>b, <2>c, <2>d, <2>e, <2>f, <2>g, <2>h, <2>i, <2>j, <2>k, <2>l, <2>m,
       <2>n, <2>o, <2>p, <2>q, <2>r, <2>s, <2>t, <2>u, <2>v, <2>w, <2>x, <2>y, <2>z
    DEF Next, Operation, Step
<1> QED
  BY <1>1, <1>2, PTL DEF Spec

-----------------------------------------------------------------------------
(***************************************************************************)
(* The inductive invariant.  The peripheral belongs to no level below one  *)
(* that is in a transfer or about to start one, whoever is preempted is in *)
(* preempted, and what a level that is not preempted left in the buffers   *)
(* is still there.                                                         *)
(***************************************************************************)
Holding == TransferPlaces \cup {"failed", "count", "recover"}

Precedence ==
  \A w \in Levels :
    /\ pc[w] \in Holding => \A v \in live : v >= w
    /\ pc[w] = "start" => \A v \in live : v > w

Preemptions ==
  \A v, w \in Levels : v < w /\ pc[v] # "idle" /\ pc[w] # "idle" => v \in preempted

Exact(w) ==
  job[w] \in Commands =>
    /\ pc[w] = "seq" => TxBuffer[1] = job[w][1]
    /\ pc[w] \in {"check", "again", "start", "byte2", "byte3"} => TxBuffer = job[w]
    /\ pc[w] = "byte3" => wire[w] = <<job[w][1], 0>>
    /\ pc[w] = "sent" => wire[w] = job[w]

Exactness == \A w \in Levels \ preempted : Exact(w)

Genuineness ==
  \A w \in Levels \ preempted : pc[w] = "copy" => RxBuffer = "good"

IInv == TypeOK /\ OneTransfer /\ Precedence /\ Preemptions /\ Exactness /\ Genuineness

(* I2CHW_Maintain counted among the operations of level 0. *)
Acts(w) == Operation(w) \/ (w = 0 /\ (MaintainLooks \/ MaintainResets))

(* A step is one of some level, or of a board that holds the bus. *)
LEMMA Actors == Next => (\E w \in Levels : Acts(w)) \/ BusSticks
<1>1. 0 \in Levels
  BY BusAssumption
<1>2. (MaintainLooks \/ MaintainResets) => Acts(0)
  BY DEF Acts
<1>3. ASSUME NEW w \in Levels, Operation(w) PROVE Acts(w)
  BY <1>3 DEF Acts
<1> QED
  BY <1>1, <1>2, <1>3 DEF Next

(* What an operation of level w does to the other levels: they are not     *)
(* running, nothing of theirs changes, and a call marks those it preempts. *)
LEMMA Others ==
  ASSUME TypeOK, NEW w \in Levels, Acts(w)
  PROVE  /\ Running(w)
         /\ \A v \in Levels \ {w} : pc'[v] = pc[v] /\ job'[v] = job[v] /\ wire'[v] = wire[v]
         /\ \A v \in Levels \ {w} :
              v \in preempted' <=> (v \in preempted \/ (pc[w] = "idle" /\ v < w /\ pc[v] # "idle"))
         /\ w \in preempted /\ w \notin preempted' => pc'[w] \in {"idle", "maintain"}
<1> DEFINE Goal ==
         /\ Running(w)
         /\ \A v \in Levels \ {w} : pc'[v] = pc[v] /\ job'[v] = job[v] /\ wire'[v] = wire[v]
         /\ \A v \in Levels \ {w} :
              v \in preempted' <=> (v \in preempted \/ (pc[w] = "idle" /\ v < w /\ pc[v] # "idle"))
         /\ w \in preempted /\ w \notin preempted' => pc'[w] \in {"idle", "maintain"}
<1>0. pc \in [Levels -> Places] /\ 0 \in Levels /\ Levels \subseteq 0..2
      /\ job \in [Levels -> Commands \cup {Query, Nothing}] /\ wire \in [Levels -> Frames]
  BY BusAssumption DEF TypeOK
<1>call. ASSUME NEW command, NEW place, Call(w, command, place) PROVE Goal
  BY <1>0, <1>call DEF Call, At, Running, Goto
<1>return. ASSUME Return(w), Running(w), pc[w] # "idle" PROVE Goal
  BY <1>0, <1>return DEF Return, Goto
<1>goto. ASSUME NEW place, Running(w), pc[w] # "idle", Goto(w, place), UNCHANGED <<job, preempted>>,
                \A v \in Levels \ {w} : wire'[v] = wire[v]
         PROVE  Goal
  BY <1>0, <1>goto DEF Goto
<1>DoExecute. DoExecute(w) => Goal
  BY <1>call DEF DoExecute
<1>AiSet. AiSet(w) => Goal
  BY <1>call DEF AiSet
<1>AiQuerry. AiQuerry(w) => Goal
  BY <1>call DEF AiQuerry
<1>Sent. Sent(w) => Goal
  BY <1>return DEF Sent, At
<1>Recover. Recover(w) => Goal
  BY <1>return DEF Recover, At
<1>QueryBusy. QueryBusy(w) => Goal
  BY <1>return DEF QueryBusy, At
<1>QuerySkipped. QuerySkipped(w) => Goal
  BY <1>return DEF QuerySkipped, At
<1>VerifyRejects. VerifyRejects(w) => Goal
  BY <1>return DEF VerifyRejects, At
<1>AiProcess. AiProcess(w) => Goal
  BY <1>return DEF AiProcess, At
<1>FillType. FillType(w) => Goal
  BY <1>goto DEF FillType, At
<1>FillSeq. FillSeq(w) => Goal
  BY <1>goto DEF FillSeq, At
<1>CheckFree. CheckFree(w) => Goal
  BY <1>goto DEF CheckFree, At
<1>CheckBusy. CheckBusy(w) => Goal
  BY <1>return, <1>goto DEF CheckBusy
<1>Start. Start(w) => Goal
  BY <1>goto DEF Start, At
<1>SendType. SendType(w) => Goal
  BY <1>0, <1>goto DEF SendType, At
<1>SendSeq. SendSeq(w) => Goal
  BY <1>0, <1>goto DEF SendSeq, At
<1>TimesOut. TimesOut(w) => Goal
  BY <1>goto DEF TimesOut, TransferPlaces
<1>QueryDecision. QueryDecision(w) => Goal
  BY <1>goto DEF QueryDecision, At
<1>ReceiveHead. ReceiveHead(w) => Goal
  BY <1>goto DEF ReceiveHead, At
<1>ReceiveRest. ReceiveRest(w) => Goal
  BY <1>goto DEF ReceiveRest, At
<1>VerifyAccepts. VerifyAccepts(w) => Goal
  BY <1>goto DEF VerifyAccepts, At
<1>QueryFailed. QueryFailed(w) => Goal
  BY <1>goto DEF QueryFailed, At
<1>CountFailure. CountFailure(w) => Goal
  BY <1>goto DEF CountFailure, At
<1>maintain. w = 0 /\ (MaintainLooks \/ MaintainResets) => Goal
  BY <1>0 DEF MaintainLooks, MaintainResets, At, Goto
<1> QED
  BY <1>DoExecute, <1>AiSet, <1>AiQuerry, <1>FillType, <1>FillSeq, <1>CheckFree, <1>CheckBusy, <1>Start,
     <1>SendType, <1>SendSeq, <1>Sent, <1>TimesOut, <1>Recover, <1>QueryBusy, <1>QueryDecision, <1>QuerySkipped,
     <1>ReceiveHead, <1>ReceiveRest, <1>VerifyAccepts, <1>VerifyRejects, <1>AiProcess, <1>QueryFailed, <1>CountFailure, <1>maintain
  DEF Acts, Operation, Step

(* What an operation of level w does to the peripheral: it enters a        *)
(* transfer from "start" only, comes to "start" only over a free bus, and  *)
(* ends a transfer that is not its own only to give priority to an output, *)
(* or after a failure, or from I2CHW_Maintain.                             *)
LEMMA OnBus ==
  ASSUME TypeOK, OneTransfer, NEW w \in Levels, Acts(w)
  PROVE  /\ pc'[w] \in Holding => pc[w] \in Holding \/ pc[w] = "start"
         /\ pc'[w] = "start" => live' = {}
         /\ \A v \in live' : v \in live \/ v = w
         /\ w \in live' /\ w \notin live => pc[w] = "start"
         /\ w \in live' => pc'[w] \in Holding
         /\ w \in live /\ w \notin live' => pc'[w] # pc[w]
         /\ live' = live \/ pc[w] \in Holding \cup {"start", "maintain"} \/ job[w] \in DoCommands
<1> DEFINE Goal ==
         /\ pc'[w] \in Holding => pc[w] \in Holding \/ pc[w] = "start"
         /\ pc'[w] = "start" => live' = {}
         /\ \A v \in live' : v \in live \/ v = w
         /\ w \in live' /\ w \notin live => pc[w] = "start"
         /\ w \in live' => pc'[w] \in Holding
         /\ w \in live /\ w \notin live' => pc'[w] # pc[w]
         /\ live' = live \/ pc[w] \in Holding \cup {"start", "maintain"} \/ job[w] \in DoCommands
<1>0. /\ pc \in [Levels -> Places] /\ 0 \in Levels
      /\ w \in live => pc[w] \in Holding
  BY BusAssumption DEF TypeOK, OneTransfer, Holding
<1>DoExecute. DoExecute(w) => Goal
  BY <1>0 DEF DoExecute, Call, At, Goto, bus, Holding, TransferPlaces
<1>AiSet. AiSet(w) => Goal
  BY <1>0 DEF AiSet, Call, At, Goto, bus, Holding, TransferPlaces
<1>AiQuerry. AiQuerry(w) => Goal
  BY <1>0 DEF AiQuerry, Call, At, Goto, bus, Holding, TransferPlaces
<1>FillType. FillType(w) => Goal
  BY <1>0 DEF FillType, At, Goto, bus, Holding, TransferPlaces
<1>FillSeq. FillSeq(w) => Goal
  BY <1>0 DEF FillSeq, At, Goto, bus, Holding, TransferPlaces
<1>CheckFree. CheckFree(w) => Goal
  BY <1>0 DEF CheckFree, Goto, Check_i2c_State, bus, Holding, TransferPlaces
<1>CheckBusy. CheckBusy(w) => Goal
  BY <1>0 DEF CheckBusy, Goto, Return, I2CHW_Reset, bus, Holding, TransferPlaces
<1>Start. Start(w) => Goal
  BY <1>0 DEF Start, At, Goto, bus, Holding, TransferPlaces
<1>SendType. SendType(w) => Goal
  BY <1>0 DEF SendType, At, Goto, bus, Holding, TransferPlaces
<1>SendSeq. SendSeq(w) => Goal
  BY <1>0 DEF SendSeq, At, Goto, bus, Holding, TransferPlaces
<1>Sent. Sent(w) => Goal
  BY <1>0 DEF Sent, At, Goto, Return, bus, Holding, TransferPlaces
<1>TimesOut. TimesOut(w) => Goal
  BY <1>0 DEF TimesOut, Goto, bus, Holding, TransferPlaces
<1>Recover. Recover(w) => Goal
  BY <1>0 DEF Recover, At, Goto, Return, I2CHW_Reset, bus, Holding, TransferPlaces
<1>QueryBusy. QueryBusy(w) => Goal
  BY <1>0 DEF QueryBusy, At, Goto, Return, bus, Holding, TransferPlaces
<1>QueryDecision. QueryDecision(w) => Goal
  BY <1>0 DEF QueryDecision, At, Goto, Check_i2c_State, bus, Holding, TransferPlaces
<1>QuerySkipped. QuerySkipped(w) => Goal
  BY <1>0 DEF QuerySkipped, At, Goto, Return, bus, Holding, TransferPlaces
<1>ReceiveHead. ReceiveHead(w) => Goal
  BY <1>0 DEF ReceiveHead, At, Goto, bus, Holding, TransferPlaces
<1>ReceiveRest. ReceiveRest(w) => Goal
  BY <1>0 DEF ReceiveRest, At, Goto, bus, Holding, TransferPlaces
<1>VerifyAccepts. VerifyAccepts(w) => Goal
  BY <1>0 DEF VerifyAccepts, At, Goto, bus, Holding, TransferPlaces
<1>VerifyRejects. VerifyRejects(w) => Goal
  BY <1>0 DEF VerifyRejects, At, Goto, Return, bus, Holding, TransferPlaces
<1>AiProcess. AiProcess(w) => Goal
  BY <1>0 DEF AiProcess, At, Goto, Return, bus, Holding, TransferPlaces
<1>QueryFailed. QueryFailed(w) => Goal
  BY <1>0 DEF QueryFailed, At, Goto, bus, Holding, TransferPlaces
<1>CountFailure. CountFailure(w) => Goal
  BY <1>0 DEF CountFailure, At, Goto, bus, Holding, TransferPlaces
<1>maintain. w = 0 /\ (MaintainLooks \/ MaintainResets) => Goal
  BY <1>0 DEF MaintainLooks, MaintainResets, At, Goto, I2CHW_Reset, bus, Holding, TransferPlaces
<1> QED
  BY <1>DoExecute, <1>AiSet, <1>AiQuerry, <1>FillType, <1>FillSeq, <1>CheckFree, <1>CheckBusy, <1>Start,
     <1>SendType, <1>SendSeq, <1>Sent, <1>TimesOut, <1>Recover, <1>QueryBusy, <1>QueryDecision, <1>QuerySkipped,
     <1>ReceiveHead, <1>ReceiveRest, <1>VerifyAccepts, <1>VerifyRejects, <1>AiProcess, <1>QueryFailed, <1>CountFailure, <1>maintain
  DEF Acts, Operation, Step

(* A command is a pair, so it is what its two components are. *)
LEMMA Pairs ==
  /\ \A f \in Frames \cup Commands : f = <<f[1], f[2]>>
  /\ \A command \in Commands : command # Query /\ command # Nothing
BY DEF Frames, Commands, DoCommands, AiCommands, Query, Nothing, DO_EXE

(* Left alone, a level fills TxBuffer with its command and sends it.       *)
LEMMA Filling ==
  ASSUME TypeOK, NEW w \in Levels, Acts(w), Exact(w)
  PROVE  Exact(w)'
<1>0. /\ pc \in [Levels -> Places] /\ wire \in [Levels -> Frames] /\ TxBuffer \in Frames
      /\ job \in [Levels -> Commands \cup {Query, Nothing}] /\ 0 \in Levels
      /\ pc[w] \in QueryPlaces => job[w] = Query
  BY BusAssumption DEF TypeOK
<1>DoExecute. DoExecute(w) => Exact(w)'
  BY <1>0, Pairs DEF DoExecute, Call, At, Goto, Exact, QueryPlaces, buffers
<1>AiSet. AiSet(w) => Exact(w)'
  BY <1>0, Pairs DEF AiSet, Call, At, Goto, Exact, QueryPlaces
<1>AiQuerry. AiQuerry(w) => Exact(w)'
  BY <1>0, Pairs DEF AiQuerry, Call, At, Goto, Exact, QueryPlaces
<1>FillType. FillType(w) => Exact(w)'
  BY <1>0, Pairs DEF FillType, At, Goto, Exact, QueryPlaces
<1>FillSeq. FillSeq(w) => Exact(w)'
  BY <1>0, Pairs DEF FillSeq, At, Goto, WithSeq, Exact, QueryPlaces
<1>CheckFree. CheckFree(w) => Exact(w)'
  BY <1>0, Pairs DEF CheckFree, Goto, Exact, QueryPlaces, buffers
<1>CheckBusy. CheckBusy(w) => Exact(w)'
  BY <1>0, Pairs DEF CheckBusy, Goto, Return, Exact, QueryPlaces, buffers
<1>Start. Start(w) => Exact(w)'
  BY <1>0, Pairs DEF Start, At, Goto, Exact, QueryPlaces, buffers
<1>SendType. SendType(w) => Exact(w)'
  BY <1>0, Pairs DEF SendType, At, Goto, Exact, QueryPlaces, buffers
<1>SendSeq. SendSeq(w) => Exact(w)'
  BY <1>0, Pairs DEF SendSeq, At, Goto, Exact, QueryPlaces, buffers
<1>Sent. Sent(w) => Exact(w)'
  BY <1>0, Pairs DEF Sent, At, Goto, Return, Exact, QueryPlaces, buffers
<1>TimesOut. TimesOut(w) => Exact(w)'
  BY <1>0, Pairs DEF TimesOut, Goto, TransferPlaces, Exact, QueryPlaces, buffers
<1>Recover. Recover(w) => Exact(w)'
  BY <1>0, Pairs DEF Recover, At, Goto, Return, Exact, QueryPlaces, buffers
<1>QueryBusy. QueryBusy(w) => Exact(w)'
  BY <1>0, Pairs DEF QueryBusy, At, Goto, Return, Exact, QueryPlaces, buffers
<1>QueryDecision. QueryDecision(w) => Exact(w)'
  BY <1>0, Pairs DEF QueryDecision, At, Goto, Exact, QueryPlaces, buffers
<1>QuerySkipped. QuerySkipped(w) => Exact(w)'
  BY <1>0, Pairs DEF QuerySkipped, At, Goto, Return, Exact, QueryPlaces, buffers
<1>ReceiveHead. ReceiveHead(w) => Exact(w)'
  BY <1>0, Pairs DEF ReceiveHead, At, Goto, Exact, QueryPlaces
<1>ReceiveRest. ReceiveRest(w) => Exact(w)'
  BY <1>0, Pairs DEF ReceiveRest, At, Goto, Exact, QueryPlaces
<1>VerifyAccepts. VerifyAccepts(w) => Exact(w)'
  BY <1>0, Pairs DEF VerifyAccepts, At, Goto, Exact, QueryPlaces, buffers
<1>VerifyRejects. VerifyRejects(w) => Exact(w)'
  BY <1>0, Pairs DEF VerifyRejects, At, Goto, Return, Exact, QueryPlaces, buffers
<1>AiProcess. AiProcess(w) => Exact(w)'
  BY <1>0, Pairs DEF AiProcess, At, Goto, Return, Exact, QueryPlaces
<1>QueryFailed. QueryFailed(w) => Exact(w)'
  BY <1>0, Pairs DEF QueryFailed, At, Goto, Exact, QueryPlaces, buffers
<1>CountFailure. CountFailure(w) => Exact(w)'
  BY <1>0, Pairs DEF CountFailure, At, Goto, Exact, QueryPlaces, buffers
<1>maintain. w = 0 /\ (MaintainLooks \/ MaintainResets) => Exact(w)'
  BY <1>0 DEF MaintainLooks, MaintainResets, At, Goto, Exact, buffers
<1> QED
  BY <1>DoExecute, <1>AiSet, <1>AiQuerry, <1>FillType, <1>FillSeq, <1>CheckFree, <1>CheckBusy, <1>Start,
     <1>SendType, <1>SendSeq, <1>Sent, <1>TimesOut, <1>Recover, <1>QueryBusy, <1>QueryDecision, <1>QuerySkipped,
     <1>ReceiveHead, <1>ReceiveRest, <1>VerifyAccepts, <1>VerifyRejects, <1>AiProcess, <1>QueryFailed, <1>CountFailure, <1>maintain
  DEF Acts, Operation, Step

(* A level comes to "copy" with a frame that passed the checks.            *)
LEMMA Copying ==
  ASSUME TypeOK, NEW w \in Levels, Acts(w), pc'[w] = "copy"
  PROVE  RxBuffer' = "good"
<1> DEFINE Goal == pc'[w] = "copy" => RxBuffer' = "good"
<1>0. pc \in [Levels -> Places] /\ 0 \in Levels
  BY BusAssumption DEF TypeOK
<1>DoExecute. DoExecute(w) => Goal
  BY <1>0 DEF DoExecute, Call, Goto
<1>AiSet. AiSet(w) => Goal
  BY <1>0 DEF AiSet, Call, Goto
<1>AiQuerry. AiQuerry(w) => Goal
  BY <1>0 DEF AiQuerry, Call, Goto
<1>FillType. FillType(w) => Goal
  BY <1>0 DEF FillType, Goto
<1>FillSeq. FillSeq(w) => Goal
  BY <1>0 DEF FillSeq, Goto
<1>CheckFree. CheckFree(w) => Goal
  BY <1>0 DEF CheckFree, Goto
<1>CheckBusy. CheckBusy(w) => Goal
  BY <1>0 DEF CheckBusy, Return, Goto
<1>Start. Start(w) => Goal
  BY <1>0 DEF Start, Goto
<1>SendType. SendType(w) => Goal
  BY <1>0 DEF SendType, Goto
<1>SendSeq. SendSeq(w) => Goal
  BY <1>0 DEF SendSeq, Goto
<1>Sent. Sent(w) => Goal
  BY <1>0 DEF Sent, Return, Goto
<1>TimesOut. TimesOut(w) => Goal
  BY <1>0 DEF TimesOut, Goto
<1>Recover. Recover(w) => Goal
  BY <1>0 DEF Recover, Return, Goto
<1>QueryBusy. QueryBusy(w) => Goal
  BY <1>0 DEF QueryBusy, Return, Goto
<1>QueryDecision. QueryDecision(w) => Goal
  BY <1>0 DEF QueryDecision, Goto
<1>QuerySkipped. QuerySkipped(w) => Goal
  BY <1>0 DEF QuerySkipped, Return, Goto
<1>ReceiveHead. ReceiveHead(w) => Goal
  BY <1>0 DEF ReceiveHead, Goto
<1>ReceiveRest. ReceiveRest(w) => Goal
  BY <1>0 DEF ReceiveRest, Goto
<1>VerifyAccepts. VerifyAccepts(w) => Goal
  BY <1>0 DEF VerifyAccepts, Goto, FrameChecked, buffers
<1>VerifyRejects. VerifyRejects(w) => Goal
  BY <1>0 DEF VerifyRejects, Return, Goto
<1>AiProcess. AiProcess(w) => Goal
  BY <1>0 DEF AiProcess, Return, Goto
<1>QueryFailed. QueryFailed(w) => Goal
  BY <1>0 DEF QueryFailed, Goto
<1>CountFailure. CountFailure(w) => Goal
  BY <1>0 DEF CountFailure, Goto
<1>maintain. w = 0 /\ (MaintainLooks \/ MaintainResets) => Goal
  BY <1>0 DEF MaintainLooks, MaintainResets, Goto
<1> QED
  BY <1>DoExecute, <1>AiSet, <1>AiQuerry, <1>FillType, <1>FillSeq, <1>CheckFree, <1>CheckBusy, <1>Start,
     <1>SendType, <1>SendSeq, <1>Sent, <1>TimesOut, <1>Recover, <1>QueryBusy, <1>QueryDecision, <1>QuerySkipped,
     <1>ReceiveHead, <1>ReceiveRest, <1>VerifyAccepts, <1>VerifyRejects, <1>AiProcess, <1>QueryFailed, <1>CountFailure, <1>maintain
  DEF Acts, Operation, Step

(* Any other level has been preempted, or does nothing. *)
LEMMA Alone ==
  ASSUME TypeOK, Preemptions, NEW w \in Levels, Acts(w), NEW v \in Levels \ {w}, v \notin preempted'
  PROVE  pc'[v] = "idle"
BY Others, BusAssumption DEF Running, Preemptions

(* The inductive invariant holds in every reachable state. *)
THEOREM Invariance == Spec => []IInv
<1>1. Init => IInv
  BY InitTyped DEF Init, IInv, OneTransfer, Precedence, Preemptions, Exactness, Exact, Genuineness, Holding, TransferPlaces
<1>2. TypeOK /\ TypeOK' /\ IInv /\ [Next]_vars => IInv'
  <2> SUFFICES ASSUME TypeOK, TypeOK', IInv, [Next]_vars PROVE IInv'
    OBVIOUS
  <2> Levels \subseteq 0..2 /\ live \subseteq Levels /\ live' \subseteq Levels
    BY BusAssumption DEF TypeOK
  <2>1. ASSUME NEW w \in Levels, Acts(w) PROVE IInv'
    <3> USE <2>1 DEF IInv
    <3>1. OneTransfer'
      <4>1. ASSUME NEW v \in live' PROVE pc'[v] \in Holding
        BY <4>1, Others, OnBus DEF OneTransfer, Holding
      <4>2. ASSUME NEW u \in live', NEW v \in live', u # v PROVE FALSE
        <5>1. CASE u \in live /\ v \in live
          BY <4>2, <5>1 DEF OneTransfer
        <5>2. CASE w \notin live /\ w \in live'
          <6>1. \A x \in live : x > w /\ pc[x] # "idle"
            BY <5>2, OnBus DEF OneTransfer, TransferPlaces, Precedence
          <6>2. live = {}
            BY <6>1, Others DEF Running
          <6> QED
            BY <4>2, <6>2, OnBus
        <5> QED
          BY <4>2, <5>1, <5>2, OnBus
      <4> QED
        BY <4>1, <4>2 DEF OneTransfer, Holding
    <3>2. Precedence'
      BY Others, OnBus DEF OneTransfer, Precedence, Holding, TransferPlaces, Running
    <3>3. Preemptions'
      BY Others DEF Preemptions, Running
    <3>4. Exactness'
      <4>1. ASSUME NEW v \in Levels \ {w}, v \notin preempted' PROVE Exact(v)'
        BY <4>1, Alone DEF Exact
      <4>2. ASSUME w \notin preempted' PROVE Exact(w)'
        <5>1. CASE w \in preempted
          BY <4>2, <5>1, Others DEF Exact
        <5>2. CASE w \notin preempted
          BY <5>2, Filling DEF Exactness
        <5> QED
          BY <5>1, <5>2
      <4> QED
        BY <4>1, <4>2 DEF Exactness
    <3>5. Genuineness'
      <4>1. ASSUME NEW v \in Levels \ {w}, v \notin preempted' PROVE pc'[v] # "copy"
        BY <4>1, Alone
      <4>2. ASSUME w \notin preempted', pc'[w] = "copy" PROVE RxBuffer' = "good"
        BY <4>2, Copying
      <4> QED
        BY <4>1, <4>2 DEF Genuineness
    <3> QED
      BY <3>1, <3>2, <3>3, <3>4, <3>5
  <2>2. CASE BusSticks \/ UNCHANGED vars
    BY <2>2 DEF IInv, BusSticks, vars, buffers, counters, bus, control, OneTransfer, Precedence, Preemptions,
       Exactness, Exact, Genuineness
  <2> QED
    BY <2>1, <2>2, Actors
<1> QED
  BY <1>1, <1>2, TypeCorrect, PTL DEF Spec

(* Nobody starts a transfer into another or leaves one behind. *)
THEOREM OneTransferAlways == Spec => []OneTransfer
BY Invariance, PTL DEF IInv

(* Only an output command above it ends another level's transfer. *)
THEOREM OutputsComeFirst == Spec => OnlyOutputsAbort
<1>1. IInv /\ [Next]_vars => [\A w \in live \ live' :
        pc'[w] # pc[w] \/ \E v \in Levels : v > w /\ job[v] \in DoCommands]_vars
  <2> SUFFICES ASSUME IInv, [Next]_vars, NEW w \in live \ live', pc'[w] = pc[w]
               PROVE  \E v \in Levels : v > w /\ job[v] \in DoCommands
    OBVIOUS
  <2>0. TypeOK /\ OneTransfer /\ Precedence /\ Levels \subseteq 0..2 /\ w \in Levels
    BY BusAssumption DEF IInv, TypeOK
  <2>1. PICK v \in Levels : Acts(v)
    <3>1. live' # live
      OBVIOUS
    <3>2. ~BusSticks /\ ~UNCHANGED vars
      BY <3>1 DEF BusSticks, vars, bus
    <3> QED
      BY <3>2, Actors
  <2>2. w # v /\ Running(v)
    BY <2>0, <2>1, OnBus, Others
  <2>3. pc[w] # "idle" /\ w < v
    BY <2>0, <2>2 DEF OneTransfer, TransferPlaces, Running
  <2>4. pc[v] \notin Holding \cup {"start", "maintain"}
    BY <2>0, <2>3 DEF Precedence, TypeOK
  <2> QED
    BY <2>0, <2>1, <2>3, <2>4, OnBus
<1> QED
  BY <1>1, Invariance, PTL DEF Spec, OnlyOutputsAbort

(* A command reported as executed was sent as asked for, or preempted. *)
THEOREM SentAsAsked == Spec => ExactUnlessPreempted
<1>1. IInv => (\A w \in Levels : Sent(w) => wire[w] = job[w] \/ w \in preempted)
  BY DEF IInv, TypeOK, WritePlaces, Exactness, Exact, Sent, At
<1> QED
  BY <1>1, Invariance, PTL DEF Spec, ExactUnlessPreempted

(* The measured values come from a frame that passed the checks, or the    *)
(* copying was preempted.                                                  *)
THEOREM MeasuredValues == Spec => GenuineUnlessPreempted
<1>1. IInv => (\A w \in Levels : AiProcess(w) => I2C_MeasureTab' = "genuine" \/ w \in preempted)
  BY DEF IInv, Genuineness, AiProcess, At
<1> QED
  BY <1>1, Invariance, PTL DEF Spec, GenuineUnlessPreempted

-----------------------------------------------------------------------------
(* error_count is one byte that every level's AiQuerry increments in two   *)
(* steps.                                                                  *)
Loads(w) == pc[w] \in {"skip", "count"} => loaded[w] = error_count

Counting == \A w \in Levels \ preempted : Loads(w)

LEMMA Loading ==
  ASSUME TypeOK, NEW w \in Levels, Acts(w), Loads(w)
  PROVE  Loads(w)'
<1>0. /\ pc \in [Levels -> Places] /\ loaded \in [Levels -> 0 .. Byte - 1] /\ 0 \in Levels
  BY BusAssumption DEF TypeOK
<1>DoExecute. DoExecute(w) => Loads(w)'
  BY <1>0 DEF DoExecute, Loads, At, Goto, counters, Call
<1>AiSet. AiSet(w) => Loads(w)'
  BY <1>0 DEF AiSet, Loads, At, Goto, counters, Call
<1>AiQuerry. AiQuerry(w) => Loads(w)'
  BY <1>0 DEF AiQuerry, Loads, At, Goto, counters, Call
<1>FillType. FillType(w) => Loads(w)'
  BY <1>0 DEF FillType, Loads, At, Goto, counters
<1>FillSeq. FillSeq(w) => Loads(w)'
  BY <1>0 DEF FillSeq, Loads, At, Goto, counters
<1>CheckFree. CheckFree(w) => Loads(w)'
  BY <1>0 DEF CheckFree, Loads, At, Goto, counters
<1>CheckBusy. CheckBusy(w) => Loads(w)'
  BY <1>0 DEF CheckBusy, Loads, At, Goto, counters, Return
<1>Start. Start(w) => Loads(w)'
  BY <1>0 DEF Start, Loads, At, Goto, counters
<1>SendType. SendType(w) => Loads(w)'
  BY <1>0 DEF SendType, Loads, At, Goto, counters
<1>SendSeq. SendSeq(w) => Loads(w)'
  BY <1>0 DEF SendSeq, Loads, At, Goto, counters
<1>Sent. Sent(w) => Loads(w)'
  BY <1>0 DEF Sent, Loads, At, Goto, counters, Return
<1>TimesOut. TimesOut(w) => Loads(w)'
  BY <1>0 DEF TimesOut, Loads, At, Goto, counters, TransferPlaces
<1>Recover. Recover(w) => Loads(w)'
  BY <1>0 DEF Recover, Loads, At, Goto, counters, Return
<1>QueryBusy. QueryBusy(w) => Loads(w)'
  BY <1>0 DEF QueryBusy, Loads, At, Goto, counters, Return
<1>QueryDecision. QueryDecision(w) => Loads(w)'
  BY <1>0 DEF QueryDecision, Loads, At, Goto, counters
<1>QuerySkipped. QuerySkipped(w) => Loads(w)'
  BY <1>0 DEF QuerySkipped, Loads, At, Goto, counters, Return
<1>ReceiveHead. ReceiveHead(w) => Loads(w)'
  BY <1>0 DEF ReceiveHead, Loads, At, Goto, counters
<1>ReceiveRest. ReceiveRest(w) => Loads(w)'
  BY <1>0 DEF ReceiveRest, Loads, At, Goto, counters
<1>VerifyAccepts. VerifyAccepts(w) => Loads(w)'
  BY <1>0 DEF VerifyAccepts, Loads, At, Goto, counters
<1>VerifyRejects. VerifyRejects(w) => Loads(w)'
  BY <1>0 DEF VerifyRejects, Loads, At, Goto, counters, Return
<1>AiProcess. AiProcess(w) => Loads(w)'
  BY <1>0 DEF AiProcess, Loads, At, Goto, counters, Return
<1>QueryFailed. QueryFailed(w) => Loads(w)'
  BY <1>0 DEF QueryFailed, Loads, At, Goto, counters
<1>CountFailure. CountFailure(w) => Loads(w)'
  BY <1>0 DEF CountFailure, Loads, At, Goto, counters
<1>maintain. w = 0 /\ (MaintainLooks \/ MaintainResets) => Loads(w)'
  BY <1>0 DEF MaintainLooks, MaintainResets, Loads, At, Goto
<1> QED
  BY <1>DoExecute, <1>AiSet, <1>AiQuerry, <1>FillType, <1>FillSeq, <1>CheckFree, <1>CheckBusy, <1>Start,
     <1>SendType, <1>SendSeq, <1>Sent, <1>TimesOut, <1>Recover, <1>QueryBusy, <1>QueryDecision, <1>QuerySkipped,
     <1>ReceiveHead, <1>ReceiveRest, <1>VerifyAccepts, <1>VerifyRejects, <1>AiProcess, <1>QueryFailed, <1>CountFailure, <1>maintain
  DEF Acts, Operation, Step

LEMMA CountingAlways == Spec => []Counting
<1>1. Init => Counting
  BY DEF Init, Counting, Loads
<1>2. TypeOK /\ Preemptions /\ Counting /\ [Next]_vars => Counting'
  <2> SUFFICES ASSUME TypeOK, Preemptions, Counting, [Next]_vars PROVE Counting'
    OBVIOUS
  <2>1. ASSUME NEW w \in Levels, Acts(w) PROVE Counting'
    <3>1. ASSUME NEW v \in Levels \ {w}, v \notin preempted' PROVE Loads(v)'
      BY <2>1, <3>1, Alone DEF Loads
    <3>2. ASSUME w \notin preempted' PROVE Loads(w)'
      <4>1. CASE w \in preempted
        BY <2>1, <3>2, <4>1, Others DEF Loads
      <4>2. CASE w \notin preempted
        BY <2>1, <4>2, Loading DEF Counting
      <4> QED
        BY <4>1, <4>2
    <3> QED
      BY <3>1, <3>2 DEF Counting
  <2>2. CASE BusSticks \/ UNCHANGED vars
    BY <2>2 DEF BusSticks, vars, counters, control, Counting, Loads
  <2> QED
    BY <2>1, <2>2, Actors
<1> QED
  BY <1>1, <1>2, Invariance, PTL DEF Spec, IInv

(* A failure is missing from error_count only if a bus operation of a      *)
(* higher level came between AiQuerry's reading of it and its writing.     *)
CountedUnlessPreempted ==
  [][\A w \in Levels : QuerySkipped(w) \/ CountFailure(w) =>
       error_count' = Incremented(error_count) \/ w \in preempted]_vars

THEOREM FailuresCounted == Spec => CountedUnlessPreempted
<1>1. Counting => \A w \in Levels : QuerySkipped(w) \/ CountFailure(w) =>
                    error_count' = Incremented(error_count) \/ w \in preempted
  BY DEF Counting, Loads, QuerySkipped, CountFailure, At
<1> QED
  BY <1>1, CountingAlways, PTL DEF Spec, CountedUnlessPreempted

(* Where only the main loop uses the bus nobody is preempted, and Success  *)
(* means what the shells take it for.                                      *)
THEOREM SuccessWithoutShells == Spec /\ Levels = {0} => SuccessMeansExecuted
<1> SUFFICES ASSUME Levels = {0} PROVE Spec => SuccessMeansExecuted
  OBVIOUS
<1> DEFINE Nobody == preempted = {}
<1>1. Init => Nobody
  BY DEF Init
<1>2. TypeOK /\ Nobody /\ [Next]_vars => Nobody'
  <2> SUFFICES ASSUME TypeOK, preempted = {}, Next PROVE preempted' = {}
    BY DEF vars, control
  <2>1. ASSUME NEW w \in Levels, Operation(w) PROVE preempted' = {}
    BY <2>1, BusAssumption DEF Operation, Step, DoExecute, AiSet, AiQuerry, FillType, FillSeq, CheckFree, CheckBusy, Start,
         SendType, SendSeq, Sent, TimesOut, Recover, QueryBusy, QueryDecision, QuerySkipped,
         ReceiveHead, ReceiveRest, VerifyAccepts, VerifyRejects, AiProcess, QueryFailed, CountFailure, Call, Return, control
  <2> QED
    BY <2>1 DEF Next, MaintainLooks, MaintainResets, BusSticks, control
<1> HIDE DEF Nobody
<1>3. Spec => []Nobody
  BY <1>1, <1>2, TypeCorrect, PTL DEF Spec
<1>4. Nobody /\ (\A w \in Levels : Sent(w) => wire[w] = job[w] \/ w \in preempted)
      => \A w \in Levels : Sent(w) /\ job[w] \in DoCommands => wire[w] = job[w]
  BY DEF Nobody
<1> QED
  BY <1>3, <1>4, SentAsAsked, PTL DEF ExactUnlessPreempted, SuccessMeansExecuted

-----------------------------------------------------------------------------
(* What must happen at last: the requests and the resets go on.  Fairness  *)
(* speaks of the actions that are enabled, which TLAPS cannot decide;      *)
(* Unblocked says where they are, as their guards have it.  It is an       *)
(* invariant of the run's instance.                                        *)
Resting == {"idle", "maintain"}
CanStep(w) == ENABLED <<Step(w)>>_vars

Unblocked ==
  /\ \A w \in Levels : Running(w) /\ pc[w] \notin Resting => CanStep(w)
  /\ At(0, "idle") => ENABLED <<AiQuerry(0)>>_vars
  /\ At(0, "maintain") => ENABLED <<MaintainLooks \/ MaintainResets>>_vars
  /\ At(0, "maintain") /\ TooBusy(Looked(BusBusyCounter)) =>
       ENABLED <<MaintainResets /\ ~stuck'>>_vars

(* How many steps an operation has before it at most. *)
Left(place) ==
  CASE place \in Resting -> 0
    [] place \in {"recover", "skip", "copy"} -> 1
    [] place \in {"count", "verify", "sent"} -> 2
    [] place \in {"failed", "byte3"} -> 3
    [] place \in {"rest", "byte2"} -> 4
    [] place = "head" -> 5
    [] place = "start" -> 6
    [] place \in {"again", "ask"} -> 7
    [] place = "check" -> 8
    [] place = "seq" -> 9
    [] place = "type" -> 10

LEMMA LeftOf ==
  /\ Left("idle") = 0 /\ Left("maintain") = 0
  /\ Left("recover") = 1 /\ Left("skip") = 1 /\ Left("copy") = 1
  /\ Left("count") = 2 /\ Left("verify") = 2 /\ Left("sent") = 2
  /\ Left("failed") = 3 /\ Left("byte3") = 3
  /\ Left("rest") = 4 /\ Left("byte2") = 4
  /\ Left("head") = 5 /\ Left("start") = 6
  /\ Left("again") = 7 /\ Left("ask") = 7
  /\ Left("check") = 8 /\ Left("seq") = 9 /\ Left("type") = 10
BY DEF Left, Resting

(* From place to place. *)
Leads(place, next, asks) ==
  \/ place = "type" /\ next = "seq"
  \/ place = "seq" /\ next = "check"
  \/ place = "check" /\ next \in {"again", "start"} \cup Resting
  \/ place = "again" /\ next \in {"start"} \cup Resting
  \/ place = "start" /\ next = IF asks THEN "head" ELSE "byte2"
  \/ place = "byte2" /\ next \in {"byte3", "recover"}
  \/ place = "byte3" /\ next \in {"sent", "recover"}
  \/ place = "sent" /\ next \in {"recover"} \cup Resting
  \/ place = "ask" /\ next \in {"skip", "start"} \cup Resting
  \/ place = "head" /\ next \in {"rest", "failed"}
  \/ place = "rest" /\ next \in {"verify", "failed"}
  \/ place = "verify" /\ next \in {"copy"} \cup Resting
  \/ place = "failed" /\ next = "count"
  \/ place = "count" /\ next = "recover"
  \/ place \in {"skip", "copy", "recover"} /\ next \in Resting

LEMMA Nearer ==
  ASSUME NEW place, NEW next, NEW asks \in BOOLEAN, Leads(place, next, asks)
  PROVE  Left(place) \in 1 .. 10 /\ Left(next) \in 0 .. Left(place) - 1
BY LeftOf DEF Leads, Resting

LEMMA Rests ==
  ASSUME NEW place \in Places
  PROVE  Left(place) \in 0 .. 10 /\ (Left(place) = 0 <=> place \in Resting)
BY LeftOf DEF Places, QueryPlaces, WritePlaces, Resting

LEMMA Courses ==
  ASSUME TypeOK, NEW w \in Levels, Step(w)
  PROVE  /\ Leads(pc[w], pc'[w], job[w] = Query)
         /\ Running(w) /\ Running(w)'
<1>0. /\ pc \in [Levels -> Places] /\ 0 \in Levels /\ Levels \subseteq 0 .. 2
      /\ pc[w] \in QueryPlaces => job[w] = Query
      /\ pc[w] \in WritePlaces => job[w] # Query
  BY BusAssumption, Pairs DEF TypeOK
<1>1. Running(w) /\ Running(w)'
  BY <1>0, Others DEF Acts, Operation, Running
<1> DEFINE Goal == Leads(pc[w], pc'[w], job[w] = Query)
<1>FillType. FillType(w) => Goal
  BY <1>0 DEF FillType, Leads, Resting, Goto, At, QueryPlaces, WritePlaces
<1>FillSeq. FillSeq(w) => Goal
  BY <1>0 DEF FillSeq, Leads, Resting, Goto, At, QueryPlaces, WritePlaces
<1>CheckFree. CheckFree(w) => Goal
  BY <1>0 DEF CheckFree, Leads, Resting, Goto, At, QueryPlaces, WritePlaces
<1>CheckBusy. CheckBusy(w) => Goal
  BY <1>0 DEF CheckBusy, Leads, Resting, Goto, At, QueryPlaces, WritePlaces, Return
<1>Start. Start(w) => Goal
  BY <1>0 DEF Start, Leads, Resting, Goto, At, QueryPlaces, WritePlaces
<1>SendType. SendType(w) => Goal
  BY <1>0 DEF SendType, Leads, Resting, Goto, At, QueryPlaces, WritePlaces
<1>SendSeq. SendSeq(w) => Goal
  BY <1>0 DEF SendSeq, Leads, Resting, Goto, At, QueryPlaces, WritePlaces
<1>Sent. Sent(w) => Goal
  BY <1>0 DEF Sent, Leads, Resting, Goto, At, QueryPlaces, WritePlaces, Return
<1>TimesOut. TimesOut(w) => Goal
  BY <1>0 DEF TimesOut, Leads, Resting, Goto, At, QueryPlaces, WritePlaces, TransferPlaces
<1>Recover. Recover(w) => Goal
  BY <1>0 DEF Recover, Leads, Resting, Goto, At, QueryPlaces, WritePlaces, Return
<1>QueryBusy. QueryBusy(w) => Goal
  BY <1>0 DEF QueryBusy, Leads, Resting, Goto, At, QueryPlaces, WritePlaces, Return
<1>QueryDecision. QueryDecision(w) => Goal
  BY <1>0 DEF QueryDecision, Leads, Resting, Goto, At, QueryPlaces, WritePlaces
<1>QuerySkipped. QuerySkipped(w) => Goal
  BY <1>0 DEF QuerySkipped, Leads, Resting, Goto, At, QueryPlaces, WritePlaces, Return
<1>ReceiveHead. ReceiveHead(w) => Goal
  BY <1>0 DEF ReceiveHead, Leads, Resting, Goto, At, QueryPlaces, WritePlaces
<1>ReceiveRest. ReceiveRest(w) => Goal
  BY <1>0 DEF ReceiveRest, Leads, Resting, Goto, At, QueryPlaces, WritePlaces
<1>VerifyAccepts. VerifyAccepts(w) => Goal
  BY <1>0 DEF VerifyAccepts, Leads, Resting, Goto, At, QueryPlaces, WritePlaces
<1>VerifyRejects. VerifyRejects(w) => Goal
  BY <1>0 DEF VerifyRejects, Leads, Resting, Goto, At, QueryPlaces, WritePlaces, Return
<1>AiProcess. AiProcess(w) => Goal
  BY <1>0 DEF AiProcess, Leads, Resting, Goto, At, QueryPlaces, WritePlaces, Return
<1>QueryFailed. QueryFailed(w) => Goal
  BY <1>0 DEF QueryFailed, Leads, Resting, Goto, At, QueryPlaces, WritePlaces
<1>CountFailure. CountFailure(w) => Goal
  BY <1>0 DEF CountFailure, Leads, Resting, Goto, At, QueryPlaces, WritePlaces
<1> QED
  BY <1>1,
     <1>FillType, <1>FillSeq, <1>CheckFree, <1>CheckBusy, <1>Start, <1>SendType, <1>SendSeq,
     <1>Sent, <1>TimesOut, <1>Recover, <1>QueryBusy, <1>QueryDecision, <1>QuerySkipped, <1>ReceiveHead,
     <1>ReceiveRest, <1>VerifyAccepts, <1>VerifyRejects, <1>AiProcess, <1>QueryFailed, <1>CountFailure DEF Step

(* Nothing but its own steps moves a level that is in an operation, and    *)
(* nothing but an operation of its own a level that may not run.           *)
LEMMA Stays ==
  ASSUME TypeOK, [Next]_vars, NEW w \in Levels,
         \/ pc[w] \notin Resting /\ (~Step(w) \/ UNCHANGED vars)
         \/ ~Running(w)
  PROVE  pc'[w] = pc[w] /\ job'[w] = job[w]
<1>1. CASE BusSticks \/ UNCHANGED vars
  BY <1>1 DEF BusSticks, control, vars
<1>2. ASSUME NEW v \in Levels, Acts(v), v # w PROVE pc'[w] = pc[w] /\ job'[w] = job[w]
  BY <1>2, Others
<1>3. ASSUME Acts(w) PROVE UNCHANGED vars
  <2>1. Running(w)
    BY <1>3, Others
  <2>2. CASE UNCHANGED vars
    BY <2>2
  <2>3. CASE pc[w] \notin Resting /\ ~Step(w)
    BY <1>3, <2>3 DEF Acts, Operation, DoExecute, AiSet, AiQuerry, Call, MaintainLooks, MaintainResets,
       At, Resting
  <2> QED BY <2>1, <2>2, <2>3
<1> QED BY <1>1, <1>2, <1>3, Actors

Rested(w) == Running(w) /\ pc[w] \in Resting
RunsAgain(w) == []<>Running(w)
RestsAgain(w) == []<>Rested(w)

(* A level that may run again and again comes to the end of its operation, *)
(* and then still may.                                                     *)
LEMMA OperationsEnd ==
  ASSUME NEW w \in Levels
  PROVE  [][Next]_vars /\ []IInv /\ []Unblocked /\ StepContinues(w) /\ RunsAgain(w) => RestsAgain(w)
<1> DEFINE Within(n) == Left(pc[w]) <= n
           AtRest == pc[w] \in Resting
           Runs == Running(w)
<1>1. IInv => Within(10) /\ (Within(0) <=> AtRest)
  BY Rests DEF IInv, TypeOK
<1>2. ASSUME IInv, [Next]_vars, ~AtRest, ~Step(w) \/ UNCHANGED vars
      PROVE  /\ Within(1) => Within(1)'
             /\ Within(2) => Within(2)'
             /\ Within(3) => Within(3)'
             /\ Within(4) => Within(4)'
             /\ Within(5) => Within(5)'
             /\ Within(6) => Within(6)'
             /\ Within(7) => Within(7)'
             /\ Within(8) => Within(8)'
             /\ Within(9) => Within(9)'
  BY <1>2, Stays DEF IInv
<1>3. ASSUME IInv, Step(w)
      PROVE  /\ Runs'
             /\ ~Within(0)
             /\ Within(1) => Within(0)'
             /\ Within(2) => Within(1)'
             /\ Within(3) => Within(2)'
             /\ Within(4) => Within(3)'
             /\ Within(5) => Within(4)'
             /\ Within(6) => Within(5)'
             /\ Within(7) => Within(6)'
             /\ Within(8) => Within(7)'
             /\ Within(9) => Within(8)'
             /\ Within(10) => Within(9)'
  <2>1. Left(pc[w]) \in 1 .. 10 /\ Left(pc'[w]) \in 0 .. Left(pc[w]) - 1
    BY <1>3, Courses, Nearer DEF IInv
  <2>2. Runs'
    BY <1>3, Courses DEF IInv
  <2> QED BY <2>1, <2>2
<1>4. IInv /\ IInv' /\ [Next]_vars /\ AtRest /\ ~Runs => AtRest'
  BY Stays DEF IInv
<1>5. Unblocked /\ Runs /\ ~AtRest => CanStep(w)
  BY DEF Unblocked
<1>6. Rested(w) <=> Runs /\ AtRest
  BY DEF Rested
<1>7. RunsAgain(w) <=> []<>Runs
  BY DEF RunsAgain
<1> HIDE DEF Within, AtRest, Runs
<1> QED
  BY <1>1, <1>2, <1>3, <1>4, <1>5, <1>6, <1>7, PTL DEF StepContinues, CanStep, RestsAgain

Premises == FairSpec /\ []Unblocked

LEMMA StepsContinue == Premises => \A w \in Levels : StepContinues(w)
BY PTL DEF Premises, FairSpec, Fairness

LEMMA Continues ==
  ASSUME NEW w \in Levels
  PROVE  Premises => [][Next]_vars /\ []IInv /\ []Unblocked /\ StepContinues(w)
<1>1. Premises => [][Next]_vars /\ []IInv /\ []Unblocked
  BY Invariance, PTL DEF Premises, FairSpec, Spec
<1> QED BY <1>1, StepsContinue

(* So every level may run again and again, and rests again and again.      *)
LEMMA AllRest ==
  ASSUME NEW w \in Levels
  PROVE  Premises => RunsAgain(w) /\ RestsAgain(w)
<1>1. ASSUME NEW v \in Levels, \A u \in Levels : ~(u > v)
      PROVE  Premises => RunsAgain(v) /\ RestsAgain(v)
  <2>1. Running(v)
    BY <1>1 DEF Running
  <2>2. Premises => RunsAgain(v)
    BY <2>1, PTL DEF RunsAgain
  <2> QED BY <2>2, Continues, OperationsEnd
<1>2. ASSUME NEW v \in Levels, NEW u \in Levels, u > v, \A x \in Levels : x > v => x >= u
      PROVE  Premises /\ RestsAgain(u) => RunsAgain(v) /\ RestsAgain(v)
  <2>1. IInv /\ Rested(u) => Running(v)
    BY <1>2, BusAssumption DEF Rested, Running, Resting, IInv, TypeOK
  <2>2. Premises /\ RestsAgain(u) => RunsAgain(v)
    BY <2>1, Continues, PTL DEF RunsAgain, RestsAgain
  <2> QED BY <2>2, Continues, OperationsEnd
<1>3. Levels \subseteq 0 .. 2
  BY BusAssumption
<1>4. CASE \A u \in Levels : ~(u > w)
  BY <1>1, <1>4
<1>5. CASE \E u \in Levels : u > w
  <2>1. PICK u \in Levels : u > w /\ \A x \in Levels : x > w => x >= u
    BY <1>3, <1>5
  <2>2. CASE \A x \in Levels : ~(x > u)
    BY <1>1, <1>2, <2>1, <2>2
  <2>3. CASE \E x \in Levels : x > u
    <3>1. PICK x \in Levels : x > u /\ x = 2
      BY <1>3, <2>1, <2>3
    <3>2. Premises => RestsAgain(x)
      BY <1>1, <1>3, <3>1
    <3>3. Premises => RestsAgain(u)
      BY <1>2, <1>3, <3>1, <3>2
    <3> QED BY <1>2, <2>1, <3>3
  <2> QED BY <2>2, <2>3
<1> QED BY <1>4, <1>5

(* The main loop asks again and again. *)
LEMMA MainAsks == Premises => []<><<AiQuerry(0)>>_vars
<1> DEFINE Idle == Running(0) /\ pc[0] = "idle"
           Maintain == Running(0) /\ pc[0] = "maintain"
<1>0. 0 \in Levels
  BY BusAssumption
<1>1. Premises => RestsAgain(0)
  BY <1>0, AllRest
<1>2. Rested(0) => Idle \/ Maintain
  BY DEF Rested, Resting
<1>3. Unblocked => /\ Idle => ENABLED <<AiQuerry(0)>>_vars
                   /\ Maintain => ENABLED <<MaintainLooks \/ MaintainResets>>_vars
  BY DEF Unblocked, At
<1>4. IInv /\ (MaintainLooks \/ MaintainResets) => Idle'
  BY <1>0 DEF IInv, TypeOK, MaintainLooks, MaintainResets, At, Goto, Running
<1>5. Premises => []IInv /\ []Unblocked
  BY <1>0, Continues
<1>6. Premises => SF_vars(AiQuerry(0)) /\ SF_vars(MaintainLooks \/ MaintainResets)
  BY PTL DEF Premises, FairSpec, Fairness
<1> HIDE DEF Idle, Maintain
<1> QED BY <1>1, <1>2, <1>3, <1>4, <1>5, <1>6, PTL DEF RestsAgain

(* BusReleased: a bus that is held is reset again and again.  On a held    *)
(* bus every pass of the main loop ends in I2CHW_Maintain's look at it,    *)
(* and BusyLimit + 1 looks make a reset.  Counting them takes as many      *)
(* steps as the limit has, in temporal logic: the theorem is about limits  *)
(* up to the code's, which is 7.                                           *)
THEOREM ResetsGoOn == BusyLimit \in 0 .. 7 /\ Premises => BusReleased
<1> SUFFICES ASSUME BusyLimit \in 0 .. 7 PROVE Premises => BusReleased
  OBVIOUS
<1> DEFINE Asking == pc[0] = "ask" /\ job[0] = Query
           Maintain == Running(0) /\ pc[0] = "maintain"
           Rests0 == Rested(0)
           Over == Maintain /\ TooBusy(Looked(BusBusyCounter))
           Seen(n) == BusBusyCounter >= n
<1>0. 0 \in Levels
  BY BusAssumption
<1>1. IInv /\ AiQuerry(0) => Asking'
  BY <1>0 DEF IInv, TypeOK, AiQuerry, Call, Goto
<1>2. IInv /\ stuck /\ [Next]_vars /\ Asking => Asking' \/ Maintain'
  <2> SUFFICES ASSUME IInv, stuck, [Next]_vars, Asking, ~Asking' PROVE Maintain'
    OBVIOUS
  <2>1. Step(0)
    BY <1>0, Stays DEF IInv, Resting
  <2>2. QueryBusy(0)
    BY <2>1 DEF Step, FillType, FillSeq, CheckFree, CheckBusy, Start, SendType, SendSeq, Sent, TimesOut,
       Recover, QueryDecision, QuerySkipped, ReceiveHead, ReceiveRest, VerifyAccepts, VerifyRejects,
       AiProcess, QueryFailed, CountFailure, At, TransferPlaces, Check_i2c_State
  <2>3. Running(0)'
    BY <1>0, <2>1, Courses DEF IInv
  <2> QED BY <1>0, <2>2, <2>3 DEF QueryBusy, Return, Goto, IInv, TypeOK
<1>3. Rests0 => ~Asking
  BY DEF Rested, Resting
<1>4. Unblocked => /\ Maintain => ENABLED <<MaintainLooks \/ MaintainResets>>_vars
                   /\ Over => ENABLED <<MaintainResets /\ ~stuck'>>_vars
  BY DEF Unblocked, At
<1>5. MaintainResets => Over
  BY DEF MaintainResets, At
<1>6. ASSUME IInv, [Next]_vars, ~MaintainLooks \/ UNCHANGED vars, ~Over
      PROVE  UNCHANGED BusBusyCounter
  <2>1. CASE UNCHANGED vars
    BY <2>1 DEF vars, counters
  <2>2. CASE BusSticks
    BY <2>2 DEF BusSticks, counters
  <2>3. ASSUME NEW w \in Levels, Operation(w) PROVE UNCHANGED BusBusyCounter
    BY <2>3 DEF Operation, DoExecute, AiSet, AiQuerry, Step, FillType, FillSeq, CheckFree, CheckBusy,
       Start, SendType, SendSeq, Sent, TimesOut, Recover, QueryBusy, QueryDecision, QuerySkipped,
       ReceiveHead, ReceiveRest, VerifyAccepts, VerifyRejects, AiProcess, QueryFailed, CountFailure, counters
  <2> QED BY <1>5, <1>6, <2>1, <2>2, <2>3 DEF Next
<1>7. ASSUME IInv, [Next]_vars, ~MaintainLooks \/ UNCHANGED vars, ~Over
      PROVE  /\ Seen(1) => Seen(1)'
             /\ Seen(2) => Seen(2)'
             /\ Seen(3) => Seen(3)'
             /\ Seen(4) => Seen(4)'
             /\ Seen(5) => Seen(5)'
             /\ Seen(6) => Seen(6)'
             /\ Seen(7) => Seen(7)'
  BY <1>6, <1>7
<1>8. ASSUME IInv, stuck, MaintainLooks
      PROVE  /\ Seen(1)'
             /\ Seen(1) => Seen(2)'
             /\ Seen(2) => Seen(3)'
             /\ Seen(3) => Seen(4)'
             /\ Seen(4) => Seen(5)'
             /\ Seen(5) => Seen(6)'
             /\ Seen(6) => Seen(7)'
             /\ ~Seen(7)
  <2>1. BusBusyCounter' = BusBusyCounter + 1 /\ BusBusyCounter' <= 7 /\ BusBusyCounter \in Nat
    BY <1>8, BusAssumption DEF IInv, TypeOK, MaintainLooks, Looked, TooBusy, Check_i2c_State
  <2> QED BY <2>1
<1>9. Premises => /\ []IInv /\ []Unblocked /\ [][Next]_vars /\ []<>Rests0 /\ []<><<AiQuerry(0)>>_vars
  <2>1. Premises => [][Next]_vars /\ []IInv /\ []Unblocked /\ RestsAgain(0)
    BY <1>0, Continues, AllRest
  <2> QED BY <2>1, MainAsks, PTL DEF RestsAgain
<1>10. Premises => SF_vars(MaintainLooks \/ MaintainResets) /\ SF_vars(MaintainResets /\ ~stuck')
  BY PTL DEF Premises, FairSpec, Fairness
<1>11. Over => Maintain
  OBVIOUS
<1> HIDE DEF Asking, Maintain, Rests0, Over, Seen
<1>12. Premises /\ <>[]stuck => []<>Maintain
  BY <1>1, <1>2, <1>3, <1>9, PTL
<1>13. Premises /\ <>[]stuck => <>[]~Over
  BY <1>4, <1>9, <1>10, PTL
<1>14. Premises /\ <>[]stuck => FALSE
  BY <1>4, <1>5, <1>7, <1>8, <1>9, <1>10, <1>12, <1>13, PTL
<1> QED BY <1>14, PTL DEF BusReleased

-----------------------------------------------------------------------------
(* RequestsGoOn.  Suppose the bus is free from now on and nobody requests. *)
(* Then queries do nothing but count, and each that the main loop skips    *)
(* brings error_count nearer to a number for which none is skipped.        *)
Asked(w) == pc[w] = "start" /\ job[w] = Query
Later == {"rest", "verify", "copy", "failed", "count"}
Heading == \E w \in Levels : pc[w] = "head"
OnlyCounts(w) == ~Asked(w) /\ pc[w] # "head" /\ pc[w] \notin Later
Settles(w) == <>[](w \in Levels => OnlyCounts(w))

LEMMA Moves ==
  ASSUME TypeOK, [Next]_vars, NEW w \in Levels
  PROVE  \/ pc'[w] = pc[w] /\ job'[w] = job[w]
         \/ Step(w)
         \/ pc[w] \in Resting /\ pc'[w] \in {"idle", "type", "ask"}
<1>1. CASE pc[w] \notin Resting \/ ~Running(w)
  BY <1>1, Stays
<1>2. CASE UNCHANGED vars
  BY <1>2 DEF control, vars
<1>3. ASSUME NEW v \in Levels, Acts(v), v # w PROVE pc'[w] = pc[w] /\ job'[w] = job[w]
  BY <1>3, Others
<1>4. ASSUME Acts(w), ~Step(w) PROVE pc[w] \in Resting /\ pc'[w] \in {"idle", "type", "ask"}
  BY <1>4 DEF TypeOK, Acts, Operation, DoExecute, AiSet, AiQuerry, Call, MaintainLooks,
     MaintainResets, At, Goto, Resting
<1>5. CASE BusSticks
  BY <1>5 DEF BusSticks, control
<1> QED BY <1>1, <1>2, <1>3, <1>4, <1>5, Actors

LEMMA LevelSettles ==
  ASSUME NEW w \in Levels
  PROVE  Premises /\ <>[]~Heading => Settles(w)
<1> DEFINE Start0 == Asked(w)
           Head == pc[w] = "head"
           After == pc[w] \in Later
           Rest == Rested(w)
<1>1. Head => Heading
  BY DEF Heading
<1>2. IInv /\ [Next]_vars /\ Start0 => Start0' \/ Head'
  BY Moves, Courses DEF IInv, Asked, Resting, Leads
<1>3. IInv /\ [Next]_vars /\ ~Head /\ ~After => ~After'
  BY Moves, Courses DEF IInv, Later, Resting, Leads
<1>4. Rest => ~Start0 /\ ~After
  BY DEF Rested, Resting, Asked, Later
<1>5. OnlyCounts(w) <=> ~Start0 /\ ~Head /\ ~After
  BY DEF OnlyCounts
<1>6. Premises => [][Next]_vars /\ []IInv /\ []<>Rest
  <2>1. Premises => [][Next]_vars /\ []IInv /\ RestsAgain(w)
    BY Continues, AllRest
  <2> QED BY <2>1, PTL DEF RestsAgain
<1> HIDE DEF Start0, Head, After, Rest
<1> QED BY <1>1, <1>2, <1>3, <1>4, <1>5, <1>6, PTL DEF Settles

LEMMA AllSettle ==
  Premises /\ <>[]~Heading => <>[](\A w \in Levels : OnlyCounts(w))
<1>1. ASSUME NEW w \in 0 .. 2 PROVE Premises /\ <>[]~Heading => Settles(w)
  <2>1. CASE w \in Levels
    BY <2>1, LevelSettles
  <2>2. CASE w \notin Levels
    <3> DEFINE Good == w \in Levels => OnlyCounts(w)
    <3>1. Good
      BY <2>2
    <3> HIDE DEF Good
    <3>2. <>[]Good
      BY <3>1, PTL
    <3> QED BY <3>2 DEF Good, Settles
  <2> QED BY <2>1, <2>2
<1>2. /\ 0 \in Levels => OnlyCounts(0)
      /\ 1 \in Levels => OnlyCounts(1)
      /\ 2 \in Levels => OnlyCounts(2)
      => \A w \in Levels : OnlyCounts(w)
  BY BusAssumption
<1>3. Premises /\ <>[]~Heading => Settles(0) /\ Settles(1) /\ Settles(2)
  BY <1>1
<1> QED BY <1>2, <1>3, PTL DEF Settles

(* How many requests are skipped before the next one that is not. *)
ToGo(n) ==
  IF ~Skips(n) THEN 0
  ELSE IF BackOff - (n % BackOff) <= Byte - n THEN BackOff - (n % BackOff) ELSE Byte - n

LEMMA ToGoFalls ==
  ASSUME BackOff \in 1 .. 7, NEW n \in 0 .. Byte - 1
  PROVE  /\ ToGo(n) \in 0 .. 6 /\ (Skips(n) => ToGo(n) > 0)
         /\ Skips(n) => ToGo(Incremented(n)) <= ToGo(n) - 1
<1> USE BusAssumption
<1>0. Incremented(n) = IF n = Byte - 1 THEN 0 ELSE n + 1
  <2>1. CASE n = Byte - 1
    BY <2>1 DEF Incremented
  <2>2. CASE n + 1 < Byte
    BY <2>2 DEF Incremented
  <2> QED BY <2>1, <2>2
<1>1. CASE BackOff = 1
  BY <1>1, <1>0 DEF ToGo, Skips
<1>2. CASE BackOff = 2
  BY <1>2, <1>0 DEF ToGo, Skips
<1>3. CASE BackOff = 3
  BY <1>3, <1>0 DEF ToGo, Skips
<1>4. CASE BackOff = 4
  BY <1>4, <1>0 DEF ToGo, Skips
<1>5. CASE BackOff = 5
  BY <1>5, <1>0 DEF ToGo, Skips
<1>6. CASE BackOff = 6
  BY <1>6, <1>0 DEF ToGo, Skips
<1>7. CASE BackOff = 7
  BY <1>7, <1>0 DEF ToGo, Skips
<1> QED BY <1>1, <1>2, <1>3, <1>4, <1>5, <1>6, <1>7

(* What a level about to skip has read. *)
LEMMA Reading ==
  ASSUME TypeOK, NEW w \in Levels, Acts(w)
  PROVE  /\ \A v \in Levels \ {w} : loaded'[v] = loaded[v]
         /\ pc'[w] = "skip" => Skips(error_count) /\ loaded'[w] = error_count
         /\ error_count' = error_count \/ QuerySkipped(w) \/ pc[w] \in Later
<1> DEFINE Goal == /\ \A v \in Levels \ {w} : loaded'[v] = loaded[v]
                   /\ pc'[w] = "skip" => Skips(error_count) /\ loaded'[w] = error_count
                   /\ error_count' = error_count \/ QuerySkipped(w) \/ pc[w] \in Later
<1>0. /\ pc \in [Levels -> Places] /\ loaded \in [Levels -> 0 .. Byte - 1] /\ 0 \in Levels
  BY BusAssumption DEF TypeOK
<1>DoExecute. DoExecute(w) => Goal
  BY <1>0 DEF DoExecute, Later, At, Goto, counters, Call
<1>AiSet. AiSet(w) => Goal
  BY <1>0 DEF AiSet, Later, At, Goto, counters, Call
<1>AiQuerry. AiQuerry(w) => Goal
  BY <1>0 DEF AiQuerry, Later, At, Goto, counters, Call
<1>FillType. FillType(w) => Goal
  BY <1>0 DEF FillType, Later, At, Goto, counters
<1>FillSeq. FillSeq(w) => Goal
  BY <1>0 DEF FillSeq, Later, At, Goto, counters
<1>CheckFree. CheckFree(w) => Goal
  BY <1>0 DEF CheckFree, Later, At, Goto, counters
<1>CheckBusy. CheckBusy(w) => Goal
  BY <1>0 DEF CheckBusy, Later, At, Goto, counters, Return
<1>Start. Start(w) => Goal
  BY <1>0 DEF Start, Later, At, Goto, counters
<1>SendType. SendType(w) => Goal
  BY <1>0 DEF SendType, Later, At, Goto, counters
<1>SendSeq. SendSeq(w) => Goal
  BY <1>0 DEF SendSeq, Later, At, Goto, counters
<1>Sent. Sent(w) => Goal
  BY <1>0 DEF Sent, Later, At, Goto, counters, Return
<1>TimesOut. TimesOut(w) => Goal
  BY <1>0 DEF TimesOut, Later, At, Goto, counters
<1>Recover. Recover(w) => Goal
  BY <1>0 DEF Recover, Later, At, Goto, counters, Return
<1>QueryBusy. QueryBusy(w) => Goal
  BY <1>0 DEF QueryBusy, Later, At, Goto, counters, Return
<1>QueryDecision. QueryDecision(w) => Goal
  BY <1>0 DEF QueryDecision, Later, At, Goto, counters
<1>QuerySkipped. QuerySkipped(w) => Goal
  BY <1>0 DEF QuerySkipped, Later, Goto, Return
<1>ReceiveHead. ReceiveHead(w) => Goal
  BY <1>0 DEF ReceiveHead, Later, At, Goto, counters
<1>ReceiveRest. ReceiveRest(w) => Goal
  BY <1>0 DEF ReceiveRest, Later, At, Goto, counters
<1>VerifyAccepts. VerifyAccepts(w) => Goal
  BY <1>0 DEF VerifyAccepts, Later, At, Goto, counters
<1>VerifyRejects. VerifyRejects(w) => Goal
  BY <1>0 DEF VerifyRejects, Later, At, Goto, counters, Return
<1>AiProcess. AiProcess(w) => Goal
  BY <1>0 DEF AiProcess, Later, At, Goto, counters, Return
<1>QueryFailed. QueryFailed(w) => Goal
  BY <1>0 DEF QueryFailed, Later, At, Goto, counters
<1>CountFailure. CountFailure(w) => Goal
  BY <1>0 DEF CountFailure, Later, At, Goto, counters
<1>maintain. w = 0 /\ (MaintainLooks \/ MaintainResets) => Goal
  BY <1>0 DEF MaintainLooks, MaintainResets, At, Goto
<1> QED
  BY <1>DoExecute, <1>AiSet, <1>AiQuerry, <1>FillType, <1>FillSeq, <1>CheckFree, <1>CheckBusy, <1>Start,
     <1>SendType, <1>SendSeq, <1>Sent, <1>TimesOut, <1>Recover, <1>QueryBusy, <1>QueryDecision, <1>QuerySkipped,
     <1>ReceiveHead, <1>ReceiveRest, <1>VerifyAccepts, <1>VerifyRejects, <1>AiProcess, <1>QueryFailed, <1>CountFailure, <1>maintain
  DEF Acts, Operation, Step

SkipsRead == \A w \in Levels : pc[w] = "skip" => Skips(loaded[w])

LEMMA SkipsReadAlways == Spec => []SkipsRead
<1>1. Init => SkipsRead
  BY DEF Init, SkipsRead
<1>2. TypeOK /\ SkipsRead /\ [Next]_vars => SkipsRead'
  <2> SUFFICES ASSUME TypeOK, SkipsRead, [Next]_vars PROVE SkipsRead'
    OBVIOUS
  <2>1. ASSUME NEW w \in Levels, Acts(w) PROVE SkipsRead'
    BY <2>1, Reading, Others DEF SkipsRead
  <2>2. CASE BusSticks \/ UNCHANGED vars
    BY <2>2 DEF BusSticks, vars, control, SkipsRead
  <2> QED BY <2>1, <2>2, Actors
<1> QED BY <1>1, <1>2, TypeCorrect, PTL DEF Spec

(* Every number that is or will be written to error_count has at most i    *)
(* requests to skip before it.                                             *)
Near(i) ==
  /\ ToGo(error_count) <= i
  /\ \A w \in Levels : pc[w] = "skip" => ToGo(loaded[w]) <= i

Waiting == IInv /\ SkipsRead /\ ~stuck /\ \A w \in Levels : OnlyCounts(w)

LEMMA NearAtMost ==
  ASSUME BackOff \in 1 .. 7, Waiting
  PROVE  Near(6)
BY ToGoFalls DEF Waiting, IInv, TypeOK, Near

LEMMA NotFarther ==
  ASSUME BackOff \in 1 .. 7, Waiting, [Next]_vars, NEW i \in 0 .. 6, Near(i)
  PROVE  Near(i)'
<1> USE DEF Waiting, IInv
<1>1. ASSUME NEW w \in Levels, Acts(w) PROVE Near(i)'
  <2>1. ToGo(error_count') <= i
    <3>1. CASE error_count' = error_count
      BY <3>1 DEF Near
    <3>2. CASE QuerySkipped(w)
      <4>1. error_count' = Incremented(loaded[w]) /\ pc[w] = "skip"
        BY <3>2 DEF QuerySkipped, At
      <4>2. loaded[w] \in 0 .. Byte - 1 /\ Skips(loaded[w]) /\ ToGo(loaded[w]) <= i
        BY <4>1 DEF TypeOK, SkipsRead, Near
      <4>3. /\ ToGo(loaded[w]) \in 0 .. 6
            /\ ToGo(Incremented(loaded[w])) <= ToGo(loaded[w]) - 1
            /\ Incremented(loaded[w]) \in 0 .. Byte - 1
        BY <4>2, ToGoFalls, Increments
      <4>4. ToGo(Incremented(loaded[w])) \in 0 .. 6
        BY <4>3, ToGoFalls
      <4> QED BY <4>1, <4>2, <4>3, <4>4
    <3> QED BY <1>1, <3>1, <3>2, Reading DEF OnlyCounts
  <2>2. ASSUME NEW v \in Levels, pc'[v] = "skip" PROVE ToGo(loaded'[v]) <= i
    <3>1. CASE v = w
      BY <1>1, <2>2, <3>1, Reading DEF Near
    <3>2. CASE v # w
      BY <1>1, <2>2, <3>2, Reading, Others DEF Near
    <3> QED BY <3>1, <3>2
  <2> QED BY <2>1, <2>2 DEF Near
<1>2. CASE BusSticks \/ UNCHANGED vars
  BY <1>2 DEF BusSticks, vars, control, counters, Near
<1> QED BY <1>1, <1>2, Actors

LEMMA SkipNearer ==
  ASSUME BackOff \in 1 .. 7, Waiting, QuerySkipped(0), NEW i \in 0 .. 6, Near(i)
  PROVE  i > 0 /\ Near(i - 1)'
<1> USE DEF Waiting, IInv
<1>0. 0 \in Levels /\ Acts(0)
  BY BusAssumption DEF Acts, Operation, Step
<1>1. error_count' = Incremented(loaded[0]) /\ pc[0] = "skip" /\ Running(0)
  BY DEF QuerySkipped, At
<1>2. loaded[0] \in 0 .. Byte - 1 /\ Skips(loaded[0]) /\ ToGo(loaded[0]) <= i
  BY <1>0, <1>1 DEF TypeOK, SkipsRead, Near
<1>3. /\ ToGo(loaded[0]) \in 1 .. 6
      /\ ToGo(Incremented(loaded[0])) <= ToGo(loaded[0]) - 1
      /\ Incremented(loaded[0]) \in 0 .. Byte - 1
  BY <1>2, ToGoFalls, Increments
<1>4. ToGo(Incremented(loaded[0])) \in 0 .. 6
  BY <1>3, ToGoFalls
<1>5. i > 0 /\ ToGo(error_count') <= i - 1
  BY <1>1, <1>2, <1>3, <1>4
<1>6. ASSUME NEW v \in Levels PROVE pc'[v] # "skip"
  <2>1. CASE v = 0
    BY <1>0, <2>1 DEF QuerySkipped, Return, Goto, TypeOK
  <2>2. CASE v # 0
    BY <1>0, <1>1, <2>2, Others, BusAssumption DEF Running
  <2> QED BY <2>1, <2>2
<1> QED BY <1>5, <1>6 DEF Near

(* The theorem is about back-offs up to the code's, which is 7, for the    *)
(* reason that ResetsGoOn gives; Byte is arbitrary.                        *)
THEOREM AsksGoOn == BackOff \in 1 .. 7 /\ Premises => RequestsGoOn
<1> SUFFICES ASSUME BackOff \in 1 .. 7 PROVE Premises => RequestsGoOn
  OBVIOUS
<1> DEFINE Asking == pc[0] = "ask" /\ job[0] = Query
           Skipping == pc[0] = "skip"
           Rests0 == Rested(0)
           Free == ~stuck
<1>0. 0 \in Levels
  BY BusAssumption
<1>1. IInv /\ AiQuerry(0) => Asking'
  BY <1>0 DEF IInv, TypeOK, AiQuerry, Call, Goto
<1>2. Waiting /\ Waiting' /\ [Next]_vars /\ Asking => Asking' \/ Skipping'
  <2> SUFFICES ASSUME Waiting, Waiting', [Next]_vars, Asking, ~Asking' PROVE Skipping'
    OBVIOUS
  <2>1. Step(0)
    BY <1>0, Stays DEF Waiting, IInv, Resting
  <2>2. QueryBusy(0) \/ QueryDecision(0)
    BY <2>1 DEF Step, FillType, FillSeq, CheckFree, CheckBusy, Start, SendType, SendSeq, Sent, TimesOut,
       Recover, QuerySkipped, ReceiveHead, ReceiveRest, VerifyAccepts, VerifyRejects,
       AiProcess, QueryFailed, CountFailure, At, TransferPlaces
  <2>3. live = {}
    <3>1. Running(0)
      BY <1>0, <2>1, Courses DEF Waiting, IInv
    <3> QED BY <1>0, <3>1, BusAssumption DEF Waiting, IInv, TypeOK, OneTransfer, TransferPlaces, Running
  <2>4. QueryDecision(0)
    BY <2>2, <2>3 DEF QueryBusy, Check_i2c_State, Waiting
  <2>5. pc'[0] # "start" \/ job'[0] # Query
    BY <1>0 DEF Waiting, OnlyCounts, Asked
  <2> QED BY <1>0, <2>4, <2>5 DEF QueryDecision, Goto, Waiting, IInv, TypeOK
<1>3. Waiting /\ [Next]_vars /\ Skipping /\ (~QuerySkipped(0) \/ UNCHANGED vars) => Skipping'
  <2> SUFFICES ASSUME Waiting, [Next]_vars, Skipping, ~QuerySkipped(0) \/ UNCHANGED vars, ~Skipping'
               PROVE  FALSE
    OBVIOUS
  <2>1. Step(0) /\ ~QuerySkipped(0)
    BY <1>0, Stays DEF Waiting, IInv, Resting, vars, control
  <2> QED
    BY <2>1 DEF Step, FillType, FillSeq, CheckFree, CheckBusy, Start, SendType, SendSeq, Sent, TimesOut,
       Recover, QueryBusy, QueryDecision, ReceiveHead, ReceiveRest, VerifyAccepts, VerifyRejects,
       AiProcess, QueryFailed, CountFailure, At, TransferPlaces
<1>4. Rests0 => ~Asking /\ ~Skipping
  BY DEF Rested, Resting
<1>5. Waiting => Near(6)
  BY NearAtMost
<1>6. ASSUME Waiting, [Next]_vars
      PROVE  /\ Near(0) => Near(0)'
             /\ Near(1) => Near(1)'
             /\ Near(2) => Near(2)'
             /\ Near(3) => Near(3)'
             /\ Near(4) => Near(4)'
             /\ Near(5) => Near(5)'
  BY <1>6, NotFarther
<1>7. ASSUME Waiting, QuerySkipped(0)
      PROVE  /\ ~Near(0)
             /\ Near(1) => Near(0)'
             /\ Near(2) => Near(1)'
             /\ Near(3) => Near(2)'
             /\ Near(4) => Near(3)'
             /\ Near(5) => Near(4)'
             /\ Near(6) => Near(5)'
  <2>1. ASSUME NEW i \in 0 .. 6, NEW j \in 0 .. 6, i = j + 1, Near(i) PROVE Near(j)'
    <3>1. i - 1 = j
      BY <2>1
    <3> QED BY <1>7, <2>1, <3>1, SkipNearer
  <2>2. ~Near(0)
    BY <1>7, SkipNearer
  <2> QED BY <2>1, <2>2
<1>8. Premises => /\ []IInv /\ []SkipsRead /\ [][Next]_vars /\ []<>Rests0
                  /\ []<><<AiQuerry(0)>>_vars
  <2>1. Premises => [][Next]_vars /\ []IInv /\ []Unblocked /\ RestsAgain(0)
    BY <1>0, Continues, AllRest
  <2> QED BY <2>1, MainAsks, SkipsReadAlways, PTL DEF RestsAgain, Premises, FairSpec
<1>9. Premises /\ <>[]Free /\ <>[]~Heading => <>[]Waiting
  BY <1>8, AllSettle, PTL DEF Waiting
<1> HIDE DEF Asking, Skipping, Rests0, Free
<1>10. Premises /\ <>[]Waiting => []<><<QuerySkipped(0)>>_vars
  BY <1>1, <1>2, <1>3, <1>4, <1>8, PTL
<1>11. Premises /\ <>[]Waiting => FALSE
  BY <1>5, <1>6, <1>7, <1>8, <1>10, PTL
<1> QED BY <1>9, <1>11, PTL DEF RequestsGoOn, Heading, Free
=============================================================================
