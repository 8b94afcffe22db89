---------------------------- MODULE EthSupervisor ----------------------------
(***************************************************************************)
(* Supervision of the Ethernet interface: EthStateCheck of BSP/bsp.c, the  *)
(* part of main.c's loop that acts on its requests, and the reset command  *)
(* of the shells.                                                          *)
(*                                                                         *)
(* The main loop (level 0) brings the interface up when it sees a link,    *)
(* counts the minutes without a link and the minutes without a frame, and  *)
(* resets the interface when a count is too high.  The UART shell (level 1)*)
(* and the telnet shell (level 2) reset it from an interrupt, wherever the *)
(* main loop is.  A frame clears the receive counters from an interrupt.   *)
(***************************************************************************)
EXTENDS Integers

CONSTANTS
  Levels,             \* preemption levels: 0 main loop, 1 UART shell, 2 telnet shell
  Hours, Minutes,     \* the clock's hours of a day and minutes of an hour
  eth_link_time,      \* SetCurrent.eth_link_time, in minutes
  eth_recv_time,      \* SetCurrent.eth_recv_time, in minutes
  ETH_SWRST_COUNT,
  Quiet,              \* whether nobody sets the clock or drives digital input 1,
                      \* and a pass of the loop takes less than a minute
  MaxConsoleResets    \* bound: reset commands in one behaviour

ASSUME SupervisorAssumption ==
  /\ 0 \in Levels /\ Levels \subseteq 0..2
  /\ Hours \in Nat \ {0} /\ Minutes \in Nat \ {0}
  /\ eth_link_time \in Nat /\ eth_recv_time \in Nat /\ ETH_SWRST_COUNT \in Nat
  /\ Quiet \in BOOLEAN /\ MaxConsoleResets \in Nat

VARIABLES
  link,            \* the PHY's link status
  now,             \* the clock: hour and minute
  EthInitState,    \* 1 from a successful ETH_Init to the next reset
  hello_pcb,       \* the listening sockets: "null", "listening" or "freed"
  eth_link_count,  \* count, t_begin and t_now
  eth_recv_count,  \* count, t_begin, t_now and SWRST_count
  eth_reset_flag,
  looked,          \* the loop has looked at the link since the last tick (if Quiet)
  t,               \* EthLinkCheck's reading of the clock, until it is compared
  loaded,          \* a count as read for its increment
  pc, back,        \* per level: the next step, and where a reset returns to
  consoles,        \* history: reset commands given
  misused,         \* history: sockets not open were closed, or open ones opened
  changes,         \* history: clock changes since the count of minutes without a link
                   \* was last cleared to stay so, capped
  soft             \* history: software resets since a frame or a hardware reset, capped

network == <<EthInitState, hello_pcb, misused>>
counters == <<eth_link_count, eth_recv_count, eth_reset_flag>>
control == <<pc, back, t, loaded, consoles>>
world == <<link, now, looked>>
vars == <<world, network, counters, control, changes, soft>>

-----------------------------------------------------------------------------
Clock == (0 .. Hours - 1) \X (0 .. Minutes - 1)
Unset == <<>>    \* tm_year = 0
MaxChanges == eth_link_time + 1
MaxSoft == ETH_SWRST_COUNT + 1
OneMore(n, cap) == IF n < cap THEN n + 1 ELSE n

Zero == [count |-> 0, t_begin |-> Unset, t_now |-> Unset, SWRST_count |-> 0]

NoMinutes == [count |-> 0, t_begin |-> Unset, t_now |-> Unset]

(* Mutants used to show that the properties below can fail. *)
OnlyFlag ==
  eth_reset_flag' = "none" /\ UNCHANGED <<eth_link_count, eth_recv_count>>
ParametersButFlag ==
  /\ eth_link_count' = NoMinutes
  /\ eth_recv_count' = Zero
  /\ UNCHANGED eth_reset_flag
StillInitialised == EthInitState' = EthInitState
EveryPass(present, begin) == present # Unset

Ethernet_parameter_init ==
  /\ eth_link_count' = NoMinutes
  /\ eth_recv_count' = Zero
  /\ eth_reset_flag' = "none"

(* A minute has passed, or the hour is a later one of the same day. *)
Later(present, begin) == present[1] > begin[1] \/ present[2] > begin[2]
Passed(begin) == Later(now, begin)

Running(w) == \A v \in Levels : v > w => pc[v] = "idle"
Goto(w, place) == pc' = [pc EXCEPT ![w] = place]
At(w, place) == Running(w) /\ pc[w] = place

Init ==
  /\ link \in BOOLEAN /\ now \in Clock /\ looked = FALSE
  /\ EthInitState = 0 /\ hello_pcb = "null" /\ misused = FALSE
  /\ eth_link_count = NoMinutes
  /\ eth_recv_count = Zero /\ eth_reset_flag = "none" /\ t = Unset /\ loaded = 0
  /\ pc = [w \in Levels |-> IF w = 0 THEN "configure" ELSE "idle"]
  /\ back = [w \in Levels |-> "idle"]
  /\ consoles = 0 /\ changes = 0 /\ soft = 0

-----------------------------------------------------------------------------
(* EthLinkCheck, and the request that follows a link lost for too long. *)
LinkSeen ==
  /\ At(0, "top") /\ link
  /\ eth_link_count' = [eth_link_count EXCEPT !.count = 0]
  /\ changes' = 0 /\ looked' = Quiet
  /\ Goto(0, "linked")
  /\ UNCHANGED <<link, now, network, eth_recv_count, eth_reset_flag, t, loaded, back, consoles,
                 soft>>

(* Without a link EthLinkCheck reads the clock, and begins a minute or     *)
(* looks whether one has ended.                                            *)
LinkMissed ==
  /\ At(0, "top") /\ ~link
  /\ \/ /\ eth_link_count.t_begin = Unset
        /\ eth_link_count' = [eth_link_count EXCEPT !.t_begin = now]
        /\ Goto(0, "unlinked") /\ UNCHANGED t
     \/ /\ eth_link_count.t_begin # Unset
        /\ t' = now
        /\ Goto(0, "compare") /\ UNCHANGED eth_link_count
  /\ looked' = Quiet
  /\ UNCHANGED <<link, now, network, eth_recv_count, eth_reset_flag, loaded, back, consoles,
                 changes, soft>>

(* A shell's reset may have cleared all of eth_link_count since: t_begin   *)
(* is 0:00 then.                                                           *)
BeganAt == IF eth_link_count.t_begin = Unset THEN <<0, 0>> ELSE eth_link_count.t_begin

LinkCompare ==
  /\ At(0, "compare")
  /\ IF Later(t, BeganAt)
     THEN /\ eth_link_count' = [eth_link_count EXCEPT !.t_now = t]
          /\ loaded' = eth_link_count.count
          /\ Goto(0, "add")
     ELSE Goto(0, "unlinked") /\ UNCHANGED <<eth_link_count, loaded>>
  /\ t' = Unset
  /\ UNCHANGED <<world, network, eth_recv_count, eth_reset_flag, back, consoles, changes, soft>>

(* The increment.  A reset that came since is before the load of the count *)
(* or between it and the store, which then brings the old count back.      *)
LinkAdd ==
  /\ At(0, "add")
  /\ \E n \in {loaded, eth_link_count.count} :
       eth_link_count' = [eth_link_count EXCEPT !.count = n + 1]
  /\ loaded' = 0
  /\ Goto(0, "mark")
  /\ UNCHANGED <<world, network, eth_recv_count, eth_reset_flag, t, back, consoles, changes, soft>>

(* Nothing reads t_now later. *)
LinkMark ==
  /\ At(0, "mark")
  /\ eth_link_count' = [eth_link_count EXCEPT !.t_begin = eth_link_count.t_now, !.t_now = Unset]
  /\ Goto(0, "unlinked")
  /\ UNCHANGED <<world, network, eth_recv_count, eth_reset_flag, t, loaded, back, consoles,
                 changes, soft>>

LinkDecision ==
  /\ At(0, "unlinked")
  /\ eth_reset_flag' = IF eth_link_count.count > eth_link_time THEN "hardware"
                       ELSE eth_reset_flag
  /\ Goto(0, "flag")
  /\ UNCHANGED <<world, network, eth_link_count, eth_recv_count, t, loaded, back, consoles,
                 changes, soft>>

-----------------------------------------------------------------------------
(* A link: bring the interface up, or watch what it receives. *)
InitStateRead ==
  /\ At(0, "linked")
  /\ Goto(0, IF EthInitState = 0 THEN "configure" ELSE "receive")
  /\ UNCHANGED <<world, network, counters, t, loaded, back, consoles, changes, soft>>

(* Ethernet_Configuration; ETH_Init fails while the PHY does not negotiate.*)
Configure(result) ==
  /\ At(0, "configure")
  /\ EthInitState' = result
  /\ Ethernet_parameter_init
  /\ changes' = 0
  /\ Goto(0, "configured")
  /\ UNCHANGED <<world, hello_pcb, misused, t, loaded, back, consoles, soft>>

ConfiguredRead ==
  /\ At(0, "configured")
  /\ Goto(0, IF EthInitState = 1 THEN "open" ELSE "flag")
  /\ UNCHANGED <<world, network, counters, t, loaded, back, consoles, changes, soft>>

CommunicationInit ==
  /\ At(0, "open")
  /\ hello_pcb' = "listening"
  /\ misused' = (misused \/ hello_pcb = "listening")
  /\ Goto(0, "flag")
  /\ UNCHANGED <<world, EthInitState, counters, t, loaded, back, consoles, changes, soft>>

(* EthRecvCheck: the increment reads the count here and writes it in the   *)
(* next step, and a frame may come in between.  Nothing reads t_now later. *)
RecvCheck ==
  /\ At(0, "receive")
  /\ \/ /\ eth_recv_count.t_begin = Unset
        /\ eth_recv_count' = [eth_recv_count EXCEPT !.t_begin = now]
        /\ Goto(0, "flag") /\ UNCHANGED loaded
     \/ /\ eth_recv_count.t_begin # Unset
        /\ IF Passed(eth_recv_count.t_begin)
           THEN /\ Goto(0, "store") /\ loaded' = eth_recv_count.count
                /\ eth_recv_count' = [eth_recv_count EXCEPT !.t_now = now]
           ELSE Goto(0, "flag") /\ UNCHANGED <<loaded, eth_recv_count>>
  /\ UNCHANGED <<world, network, eth_link_count, eth_reset_flag, t, back, consoles, changes, soft>>

RecvStore ==
  /\ At(0, "store")
  /\ eth_recv_count' = [eth_recv_count EXCEPT !.count = loaded + 1,
                                              !.t_begin = eth_recv_count.t_now,
                                              !.t_now = Unset]
  /\ loaded' = 0
  /\ Goto(0, "decide")
  /\ UNCHANGED <<world, network, eth_link_count, eth_reset_flag, t, back, consoles, changes, soft>>

RecvDecision ==
  /\ At(0, "decide")
  /\ Goto(0, "flag")
  /\ \/ /\ eth_recv_count.count <= eth_recv_time
        /\ UNCHANGED <<eth_recv_count, eth_reset_flag>>
     \/ /\ eth_recv_count.count > eth_recv_time
        /\ IF eth_recv_count.SWRST_count < ETH_SWRST_COUNT
           THEN /\ eth_reset_flag' = "software"
                /\ eth_recv_count' = [eth_recv_count EXCEPT !.SWRST_count = @ + 1]
           ELSE /\ eth_reset_flag' = "hardware"
                /\ eth_recv_count' = [eth_recv_count EXCEPT !.SWRST_count = 0]
  /\ UNCHANGED <<world, network, eth_link_count, t, loaded, back, consoles, changes, soft>>

-----------------------------------------------------------------------------
(* Level w calls a reset and goes on at place. *)
CallReset(w, place) == Goto(w, "reset") /\ back' = [back EXCEPT ![w] = place]

(* main.c acts on the request. *)
FlagRead ==
  /\ At(0, "flag")
  /\ IF eth_reset_flag = "none"
     THEN Goto(0, "test") /\ UNCHANGED <<back, soft>>
     ELSE /\ CallReset(0, "test")
          /\ soft' = IF eth_reset_flag = "software" THEN OneMore(soft, MaxSoft) ELSE 0
  /\ UNCHANGED <<world, network, counters, t, loaded, consoles, changes>>

(* _TEST: digital input 1 going up resets the interface too. *)
TestInput ==
  /\ At(0, "test")
  /\ \/ Goto(0, "top") /\ UNCHANGED <<back, soft>>
     \/ ~Quiet /\ CallReset(0, "top") /\ soft' = 0
  /\ UNCHANGED <<world, network, counters, t, loaded, consoles, changes>>

(* CMD_RESET_ETH; a telnet session needs the interface to be up. *)
ConsoleReset(w) ==
  /\ w # 0 /\ At(w, "idle")
  /\ w = 2 => link /\ hello_pcb = "listening"
  /\ consoles < MaxConsoleResets /\ consoles' = consoles + 1
  /\ CallReset(w, "idle")
  /\ soft' = 0
  /\ UNCHANGED <<world, network, counters, t, loaded, changes>>

(* Ethernet_SWRST, and Ethernet_HWRST which calls it and then pulls the    *)
(* PHY's reset pin.                                                        *)
ResetTest(w) ==
  /\ At(w, "reset")
  /\ Goto(w, IF EthInitState = 1 THEN "close" ELSE "clear")
  /\ UNCHANGED <<world, network, counters, t, loaded, back, consoles, changes, soft>>

(* CloseEth, and the wait after it. *)
CloseEth(w) ==
  /\ At(w, "close")
  /\ hello_pcb' = "freed"
  /\ misused' = (misused \/ hello_pcb # "listening")
  /\ Goto(w, "clear")
  /\ UNCHANGED <<world, EthInitState, counters, t, loaded, back, consoles, changes, soft>>

Uninitialised == EthInitState' = 0

(* A clear while EthLinkCheck has read the clock but not stored the count  *)
(* is not one to stay so: the count may go on from what it was.            *)
ResetClear(w) ==
  /\ At(w, "clear")
  /\ Uninitialised
  /\ Ethernet_parameter_init
  /\ changes' = IF pc[0] \in {"compare", "add"} THEN changes ELSE 0
  /\ Goto(w, back[w]) /\ back' = [back EXCEPT ![w] = "idle"]
  /\ UNCHANGED <<world, hello_pcb, misused, t, loaded, consoles, soft>>

-----------------------------------------------------------------------------
(* ETH_IRQHandler: Reset_eth_recv_count.  It preempts everything but the   *)
(* telnet shell, which runs inside it.                                     *)
FrameReceived ==
  /\ link /\ hello_pcb # "null" /\ (2 \in Levels => pc[2] = "idle")
  /\ eth_recv_count' = [eth_recv_count EXCEPT !.count = 0, !.SWRST_count = 0]
  /\ soft' = 0
  /\ UNCHANGED <<world, network, eth_link_count, eth_reset_flag, control, changes>>

LinkChanges ==
  /\ link' = ~link
  /\ UNCHANGED <<now, looked, network, counters, control, changes, soft>>

ClockMoves(time) ==
  /\ time # now /\ now' = time /\ looked' = FALSE
  /\ changes' = OneMore(changes, MaxChanges)
  /\ UNCHANGED <<link, network, counters, control, soft>>

NextMinute(time) ==
  IF time[2] < Minutes - 1 THEN <<time[1], time[2] + 1>>
  ELSE IF time[1] < Hours - 1 THEN <<time[1] + 1, 0>> ELSE <<0, 0>>

Tick == (Quiet => looked) /\ ClockMoves(NextMinute(now))

(* The shells, Modbus and the UDP time messages set the clock. *)
ClockSet == ~Quiet /\ \E time \in Clock : ClockMoves(time)

MainLoop ==
  \/ LinkSeen \/ LinkMissed \/ LinkCompare \/ LinkAdd \/ LinkMark \/ LinkDecision
  \/ InitStateRead \/ Configure(0) \/ Configure(1) \/ ConfiguredRead \/ CommunicationInit
  \/ RecvCheck \/ RecvStore \/ RecvDecision
  \/ FlagRead \/ TestInput

Reset(w) == ResetTest(w) \/ CloseEth(w) \/ ResetClear(w)

Next ==
  \/ MainLoop
  \/ \E w \in Levels : ConsoleReset(w) \/ Reset(w)
  \/ FrameReceived \/ LinkChanges \/ Tick \/ ClockSet

Spec == Init /\ [][Next]_vars

(* The processor keeps executing, the clock keeps going, and the PHY       *)
(* negotiates sooner or later.                                             *)
ResetContinues(w) == WF_vars(Reset(w))

Fairness ==
  /\ WF_vars(MainLoop) /\ \A w \in Levels : ResetContinues(w)
  /\ SF_vars(Configure(1)) /\ WF_vars(Tick)

FairSpec == Spec /\ Fairness

-----------------------------------------------------------------------------
Places == {"top", "compare", "add", "mark", "unlinked", "linked", "configure", "configured",
           "open", "receive", "store", "decide", "flag", "test", "reset", "close", "clear"}
Begins == Clock \cup {Unset}

(* The counters stop one above the time allowed: going over it ends in a   *)
(* reset, which clears them, whatever the interrupts do in between.        *)
TypeOK ==
  /\ link \in BOOLEAN /\ now \in Clock /\ looked \in BOOLEAN
  /\ EthInitState \in {0, 1} /\ hello_pcb \in {"null", "listening", "freed"}
  /\ eth_link_count \in [count : 0 .. eth_link_time + 1, t_begin : Begins, t_now : Begins]
  /\ eth_recv_count \in [count : 0 .. eth_recv_time + 1, t_begin : Begins, t_now : Begins,
                         SWRST_count : 0 .. ETH_SWRST_COUNT]
  /\ eth_reset_flag \in {"none", "software", "hardware"}
  /\ t \in Begins /\ (pc[0] = "compare" => t \in Clock)
  /\ loaded \in 0 .. IF pc[0] = "add" THEN eth_link_time ELSE eth_recv_time
  /\ pc \in [Levels -> Places \cup {"idle"}] /\ pc[0] # "idle"
  /\ \A w \in Levels \ {0} : pc[w] \in {"idle", "reset", "close", "clear"}
  /\ back \in [Levels -> {"top", "test", "idle"}]
  /\ consoles \in 0 .. MaxConsoleResets /\ misused \in BOOLEAN
  /\ changes \in 0 .. MaxChanges /\ soft \in 0 .. MaxSoft

(* A request is served in the pass that makes it and never twice: none is  *)
(* left when a pass begins, although the flag is only cleared as a side    *)
(* effect of the reset.                                                    *)
FlagServed == eth_reset_flag # "none" => pc[0] \in {"flag", "reset", "close", "clear"}

(* Unless a shell resets the interface, the sockets are opened only when   *)
(* they are closed and closed only when they are open.                     *)
SocketsAlternate == consoles = 0 => ~misused

(* A minute without a link counts once, however often the loop looks and   *)
(* however stale the time it counts by: the count is never more than one   *)
(* above the number of times the clock moved since the link was seen, the  *)
(* interface negotiated or a reset cleared the count.  A reset command     *)
(* that falls between the reading of the clock and the store of the count  *)
(* need not have cleared it (bsp.c:1320), so the number goes on over it.   *)
CountsMinutes == eth_link_count.count <= changes + 1

(* While the link stays, the interface is up again and again: no reset,    *)
(* failed negotiation or command leaves it down.                           *)
RecoversWhileLinked ==
  <>[]link => []<>(EthInitState = 1 /\ hello_pcb = "listening")

(* tcp_close (tcp.c:126): calling it for a pcb that was closed already is   *)
(* erroneous and "should never happen".                                    *)
NeverClosedTwice == [][\A w \in Levels : CloseEth(w) => hello_pcb # "freed"]_vars

(* ETH_SWRST_COUNT (bsp.c:28) is the greatest number of software resets:   *)
(* if they do not bring a frame, a hardware reset is next.                 *)
SoftResetsBounded == soft <= ETH_SWRST_COUNT

(* A link lost for longer than the time set leads to a reset (bsp.c:1285). *)
LostLinkReset == ~link ~> (link \/ eth_reset_flag = "hardware")
=============================================================================
