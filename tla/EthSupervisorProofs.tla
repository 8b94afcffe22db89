------------------------- MODULE EthSupervisorProofs -------------------------
(***************************************************************************)
(* For any clock, times allowed and number of console resets: requests are *)
(* served once, minutes are counted once, and without a console reset the  *)
(* sockets alternate.                                                      *)
(*                                                                         *)
(* None of the three is inductive with the types alone.  IInv adds where   *)
(* in its pass the main loop may be when a counter is over its time, where *)
(* a reset returns to, how the count relates to the last minute counted,   *)
(* what a look under way may still add, and where EthInitState and the     *)
(* sockets may disagree.  Recovery, at the end, is what the loop must do   *)
(* at last.                                                                *)
(***************************************************************************)
EXTENDS NetInterface, TLAPS

Resetting == {"reset", "close", "clear"}

(* A counter over its time is on its way to a reset. *)
OverdueIsSeen ==
  /\ eth_link_count.count > eth_link_time =>
       pc[0] \in {"mark", "unlinked"} \/ eth_reset_flag # "none"
  /\ eth_recv_count.count > eth_recv_time => pc[0] = "decide" \/ eth_reset_flag # "none"

Returns ==
  /\ pc[0] \in Resetting => back[0] \in {"top", "test"}
  /\ \A w \in Levels \ {0} : back[w] = "idle"

(* A count of one more than the clock changes is of the present minute. *)
CountedTo ==
  IF pc[0] = "mark" THEN eth_link_count.t_now ELSE eth_link_count.t_begin

CountOfThisMinute ==
  /\ CountsMinutes
  /\ CountedTo \notin {now, Unset} => eth_link_count.count <= changes

(* A look that is to add a minute to n by its own time may do so, although *)
(* the clock goes on and a shell's reset clears what it looked at.         *)
MayAdd(n, time) == n <= changes /\ (time # now => n + 1 <= changes)

LookUnderWay ==
  /\ pc[0] = "compare" =>
       /\ MayAdd(0, t)
       /\ eth_link_count.t_begin # t => MayAdd(eth_link_count.count, t)
  /\ pc[0] = "add" =>
       /\ eth_link_count.count <= loaded /\ loaded <= changes
       /\ eth_link_count.t_now # Unset => MayAdd(loaded, eth_link_count.t_now)

Open == hello_pcb = "listening"

SocketsFollow ==
  consoles = 0 =>
    /\ ~misused
    /\ \A w \in Levels \ {0} : pc[w] = "idle"
    /\ pc[0] = "configure" => ~Open /\ EthInitState = 0
    /\ pc[0] \in {"configured", "clear"} => ~Open
    /\ pc[0] = "open" => ~Open /\ EthInitState = 1
    /\ pc[0] = "close" => Open /\ EthInitState = 1
    /\ pc[0] \notin {"configure", "configured", "open", "close", "clear"} =>
         (Open <=> EthInitState = 1)

IInv ==
  /\ TypeOK /\ FlagServed /\ OverdueIsSeen /\ Returns
  /\ CountOfThisMinute /\ LookUnderWay /\ SocketsFollow

-----------------------------------------------------------------------------
LEMMA Initially == Init => IInv
<1> SUFFICES ASSUME Init PROVE IInv
  OBVIOUS
<1>1. TypeOK
  <2>1. /\ pc \in [Levels -> Places \cup {"idle"}] /\ back \in [Levels -> {"top", "test", "idle"}]
        /\ pc[0] = "configure"
        /\ \A w \in Levels \ {0} : pc[w] = "idle"
    BY SupervisorAssumption DEF Init, Places
  <2>2. /\ eth_link_count \in [count : 0 .. eth_link_time + 1, t_begin : Begins, t_now : Begins]
        /\ eth_recv_count \in [count : 0 .. eth_recv_time + 1, t_begin : Begins, t_now : Begins,
                               SWRST_count : 0 .. ETH_SWRST_COUNT]
    BY SupervisorAssumption DEF Init, Zero, NoMinutes, Begins
  <2>3. /\ link \in BOOLEAN /\ now \in Clock /\ looked \in BOOLEAN
        /\ EthInitState \in {0, 1} /\ hello_pcb \in {"null", "listening", "freed"}
        /\ eth_reset_flag \in {"none", "software", "hardware"} /\ misused \in BOOLEAN
    BY DEF Init
  <2>4. /\ t \in Begins /\ pc[0] = "configure"
        /\ loaded \in 0 .. eth_recv_time /\ consoles \in 0 .. MaxConsoleResets
        /\ changes \in 0 .. MaxChanges /\ soft \in 0 .. MaxSoft
    BY SupervisorAssumption DEF Init, MaxChanges, MaxSoft, Begins
  <2> QED BY <2>1, <2>2, <2>3, <2>4 DEF TypeOK
<1>2. FlagServed /\ OverdueIsSeen /\ Returns /\ CountOfThisMinute /\ LookUnderWay /\ SocketsFollow
  BY SupervisorAssumption DEF Init, FlagServed, OverdueIsSeen, Returns, CountOfThisMinute,
     CountsMinutes, CountedTo, LookUnderWay, SocketsFollow, Zero, NoMinutes, Resetting, Open
<1> QED BY <1>1, <1>2 DEF IInv

(* The clock moves to a time it can show. *)
LEMMA ClockSteps == TypeOK /\ (Tick \/ ClockSet) => \E time \in Clock : ClockMoves(time)
<1> SUFFICES ASSUME TypeOK, Tick PROVE \E time \in Clock : ClockMoves(time)
  BY DEF ClockSet
<1>1. now[1] \in 0 .. Hours - 1 /\ now[2] \in 0 .. Minutes - 1
  BY DEF TypeOK, Clock
<1>2. NextMinute(now) \in Clock
  BY <1>1, SupervisorAssumption DEF NextMinute, Clock
<1> QED BY <1>2 DEF Tick

(* What can happen in a step, action by action. *)
LEMMA Steps ==
  ASSUME TypeOK, [Next]_vars
  PROVE  \/ LinkSeen \/ LinkMissed \/ LinkCompare \/ LinkAdd \/ LinkMark \/ LinkDecision
         \/ InitStateRead \/ ConfiguredRead
         \/ CommunicationInit \/ RecvCheck \/ RecvStore \/ RecvDecision \/ FlagRead
         \/ TestInput \/ FrameReceived \/ LinkChanges
         \/ \E r \in {0, 1} : Configure(r)
         \/ \E w \in Levels : ConsoleReset(w) \/ ResetTest(w) \/ CloseEth(w) \/ ResetClear(w)
         \/ \E time \in Clock : ClockMoves(time)
         \/ UNCHANGED vars
BY ClockSteps DEF Next, MainLoop, Reset

(* Requests. *)
LEMMA ServesFlag ==
  ASSUME IInv, [Next]_vars
  PROVE  (FlagServed /\ Returns)'
<1> USE SupervisorAssumption DEF IInv, TypeOK, FlagServed, Returns, Resetting
<1>1. CASE LinkSeen
  BY <1>1 DEF LinkSeen, world, network, counters, control, Goto, At
<1>2. CASE LinkMissed
  BY <1>2 DEF LinkMissed, world, network, counters, control, Goto, At
<1>2a. CASE LinkCompare
  BY <1>2a DEF LinkCompare, world, network, counters, control, Goto, At
<1>2b. CASE LinkAdd
  BY <1>2b DEF LinkAdd, world, network, counters, control, Goto, At
<1>2c. CASE LinkMark
  BY <1>2c DEF LinkMark, world, network, counters, control, Goto, At
<1>3. CASE LinkDecision
  BY <1>3 DEF LinkDecision, world, network, counters, control, Goto, At
<1>4. CASE InitStateRead
  BY <1>4 DEF InitStateRead, world, network, counters, control, Goto, At
<1>5. CASE ConfiguredRead
  BY <1>5 DEF ConfiguredRead, world, network, counters, control, Goto, At
<1>6. CASE CommunicationInit
  BY <1>6 DEF CommunicationInit, world, network, counters, control, Goto, At
<1>7. CASE RecvCheck
  BY <1>7 DEF RecvCheck, world, network, counters, control, Goto, At
<1>8. CASE RecvStore
  BY <1>8 DEF RecvStore, world, network, counters, control, Goto, At
<1>9. CASE RecvDecision
  BY <1>9 DEF RecvDecision, world, network, counters, control, Goto, At
<1>10. CASE FlagRead
  BY <1>10 DEF FlagRead, world, network, counters, control, Goto, At, CallReset, OneMore
<1>11. CASE TestInput
  BY <1>11 DEF TestInput, world, network, counters, control, Goto, At, CallReset
<1>12. CASE FrameReceived
  BY <1>12 DEF FrameReceived, world, network, counters, control, Goto, At
<1>13. CASE LinkChanges
  BY <1>13 DEF LinkChanges, world, network, counters, control, Goto, At
<1>14. ASSUME NEW r \in {0, 1}, Configure(r) PROVE (FlagServed /\ Returns)'
  BY <1>14 DEF Configure, Ethernet_parameter_init, Zero, NoMinutes, world, network, counters,
     control, Goto, At
<1>15. ASSUME NEW w \in Levels, ConsoleReset(w) PROVE (FlagServed /\ Returns)'
  BY <1>15 DEF ConsoleReset, world, network, counters, control, Goto, At, CallReset
<1>16. ASSUME NEW w \in Levels, ResetTest(w) PROVE (FlagServed /\ Returns)'
  BY <1>16 DEF ResetTest, world, network, counters, control, Goto, At
<1>17. ASSUME NEW w \in Levels, CloseEth(w) PROVE (FlagServed /\ Returns)'
  BY <1>17 DEF CloseEth, world, network, counters, control, Goto, At
<1>18. ASSUME NEW w \in Levels, ResetClear(w) PROVE (FlagServed /\ Returns)'
  BY <1>18 DEF ResetClear, world, network, counters, control, Goto, At, Uninitialised,
     Ethernet_parameter_init, Zero, NoMinutes
<1>19. ASSUME NEW time \in Clock, ClockMoves(time) PROVE (FlagServed /\ Returns)'
  BY <1>19 DEF ClockMoves, OneMore, MaxChanges, world, network, counters, control, Goto, At
<1>20. CASE UNCHANGED vars
  BY <1>20 DEF vars, world, network, counters, control, Goto, At
<1> QED
  BY <1>1, <1>2, <1>2a, <1>2b, <1>2c, <1>3, <1>4, <1>5, <1>6, <1>7, <1>8, <1>9,
     <1>10, <1>11, <1>12, <1>13, <1>14, <1>15, <1>16, <1>17, <1>18, <1>19, <1>20,
     Steps

(* Counters: over a time only on the way to a reset. *)
LEMMA BoundsCounters ==
  ASSUME IInv, [Next]_vars
  PROVE  OverdueIsSeen'
<1> USE SupervisorAssumption DEF IInv, TypeOK, OverdueIsSeen, FlagServed
<1>1. CASE LinkSeen
  BY <1>1 DEF LinkSeen, world, network, counters, control, Goto, At
<1>2. CASE LinkMissed
  <2>1. /\ pc[0] = "top" /\ UNCHANGED <<eth_recv_count, eth_reset_flag>>
        /\ eth_link_count'.count = eth_link_count.count
    BY <1>2 DEF LinkMissed, Goto, At
  <2> QED BY <2>1
<1>2a. CASE LinkCompare
  BY <1>2a DEF LinkCompare, world, network, counters, control, Goto, At
<1>2b. CASE LinkAdd
  BY <1>2b DEF LinkAdd, world, network, counters, control, Goto, At
<1>2c. CASE LinkMark
  BY <1>2c DEF LinkMark, world, network, counters, control, Goto, At
<1>3. CASE LinkDecision
  BY <1>3 DEF LinkDecision, world, network, counters, control, Goto, At
<1>4. CASE InitStateRead
  BY <1>4 DEF InitStateRead, world, network, counters, control, Goto, At
<1>5. CASE ConfiguredRead
  BY <1>5 DEF ConfiguredRead, world, network, counters, control, Goto, At
<1>6. CASE CommunicationInit
  BY <1>6 DEF CommunicationInit, world, network, counters, control, Goto, At
<1>7. CASE RecvCheck
  BY <1>7 DEF RecvCheck, world, network, counters, control, Goto, At
<1>8. CASE RecvStore
  BY <1>8 DEF RecvStore, world, network, counters, control, Goto, At
<1>9. CASE RecvDecision
  BY <1>9 DEF RecvDecision, world, network, counters, control, Goto, At
<1>10. CASE FlagRead
  BY <1>10 DEF FlagRead, world, network, counters, control, Goto, At, CallReset, OneMore
<1>11. CASE TestInput
  BY <1>11 DEF TestInput, world, network, counters, control, Goto, At, CallReset
<1>12. CASE FrameReceived
  BY <1>12 DEF FrameReceived, world, network, counters, control, Goto, At
<1>13. CASE LinkChanges
  BY <1>13 DEF LinkChanges, world, network, counters, control, Goto, At
<1>14. ASSUME NEW r \in {0, 1}, Configure(r) PROVE OverdueIsSeen'
  BY <1>14 DEF Configure, Ethernet_parameter_init, Zero, NoMinutes, world, network, counters,
     control, Goto, At
<1>15. ASSUME NEW w \in Levels, ConsoleReset(w) PROVE OverdueIsSeen'
  BY <1>15 DEF ConsoleReset, world, network, counters, control, Goto, At, CallReset
<1>16. ASSUME NEW w \in Levels, ResetTest(w) PROVE OverdueIsSeen'
  BY <1>16 DEF ResetTest, world, network, counters, control, Goto, At
<1>17. ASSUME NEW w \in Levels, CloseEth(w) PROVE OverdueIsSeen'
  BY <1>17 DEF CloseEth, world, network, counters, control, Goto, At
<1>18. ASSUME NEW w \in Levels, ResetClear(w) PROVE OverdueIsSeen'
  BY <1>18 DEF ResetClear, world, network, counters, control, Goto, At, Uninitialised,
     Ethernet_parameter_init, Zero, NoMinutes
<1>19. ASSUME NEW time \in Clock, ClockMoves(time) PROVE OverdueIsSeen'
  BY <1>19 DEF ClockMoves, OneMore, MaxChanges, world, network, counters, control, Goto, At
<1>20. CASE UNCHANGED vars
  BY <1>20 DEF vars, world, network, counters, control, Goto, At
<1> QED
  BY <1>1, <1>2, <1>2a, <1>2b, <1>2c, <1>3, <1>4, <1>5, <1>6, <1>7, <1>8, <1>9,
     <1>10, <1>11, <1>12, <1>13, <1>14, <1>15, <1>16, <1>17, <1>18, <1>19, <1>20,
     Steps

(* Minutes. *)
Looking == {"compare", "add", "mark"}

LEMMA CountsByMinutes ==
  ASSUME IInv, [Next]_vars
  PROVE  (CountOfThisMinute /\ LookUnderWay)'
<1> USE SupervisorAssumption DEF IInv, TypeOK, CountOfThisMinute, LookUnderWay, CountsMinutes,
        CountedTo, MayAdd, MaxChanges
<1>1. CASE UNCHANGED <<eth_link_count, now,
           changes>> /\ pc[0] \notin Looking /\ pc'[0] \notin Looking
  BY <1>1 DEF Looking
<1>2. CASE UNCHANGED <<eth_link_count, now, changes, pc[0], t, loaded>>
  BY <1>2
<1>3. CASE \/ LinkDecision \/ InitStateRead \/ ConfiguredRead \/ CommunicationInit
           \/ RecvCheck \/ RecvStore \/ RecvDecision \/ FlagRead \/ TestInput
  <2>1. UNCHANGED <<eth_link_count, now, changes>> /\ pc[0] \notin Looking /\ pc'[0] \notin Looking
    BY <1>3 DEF LinkDecision, InitStateRead, ConfiguredRead, CommunicationInit, RecvCheck,
       RecvStore, RecvDecision, FlagRead, TestInput, CallReset, counters, world, Goto, At, Looking
  <2> QED BY <1>1, <2>1
<1>4. CASE FrameReceived \/ LinkChanges \/ UNCHANGED vars
  BY <1>2, <1>4 DEF FrameReceived, LinkChanges, counters, world, control, vars
<1>5. ASSUME NEW w \in Levels, ConsoleReset(w) \/ ResetTest(w) \/ CloseEth(w)
      PROVE  (CountOfThisMinute /\ LookUnderWay)'
  <2>1. UNCHANGED <<eth_link_count, now, changes, t, loaded>>
    BY <1>5 DEF ConsoleReset, ResetTest, CloseEth, counters, world
  <2>2. w # 0 => pc'[0] = pc[0]
    BY <1>5 DEF ConsoleReset, ResetTest, CloseEth, CallReset, Goto
  <2>3. w = 0 => pc[0] \notin Looking /\ pc'[0] \notin Looking
    BY <1>5 DEF ConsoleReset, ResetTest, CloseEth, At, Goto, Looking
  <2> QED BY <1>1, <1>2, <2>1, <2>2, <2>3
<1>6. CASE LinkSeen
  <2>1. eth_link_count'.count = 0 /\ changes' = 0 /\ pc'[0] = "linked"
    BY <1>6 DEF LinkSeen, Goto, At
  <2> QED BY <2>1
<1>7. ASSUME NEW r \in {0, 1}, Configure(r) PROVE (CountOfThisMinute /\ LookUnderWay)'
  <2>1. eth_link_count'.count = 0 /\ changes' = 0 /\ pc'[0] = "configured"
    BY <1>7 DEF Configure, Ethernet_parameter_init, NoMinutes, Goto, At
  <2> QED BY <2>1
<1>8. CASE LinkMissed
  <2>1. pc[0] = "top" /\ UNCHANGED <<now, changes>>
    BY <1>8 DEF LinkMissed, At
  <2>2. CASE pc'[0] = "unlinked"
    <3>1. eth_link_count'.count = eth_link_count.count /\ eth_link_count'.t_begin = now
      BY <1>8, <2>2 DEF LinkMissed, Goto
    <3> QED BY <2>1, <2>2, <3>1
  <2>3. CASE pc'[0] = "compare"
    <3>1. eth_link_count' = eth_link_count /\ t' = now /\ eth_link_count.t_begin # Unset
      BY <1>8, <2>3 DEF LinkMissed, Goto
    <3> QED BY <2>1, <2>3, <3>1
  <2> QED BY <1>8, <2>2, <2>3 DEF LinkMissed, Goto
<1>9. CASE LinkCompare
  <2>1. pc[0] = "compare" /\ UNCHANGED <<now, changes>> /\ t \in Clock
    BY <1>9 DEF LinkCompare, world, At
  <2>2. CASE pc'[0] = "unlinked"
    <3>1. eth_link_count' = eth_link_count
      BY <1>9, <2>2 DEF LinkCompare, Goto
    <3> QED BY <2>1, <2>2, <3>1
  <2>3. CASE pc'[0] = "add"
    <3>1. /\ eth_link_count' = [eth_link_count EXCEPT !.t_now = t]
          /\ loaded' = eth_link_count.count /\ Later(t, BeganAt)
      BY <1>9, <2>3 DEF LinkCompare, Goto
    <3>2. eth_link_count.t_begin # t
      <4>1. PICK hour \in 0 .. Hours - 1, minute \in 0 .. Minutes - 1 : t = <<hour, minute>>
        BY <2>1 DEF Clock
      <4>2. hour \in Int /\ minute \in Int
        OBVIOUS
      <4>3. ~Later(t, t)
        BY <4>1, <4>2 DEF Later
      <4>4. t # Unset
        BY <4>1 DEF Unset
      <4> QED BY <3>1, <4>3, <4>4 DEF BeganAt
    <3> QED BY <2>1, <2>3, <3>1, <3>2
  <2> QED BY <1>9, <2>2, <2>3 DEF LinkCompare, Goto
<1>10. CASE LinkAdd
  <2>1. /\ pc[0] = "add" /\ pc'[0] = "mark" /\ UNCHANGED <<now, changes>>
        /\ \E n \in {loaded, eth_link_count.count} :
             eth_link_count' = [eth_link_count EXCEPT !.count = n + 1]
    BY <1>10 DEF LinkAdd, world, Goto, At
  <2>2. PICK n \in {loaded, eth_link_count.count} :
          eth_link_count' = [eth_link_count EXCEPT !.count = n + 1]
    BY <2>1
  <2>3. n \in Nat /\ n <= loaded /\ loaded \in Nat /\ changes \in Nat
    BY <2>1
  <2>4. eth_link_count'.count = n + 1 /\ eth_link_count'.t_now = eth_link_count.t_now
    BY <2>2
  <2> QED BY <2>1, <2>3, <2>4
<1>11. CASE LinkMark
  <2>1. /\ pc[0] = "mark" /\ pc'[0] = "unlinked" /\ UNCHANGED <<now, changes>>
        /\ eth_link_count'.count = eth_link_count.count
        /\ eth_link_count'.t_begin = eth_link_count.t_now
    BY <1>11 DEF LinkMark, world, Goto, At
  <2> QED BY <2>1
<1>12. ASSUME NEW w \in Levels, ResetClear(w) PROVE (CountOfThisMinute /\ LookUnderWay)'
  <2>1. eth_link_count' = NoMinutes /\ UNCHANGED <<now, t, loaded>>
    BY <1>12 DEF ResetClear, Ethernet_parameter_init, world
  <2>2. CASE pc[0] \in {"compare", "add"}
    <3>1. UNCHANGED <<changes, pc[0]>>
      BY <1>12, <2>2 DEF ResetClear, Goto, At
    <3> QED BY <2>1, <2>2, <3>1 DEF NoMinutes
  <2>3. CASE pc[0] \notin {"compare", "add"}
    <3>1. changes' = 0
      BY <1>12, <2>3 DEF ResetClear
    <3>2. pc'[0] \notin {"compare", "add"}
      BY <1>12, <2>3 DEF ResetClear, Goto, At, Returns, Resetting
    <3> QED BY <2>1, <3>1, <3>2 DEF NoMinutes
  <2> QED BY <2>2, <2>3
<1>13. ASSUME NEW time \in Clock, ClockMoves(time) PROVE (CountOfThisMinute /\ LookUnderWay)'
  <2>1. /\ UNCHANGED <<eth_link_count, pc, t, loaded>> /\ now' # now
        /\ changes' = OneMore(changes, eth_link_time + 1)
    BY <1>13 DEF ClockMoves, counters, control
  <2>2. /\ changes' >= changes /\ changes' \in Nat /\ changes' >= 1
        /\ changes' = changes + 1 \/ changes' = eth_link_time + 1
    BY <2>1 DEF OneMore
  <2>3. pc[0] \in {"compare", "add"} => eth_link_count.count <= eth_link_time
    BY DEF FlagServed, OverdueIsSeen
  <2>4. pc[0] = "add" => loaded <= eth_link_time
    OBVIOUS
  <2>5. CountOfThisMinute'
    BY <2>1, <2>2
  <2>6. pc[0] = "compare" => LookUnderWay'
    BY <2>1, <2>2, <2>3
  <2>7. pc[0] # "compare" => LookUnderWay'
    BY <2>1, <2>2, <2>4
  <2> QED BY <2>5, <2>6, <2>7
<1> QED BY <1>3, <1>4, <1>5, <1>6, <1>7, <1>8, <1>9, <1>10, <1>11, <1>12, <1>13, Steps

(* Sockets. *)
LEMMA FollowsSockets ==
  ASSUME IInv, [Next]_vars
  PROVE  SocketsFollow'
<1> USE SupervisorAssumption DEF IInv, TypeOK, SocketsFollow, Open, Places, Returns, Resetting
<1>1. CASE LinkSeen
  BY <1>1 DEF LinkSeen, world, network, counters, control, Goto, At
<1>2. CASE LinkMissed
  BY <1>2 DEF LinkMissed, world, network, counters, control, Goto, At
<1>2a. CASE LinkCompare
  BY <1>2a DEF LinkCompare, world, network, counters, control, Goto, At
<1>2b. CASE LinkAdd
  BY <1>2b DEF LinkAdd, world, network, counters, control, Goto, At
<1>2c. CASE LinkMark
  BY <1>2c DEF LinkMark, world, network, counters, control, Goto, At
<1>3. CASE LinkDecision
  BY <1>3 DEF LinkDecision, world, network, counters, control, Goto, At
<1>4. CASE InitStateRead
  BY <1>4 DEF InitStateRead, world, network, counters, control, Goto, At
<1>5. CASE ConfiguredRead
  BY <1>5 DEF ConfiguredRead, world, network, counters, control, Goto, At
<1>6. CASE CommunicationInit
  BY <1>6 DEF CommunicationInit, world, network, counters, control, Goto, At
<1>7. CASE RecvCheck
  BY <1>7 DEF RecvCheck, world, network, counters, control, Goto, At
<1>8. CASE RecvStore
  BY <1>8 DEF RecvStore, world, network, counters, control, Goto, At
<1>9. CASE RecvDecision
  BY <1>9 DEF RecvDecision, world, network, counters, control, Goto, At
<1>10. CASE FlagRead
  BY <1>10 DEF FlagRead, world, network, counters, control, Goto, At, CallReset, OneMore
<1>11. CASE TestInput
  BY <1>11 DEF TestInput, world, network, counters, control, Goto, At, CallReset
<1>12. CASE FrameReceived
  BY <1>12 DEF FrameReceived, world, network, counters, control, Goto, At
<1>13. CASE LinkChanges
  BY <1>13 DEF LinkChanges, world, network, counters, control, Goto, At
<1>14. ASSUME NEW r \in {0, 1}, Configure(r) PROVE SocketsFollow'
  BY <1>14 DEF Configure, Ethernet_parameter_init, Zero, NoMinutes, world, network, counters,
     control, Goto, At
<1>15. ASSUME NEW w \in Levels, ConsoleReset(w) PROVE SocketsFollow'
  BY <1>15 DEF ConsoleReset, world, network, counters, control, Goto, At, CallReset
<1>16. ASSUME NEW w \in Levels, ResetTest(w) PROVE SocketsFollow'
  BY <1>16 DEF ResetTest, world, network, counters, control, Goto, At
<1>17. ASSUME NEW w \in Levels, CloseEth(w) PROVE SocketsFollow'
  BY <1>17 DEF CloseEth, world, network, counters, control, Goto, At
<1>18. ASSUME NEW w \in Levels, ResetClear(w) PROVE SocketsFollow'
  BY <1>18 DEF ResetClear, world, network, counters, control, Goto, At, Uninitialised,
     Ethernet_parameter_init, Zero, NoMinutes
<1>19. ASSUME NEW time \in Clock, ClockMoves(time) PROVE SocketsFollow'
  BY <1>19 DEF ClockMoves, OneMore, MaxChanges, world, network, counters, control, Goto, At
<1>20. CASE UNCHANGED vars
  BY <1>20 DEF vars, world, network, counters, control, Goto, At
<1> QED
  BY <1>1, <1>2, <1>2a, <1>2b, <1>2c, <1>3, <1>4, <1>5, <1>6, <1>7, <1>8, <1>9,
     <1>10, <1>11, <1>12, <1>13, <1>14, <1>15, <1>16, <1>17, <1>18, <1>19, <1>20,
     Steps

(* Types. *)
LEMMA KeepsTypes ==
  ASSUME IInv, [Next]_vars
  PROVE  TypeOK'
<1> USE SupervisorAssumption DEF IInv, TypeOK, OverdueIsSeen, FlagServed, Returns, Resetting,
     Places, Begins, MaxChanges, MaxSoft, OneMore
<1>1. CASE LinkSeen
  BY <1>1 DEF LinkSeen, world, network, counters, control, Goto, At
<1>2. CASE LinkMissed
  BY <1>2 DEF LinkMissed, world, network, counters, control, Goto, At
<1>2a. CASE LinkCompare
  BY <1>2a DEF LinkCompare, world, network, counters, control, Goto, At
<1>2b. CASE LinkAdd
  BY <1>2b DEF LinkAdd, world, network, counters, control, Goto, At
<1>2c. CASE LinkMark
  BY <1>2c DEF LinkMark, world, network, counters, control, Goto, At
<1>3. CASE LinkDecision
  BY <1>3 DEF LinkDecision, world, network, counters, control, Goto, At
<1>4. CASE InitStateRead
  BY <1>4 DEF InitStateRead, world, network, counters, control, Goto, At
<1>5. CASE ConfiguredRead
  BY <1>5 DEF ConfiguredRead, world, network, counters, control, Goto, At
<1>6. CASE CommunicationInit
  BY <1>6 DEF CommunicationInit, world, network, counters, control, Goto, At
<1>7. CASE RecvCheck
  BY <1>7 DEF RecvCheck, world, network, counters, control, Goto, At
<1>8. CASE RecvStore
  <2>1. loaded + 1 \in 0 .. eth_recv_time + 1 /\ 0 \in 0 .. eth_recv_time
    BY <1>8 DEF RecvStore, At
  <2>2. eth_recv_count' \in [count : 0 .. eth_recv_time + 1, t_begin : Begins, t_now : Begins,
                            SWRST_count : 0 .. ETH_SWRST_COUNT]
    BY <1>8, <2>1 DEF RecvStore
  <2> QED BY <1>8, <2>1, <2>2 DEF RecvStore, world, network, counters, control, Goto, At
<1>9. CASE RecvDecision
  BY <1>9 DEF RecvDecision, world, network, counters, control, Goto, At
<1>10. CASE FlagRead
  BY <1>10 DEF FlagRead, world, network, counters, control, Goto, At, CallReset, OneMore
<1>11. CASE TestInput
  BY <1>11 DEF TestInput, world, network, counters, control, Goto, At, CallReset
<1>12. CASE FrameReceived
  <2>1. 0 \in 0 .. eth_recv_time + 1 /\ 0 \in 0 .. ETH_SWRST_COUNT /\ 0 \in 0 .. MaxSoft
    OBVIOUS
  <2>2. eth_recv_count' \in [count : 0 .. eth_recv_time + 1, t_begin : Begins, t_now : Begins,
                            SWRST_count : 0 .. ETH_SWRST_COUNT]
    BY <1>12, <2>1 DEF FrameReceived
  <2> QED BY <1>12, <2>1, <2>2 DEF FrameReceived, world, network, counters, control
<1>13. CASE LinkChanges
  BY <1>13 DEF LinkChanges, world, network, counters, control, Goto, At
<1>14. ASSUME NEW r \in {0, 1}, Configure(r) PROVE TypeOK'
  BY <1>14 DEF Configure, Ethernet_parameter_init, Zero, NoMinutes, world, network, counters,
     control, Goto, At
<1>15. ASSUME NEW w \in Levels, ConsoleReset(w) PROVE TypeOK'
  BY <1>15 DEF ConsoleReset, world, network, counters, control, Goto, At, CallReset
<1>16. ASSUME NEW w \in Levels, ResetTest(w) PROVE TypeOK'
  BY <1>16 DEF ResetTest, world, network, counters, control, Goto, At
<1>17. ASSUME NEW w \in Levels, CloseEth(w) PROVE TypeOK'
  BY <1>17 DEF CloseEth, world, network, counters, control, Goto, At
<1>18. ASSUME NEW w \in Levels, ResetClear(w) PROVE TypeOK'
  BY <1>18 DEF ResetClear, world, network, counters, control, Goto, At, Uninitialised,
     Ethernet_parameter_init, Zero, NoMinutes
<1>19. ASSUME NEW time \in Clock, ClockMoves(time) PROVE TypeOK'
  <2>1. now' \in Clock /\ looked' \in BOOLEAN
    BY <1>19 DEF ClockMoves
  <2>2. changes' \in 0 .. MaxChanges
    BY <1>19 DEF ClockMoves
  <2> QED BY <1>19, <2>1, <2>2 DEF ClockMoves, network, counters, control
<1>20. CASE UNCHANGED vars
  BY <1>20 DEF vars, world, network, counters, control, Goto, At
<1> QED
  BY <1>1, <1>2, <1>2a, <1>2b, <1>2c, <1>3, <1>4, <1>5, <1>6, <1>7, <1>8, <1>9,
     <1>10, <1>11, <1>12, <1>13, <1>14, <1>15, <1>16, <1>17, <1>18, <1>19, <1>20,
     Steps

LEMMA Inductive == IInv /\ [Next]_vars => IInv'
BY ServesFlag, BoundsCounters, CountsByMinutes, FollowsSockets, KeepsTypes DEF IInv

LEMMA Invariant == Spec => []IInv
BY Initially, Inductive, PTL DEF Spec

-----------------------------------------------------------------------------
(* The counters never run past the times allowed by more than one. *)
THEOREM TypeCorrect == Spec => []TypeOK
<1>1. IInv => TypeOK
  BY DEF IInv
<1> QED BY <1>1, Invariant, PTL

(* A reset request is served in the pass that makes it, whatever resets    *)
(* the shells interleave.                                                  *)
THEOREM RequestsServed == Spec => []FlagServed
<1>1. IInv => FlagServed
  BY DEF IInv
<1> QED BY <1>1, Invariant, PTL

(* The interface is never reset for a lost link before the clock has moved *)
(* as often as the time set, since the count was last cleared to stay so:  *)
(* also when a shell's reset falls into the increment, between the load of *)
(* the count and its store, and when the clock moves during a look.        *)
THEOREM MinutesCounted == Spec => []CountsMinutes
<1>1. IInv => CountsMinutes
  BY DEF IInv, CountOfThisMinute
<1> QED BY <1>1, Invariant, PTL

(* Without a console reset the sockets are opened and closed in turn. *)
THEOREM SocketsInTurn == Spec => []SocketsAlternate
<1>1. IInv => SocketsAlternate
  BY DEF IInv, SocketsFollow, SocketsAlternate
<1> QED BY <1>1, Invariant, PTL
-----------------------------------------------------------------------------
(* The list of interfaces and the DMA, which follow the supervision.       *)

(* The list is empty wherever the supervision has closed.  A ring is made  *)
(* only by an opening, and only a closing ends the interface after it.     *)
ListFollows ==
  /\ netif_list \in {"empty", "one", "ring"}
  /\ pc[0] = "configure" => EthInitState = 0
  /\ pc[0] = "open" /\ netif_list # "empty" => EthInitState = 1
  /\ netif_list = "ring" => EthInitState = 1 /\ pc[0] \notin {"configured", "open"}
  /\ \A w \in Levels : pc[w] = "clear" => netif_list = "empty" \/ EthInitState = 0
  /\ consoles = 0 =>
       /\ netif_list # "ring"
       /\ pc[0] \in {"configured", "open", "clear"} \/ EthInitState = 0 => netif_list = "empty"

NetInv == ListFollows /\ UpMeansRunning

LEMMA NetStep == ASSUME [NetNext]_net_vars PROVE [Next]_vars
BY DEF NetNext, Next, MainLoop, Reset, Configured, Opened, Closed, Received, Commanded, Elsewhere,
       net_vars

LEMMA KeepsList ==
  ASSUME IInv, NetInv, [NetNext]_net_vars
  PROVE  NetInv'
<1> USE SupervisorAssumption DEF IInv, TypeOK, SocketsFollow, Returns, Resetting, NetInv,
        ListFollows, UpMeansRunning, num
<1>1. CASE LinkSeen /\ UNCHANGED interface
  BY <1>1 DEF LinkSeen, interface, world, network, control, Goto, At
<1>2. CASE LinkMissed /\ UNCHANGED interface
  BY <1>2 DEF LinkMissed, interface, world, network, control, Goto, At
<1>2a. CASE (LinkCompare \/ LinkAdd \/ LinkMark) /\ UNCHANGED interface
  BY <1>2a DEF LinkCompare, LinkAdd, LinkMark, interface, world, network, control, Goto, At
<1>3. CASE LinkDecision /\ UNCHANGED interface
  BY <1>3 DEF LinkDecision, interface, world, network, control, Goto, At
<1>4. CASE InitStateRead /\ UNCHANGED interface
  BY <1>4 DEF InitStateRead, interface, world, network, control, Goto, At
<1>5. CASE ConfiguredRead /\ UNCHANGED interface
  BY <1>5 DEF ConfiguredRead, interface, world, network, control, Goto, At
<1>6. CASE RecvCheck /\ UNCHANGED interface
  BY <1>6 DEF RecvCheck, interface, world, network, control, Goto, At
<1>7. CASE RecvStore /\ UNCHANGED interface
  BY <1>7 DEF RecvStore, interface, world, network, control, Goto, At
<1>8. CASE RecvDecision /\ UNCHANGED interface
  BY <1>8 DEF RecvDecision, interface, world, network, control, Goto, At
<1>9. CASE FlagRead /\ UNCHANGED interface
  BY <1>9 DEF FlagRead, interface, world, network, control, Goto, At, CallReset
<1>10. CASE TestInput /\ UNCHANGED interface
  BY <1>10 DEF TestInput, interface, world, network, control, Goto, At, CallReset
<1>11. CASE LinkChanges /\ UNCHANGED interface
  BY <1>11 DEF LinkChanges, interface, world, network, control, Goto, At
<1>12. ASSUME NEW time \in Clock, ClockMoves(time), UNCHANGED interface PROVE NetInv'
  BY <1>12 DEF ClockMoves, interface, world, network, control, Goto, At
<1>13. ASSUME NEW w \in Levels, ResetTest(w), UNCHANGED interface PROVE NetInv'
  BY <1>13 DEF ResetTest, interface, world, network, control, Goto, At
<1>14. ASSUME NEW w \in Levels, ResetClear(w), UNCHANGED interface PROVE NetInv'
  BY <1>14 DEF ResetClear, Uninitialised, interface, world, network, control, Goto, At
<1>15. ASSUME NEW w \in Levels, Commanded(w) PROVE NetInv'
  BY <1>15 DEF Commanded, ConsoleReset, CallReset, interface, world, network, control, Goto, At
<1>16. ASSUME NEW w \in Levels, Closed(w) PROVE NetInv'
  BY <1>16 DEF Closed, CloseEth, LwIP_Close, interface, world, network, control, Goto, At
<1>17. CASE Received
  BY <1>17 DEF Received, FrameReceived, interface, world, network, control, Goto, At
<1>18. ASSUME NEW r \in {0, 1}, Configured(r) PROVE NetInv'
  BY <1>18 DEF Configured, Configure, interface, world, network, control, Goto, At, Running
<1>19. CASE Opened
  <2>1. /\ pc[0] = "open" /\ pc'[0] = "flag" /\ UNCHANGED <<EthInitState, consoles>>
        /\ \A w \in Levels : pc'[w] # "clear"
        /\ netif_list # "ring"
        /\ consoles = 0 => EthInitState = 1 /\ netif_list = "empty"
    BY <1>19 DEF Opened, CommunicationInit, Goto, At, Running
  <2>2. CASE Found
    <3>1. UNCHANGED interface
      BY <1>19, <2>2 DEF Opened, LwIP_Init
    <3> QED BY <2>1, <2>2, <3>1 DEF Found, interface
  <2>3. CASE ~Found
    <3>1. netif_add
      BY <1>19, <2>3 DEF Opened, LwIP_Init
    <3> QED BY <2>1, <3>1 DEF netif_add
  <2> QED BY <2>2, <2>3
<1>20. CASE UNCHANGED net_vars
  BY <1>20 DEF net_vars, vars, interface, world, network, control, Goto, At
<1> QED
  BY <1>1, <1>2, <1>2a, <1>3, <1>4, <1>5, <1>6, <1>7, <1>8, <1>9, <1>10,
     <1>11, <1>12, <1>13, <1>14, <1>15, <1>16, <1>17, <1>18, <1>19, <1>20,
     ClockSteps DEF NetNext, Elsewhere

LEMMA NetInvariant == NetSpec => [](IInv /\ NetInv)
<1>1. NetInit => IInv /\ NetInv
  BY Initially, SupervisorAssumption DEF NetInit, Init, NetInv, ListFollows, UpMeansRunning
<1>2. IInv /\ NetInv /\ [NetNext]_net_vars => (IInv /\ NetInv)'
  BY NetStep, Inductive, KeepsList
<1> QED BY <1>1, <1>2, PTL DEF NetSpec

(* What is proved of the supervision is proved of it with its interface. *)
THEOREM NetImplements == NetSpec => Spec
<1>1. NetInit => Init
  BY DEF NetInit
<1>2. [NetNext]_net_vars => [Next]_vars
  BY NetStep
<1> QED BY <1>1, <1>2, PTL DEF NetSpec, Spec

(* No walk along the list of interfaces is endless, unless a shell's reset *)
(* has doubled an opening; LwIP_Init's own search not even then.           *)
THEOREM NetWalksEnd == NetSpec => []WalksEnd
<1>1. IInv /\ NetInv => WalksEnd
  BY DEF IInv, SocketsFollow, NetInv, ListFollows, WalksEnd
<1> QED BY <1>1, NetInvariant, PTL

(* The interface is never taken for up while its DMA stands, but for the   *)
(* one number that is searched for.                                        *)
THEOREM NetUpMeansRunning == NetSpec => []UpMeansRunning
<1>1. NetInv => UpMeansRunning
  BY DEF NetInv
<1> QED BY <1>1, NetInvariant, PTL
-----------------------------------------------------------------------------
(* What silence and midnight lead to. *)

(* A software reset clears the number of software resets with the other    *)
(* parameters, so the number is 0 again at the next decision.              *)
SoftForgotten == eth_recv_count.SWRST_count > 0 => eth_reset_flag = "software"

(* However long no frame comes, the supervision asks for software resets   *)
(* only: the hardware reset that is to follow ETH_SWRST_COUNT of them is   *)
(* never asked for.                                                        *)
SilenceOnlySoft ==
  ETH_SWRST_COUNT > 0 => [][RecvDecision => eth_reset_flag' # "hardware"]_vars

THEOREM SilenceResetsSoftly == Spec => SilenceOnlySoft
<1>1. Init => SoftForgotten
  BY DEF Init, Zero, SoftForgotten
<1>2. IInv /\ SoftForgotten /\ [Next]_vars => SoftForgotten'
  <2> SUFFICES ASSUME IInv, SoftForgotten, [Next]_vars PROVE SoftForgotten'
    OBVIOUS
  <2> USE DEF SoftForgotten, IInv, TypeOK
  <2>1. CASE RecvDecision
    BY <2>1, SupervisorAssumption DEF RecvDecision, At, FlagServed
  <2>2. CASE LinkDecision
    BY <2>2 DEF LinkDecision, At, FlagServed
  <2>3. CASE RecvCheck \/ RecvStore
    <3>1. UNCHANGED eth_reset_flag /\ eth_recv_count'.SWRST_count = eth_recv_count.SWRST_count
      BY <2>3 DEF RecvCheck, RecvStore
    <3> QED BY <3>1
  <2>3a. CASE FrameReceived
    <3>1. eth_recv_count'.SWRST_count = 0
      BY <2>3a DEF FrameReceived
    <3> QED BY <3>1
  <2>4. CASE \E r \in {0, 1} : Configure(r)
    BY <2>4 DEF Configure, Ethernet_parameter_init, Zero, NoMinutes
  <2>5. ASSUME NEW w \in Levels, ResetClear(w) PROVE SoftForgotten'
    BY <2>5 DEF ResetClear, Ethernet_parameter_init, Zero, NoMinutes
  <2>6. \/ UNCHANGED <<eth_recv_count, eth_reset_flag>>
        \/ RecvDecision \/ LinkDecision \/ RecvCheck \/ RecvStore \/ FrameReceived
        \/ \E r \in {0, 1} : Configure(r)
        \/ \E w \in Levels : ResetClear(w)
    BY Steps DEF LinkSeen, LinkMissed, LinkCompare, LinkAdd, LinkMark, InitStateRead,
       ConfiguredRead, CommunicationInit, FlagRead,
       TestInput, LinkChanges, ConsoleReset, ResetTest, CloseEth, ClockMoves, counters, vars
  <2> QED BY <2>1, <2>2, <2>3, <2>3a, <2>4, <2>5, <2>6
<1>3. IInv /\ SoftForgotten /\ ETH_SWRST_COUNT > 0 =>
        [RecvDecision => eth_reset_flag' # "hardware"]_vars
  <2> SUFFICES ASSUME IInv, SoftForgotten, ETH_SWRST_COUNT > 0, RecvDecision
               PROVE  eth_reset_flag' # "hardware"
    OBVIOUS
  <2>1. eth_reset_flag = "none" /\ eth_recv_count.SWRST_count = 0
    BY DEF RecvDecision, At, IInv, FlagServed, SoftForgotten, TypeOK
  <2> QED BY <2>1 DEF RecvDecision
<1>4. Spec => [](IInv /\ SoftForgotten)
  BY <1>1, <1>2, Initially, Inductive, PTL DEF Spec
<1>5. CASE ETH_SWRST_COUNT > 0
  <2>1. IInv /\ SoftForgotten => [RecvDecision => eth_reset_flag' # "hardware"]_vars
    BY <1>3, <1>5
  <2>2. Spec => [][RecvDecision => eth_reset_flag' # "hardware"]_vars
    BY <1>4, <2>1, PTL
  <2> QED BY <2>2 DEF SilenceOnlySoft
<1> QED BY <1>5 DEF SilenceOnlySoft

(* A count of minutes without a link whose minute is the last of the day   *)
(* never goes on: it keeps that minute, through any number of days and     *)
(* even when the link comes back and is lost again, until a reset or a     *)
(* negotiation starts it anew.                                             *)
LastMinute == <<Hours - 1, Minutes - 1>>

MidnightStops ==
  [][eth_link_count.t_begin = LastMinute =>
       \/ /\ eth_link_count'.t_begin = LastMinute
          /\ eth_link_count'.count \in {0, eth_link_count.count}
       \/ eth_link_count' = NoMinutes]_vars

(* No look adds to such a count. *)
NoneToAdd == pc[0] \in {"add", "mark"} => eth_link_count.t_begin # LastMinute

LEMMA NothingLater == ASSUME NEW time \in Clock PROVE ~Later(time, LastMinute)
BY SupervisorAssumption DEF Clock, Later, LastMinute

THEOREM CountStopsAtMidnight == Spec => MidnightStops
<1>1. Init => NoneToAdd
  BY SupervisorAssumption DEF Init, NoneToAdd
<1>2. LastMinute # Unset
  BY DEF LastMinute, Unset
<1>3. IInv /\ NoneToAdd /\ [Next]_vars => NoneToAdd'
  <2> SUFFICES ASSUME IInv, NoneToAdd, [Next]_vars, pc'[0] \in {"add", "mark"}
               PROVE  eth_link_count'.t_begin # LastMinute
    BY DEF NoneToAdd
  <2> USE SupervisorAssumption DEF NoneToAdd, IInv, TypeOK
  <2>1. CASE LinkCompare
    <3>1. eth_link_count'.t_begin = eth_link_count.t_begin /\ t \in Clock /\ Later(t, BeganAt)
      BY <2>1 DEF LinkCompare, Goto, At
    <3> QED BY <3>1, <1>2, NothingLater DEF BeganAt
  <2>2. CASE LinkAdd
    <3>1. pc[0] = "add" /\ eth_link_count'.t_begin = eth_link_count.t_begin
      BY <2>2 DEF LinkAdd, At
    <3> QED BY <3>1
  <2>3. CASE \E w \in Levels : ResetClear(w)
    BY <1>2, <2>3 DEF ResetClear, Ethernet_parameter_init, NoMinutes
  <2>4. ASSUME NEW w \in Levels, ConsoleReset(w) \/ ResetTest(w) \/ CloseEth(w)
        PROVE  pc'[0] = pc[0] /\ eth_link_count' = eth_link_count
    BY <2>4 DEF ConsoleReset, ResetTest, CloseEth, CallReset, counters, Goto, At
  <2>5. CASE FrameReceived \/ LinkChanges \/ (\E time \in Clock : ClockMoves(time))
             \/ UNCHANGED vars
    BY <2>5 DEF FrameReceived, LinkChanges, ClockMoves, counters, control, vars
  <2>6. ~(\/ LinkSeen \/ LinkMissed \/ LinkMark \/ LinkDecision \/ InitStateRead \/ ConfiguredRead
          \/ CommunicationInit \/ RecvCheck \/ RecvStore \/ RecvDecision \/ FlagRead
          \/ TestInput \/ \E r \in {0, 1} : Configure(r))
    BY DEF LinkSeen, LinkMissed, LinkMark, LinkDecision, InitStateRead, ConfiguredRead,
       CommunicationInit, RecvCheck, RecvStore, RecvDecision, FlagRead, TestInput, Configure,
       CallReset, Goto, At
  <2> QED BY <2>1, <2>2, <2>3, <2>4, <2>5, <2>6, Steps
<1>4. IInv /\ NoneToAdd /\ [Next]_vars =>
        [eth_link_count.t_begin = LastMinute =>
           \/ /\ eth_link_count'.t_begin = LastMinute
              /\ eth_link_count'.count \in {0, eth_link_count.count}
           \/ eth_link_count' = NoMinutes]_vars
  <2> DEFINE Stays == \/ /\ eth_link_count'.t_begin = LastMinute
                         /\ eth_link_count'.count \in {0, eth_link_count.count}
                      \/ eth_link_count' = NoMinutes
  <2> SUFFICES ASSUME TypeOK, NoneToAdd, [Next]_vars, eth_link_count.t_begin = LastMinute
               PROVE  Stays
    BY DEF IInv
  <2>1. CASE LinkMissed
    BY <1>2, <2>1 DEF LinkMissed
  <2>2. CASE LinkCompare
    <3>1. ~Later(t, BeganAt)
      BY <1>2, <2>2, NothingLater DEF LinkCompare, At, BeganAt, TypeOK
    <3> QED BY <2>2, <3>1 DEF LinkCompare
  <2>3. CASE LinkSeen
    BY <2>3 DEF LinkSeen, TypeOK
  <2>4. CASE (\E r \in {0, 1} : Configure(r)) \/ \E w \in Levels : ResetClear(w)
    BY <2>4 DEF Configure, ResetClear, Ethernet_parameter_init
  <2>5. ~LinkAdd /\ ~LinkMark
    BY DEF LinkAdd, LinkMark, At, NoneToAdd
  <2>6. \/ UNCHANGED eth_link_count
        \/ LinkSeen \/ LinkMissed \/ LinkCompare \/ LinkAdd \/ LinkMark
        \/ (\E r \in {0, 1} : Configure(r)) \/ \E w \in Levels : ResetClear(w)
    BY Steps DEF LinkDecision, InitStateRead, ConfiguredRead, CommunicationInit, RecvCheck,
       RecvStore, RecvDecision, FlagRead, TestInput, FrameReceived, LinkChanges, ConsoleReset,
       ResetTest, CloseEth, ClockMoves, counters, vars
  <2> QED BY <2>1, <2>2, <2>3, <2>4, <2>5, <2>6
<1>5. Spec => [](IInv /\ NoneToAdd)
  BY <1>1, <1>3, Initially, Inductive, PTL DEF Spec
<1> QED BY <1>4, <1>5, PTL DEF Spec, MidnightStops
-----------------------------------------------------------------------------
(* Recovery.  Fairness speaks of the actions that are enabled, which TLAPS *)
(* cannot decide; Unblocked says where they are, as their guards have it.  *)
(* It is an invariant of the run's instance.                               *)
(* CommandsEnd stands for the bound MaxConsoleResets: whoever resets the   *)
(* interface again and again keeps it down.                                *)
CanReset(w) == ENABLED <<Reset(w)>>_vars

Unblocked ==
  /\ Running(0) /\ pc[0] \notin Resetting => ENABLED <<MainLoop>>_vars
  /\ At(0, "configure") => ENABLED <<Configure(1)>>_vars
  /\ \A w \in Levels : Running(w) /\ pc[w] \in Resetting => CanReset(w)

Commanding == \E w \in Levels : ConsoleReset(w)
CommandsEnd == <>[][~Commanding]_vars

Above(w) == \A v \in Levels : v > w => pc[v] = "idle"
ComesToRest(w) == <>[](pc[w] = "idle")
Calm == \A w \in Levels \ {0} : pc[w] = "idle"

LEMMA LevelNumbers == 0 \in Levels /\ \A w \in Levels : w \in 0 .. 2
BY SupervisorAssumption

(* A step of a level that is not commanded to reset goes on with the reset *)
(* or leaves the level where it is.                                        *)
LEMMA ResetGoesOn ==
  ASSUME IInv, [Next]_vars, ~Commanding \/ UNCHANGED vars, NEW w \in Levels \ {0}
  PROVE  /\ pc[w] \in Resetting \cup {"idle"}
         /\ ~Reset(w) => pc'[w] = pc[w]
         /\ Reset(w) => \/ pc[w] = "reset" /\ pc'[w] \in {"close", "clear"}
                        \/ pc[w] = "close" /\ pc'[w] = "clear"
                        \/ pc[w] = "clear" /\ pc'[w] = "idle"
<1> USE LevelNumbers DEF IInv, TypeOK, Resetting
<1>1. pc[w] \in Resetting \cup {"idle"}
  OBVIOUS
<1>2. Reset(w) => \/ pc[w] = "reset" /\ pc'[w] \in {"close", "clear"}
                  \/ pc[w] = "close" /\ pc'[w] = "clear"
                  \/ pc[w] = "clear" /\ pc'[w] = "idle"
  BY DEF Reset, ResetTest, CloseEth, ResetClear, Goto, At, Returns
<1>3. ASSUME ~Reset(w) PROVE pc'[w] = pc[w]
  <2>1. \/ UNCHANGED pc
        \/ \E place \in Places : Goto(0, place)
        \/ \E v \in Levels \ {w}, place \in Places \cup {"idle"} : Goto(v, place)
    <3>1. CASE \E v \in Levels : ResetTest(v) \/ CloseEth(v) \/ ResetClear(v)
      <4>1. PICK v \in Levels : ResetTest(v) \/ CloseEth(v) \/ ResetClear(v)
        BY <3>1
      <4>2. v # w
        BY <1>3, <4>1 DEF Reset
      <4>3. Goto(v, IF EthInitState = 1 THEN "close" ELSE "clear") \/ Goto(v, "clear") \/ Goto(v,
           back[v])
        BY <4>1 DEF ResetTest, CloseEth, ResetClear
      <4>4. back[v] \in Places \cup {"idle"}
        BY DEF Places
      <4> QED BY <4>2, <4>3, <4>4 DEF Places
    <3>2. CASE \/ LinkSeen \/ LinkMissed \/ LinkCompare \/ LinkAdd \/ LinkMark \/ LinkDecision
               \/ InitStateRead \/ ConfiguredRead
               \/ CommunicationInit \/ RecvCheck \/ RecvStore \/ RecvDecision \/ FlagRead
               \/ TestInput \/ \E r \in {0, 1} : Configure(r)
      BY <3>2 DEF LinkSeen, LinkMissed, LinkCompare, LinkAdd, LinkMark, LinkDecision,
         InitStateRead, ConfiguredRead,
         CommunicationInit, RecvCheck, RecvStore, RecvDecision, FlagRead, TestInput, Configure,
         CallReset, Places
    <3>3. CASE FrameReceived \/ LinkChanges \/ (\E time \in Clock : ClockMoves(time))
               \/ UNCHANGED vars
      BY <3>3 DEF FrameReceived, LinkChanges, ClockMoves, control, vars
    <3>4. ~Commanding \/ UNCHANGED vars
      OBVIOUS
    <3> QED BY <3>1, <3>2, <3>3, <3>4, Steps DEF Commanding
  <2> QED BY <2>1 DEF Goto
<1> QED BY <1>1, <1>2, <1>3

(* A reset of a shell comes to its end. *)
LEMMA ResetEnds ==
  ASSUME NEW w \in Levels \ {0}
  PROVE  /\ [][Next]_vars /\ []IInv /\ []Unblocked /\ CommandsEnd
         /\ ResetContinues(w) /\ <>[]Above(w)
         => ComesToRest(w)
<1> DEFINE Idle == pc[w] = "idle"
           First == pc[w] = "reset"
           Second == pc[w] = "close"
           Third == pc[w] = "clear"
<1>1. IInv => Idle \/ First \/ Second \/ Third
  BY DEF IInv, TypeOK
<1>2. IInv /\ [Next]_vars /\ [~Commanding]_vars =>
        /\ Idle => Idle'
        /\ First => First' \/ Second' \/ Third'
        /\ Second => Second' \/ Third'
        /\ Third => Third' \/ Idle'
  BY ResetGoesOn DEF Resetting
<1>3. IInv /\ [Next]_vars /\ [~Commanding]_vars /\ <<Reset(w)>>_vars =>
        /\ First => Second' \/ Third'
        /\ Second => Third'
        /\ Third => Idle'
  BY ResetGoesOn
<1>4. Unblocked /\ Above(w) /\ (First \/ Second \/ Third) => CanReset(w)
  BY DEF Unblocked, Above, Running, Resetting
<1>5. ~(Idle /\ First) /\ ~(Idle /\ Second) /\ ~(Idle /\ Third)
  OBVIOUS
<1> HIDE DEF Idle, First, Second, Third
<1>6. /\ [][Next]_vars /\ []IInv /\ []Unblocked /\ CommandsEnd
      /\ ResetContinues(w) /\ <>[]Above(w)
      => <>[]Idle
  BY <1>1, <1>2, <1>3, <1>4, PTL DEF CommandsEnd, ResetContinues, CanReset
<1> QED BY <1>6 DEF Idle, ComesToRest

(* The shells come to rest. *)
LEMMA ShellsRest ==
  FairSpec /\ []Unblocked /\ CommandsEnd => <>[]Calm
<1> DEFINE Premises == FairSpec /\ []Unblocked /\ CommandsEnd
<1>1. Premises => /\ [][Next]_vars /\ []IInv /\ []Unblocked /\ CommandsEnd
  BY Invariant, PTL DEF FairSpec, Spec
<1>1a. Premises => \A w \in Levels : ResetContinues(w)
  BY PTL DEF FairSpec, Fairness
<1>2. ASSUME NEW w \in Levels PROVE Premises => ResetContinues(w)
  BY <1>1a
<1>3. ASSUME NEW w \in Levels \ {0}, w = 2 PROVE Premises => ComesToRest(w)
  <2>1. Above(w)
    BY <1>3, LevelNumbers DEF Above
  <2>2. w \in Levels
    OBVIOUS
  <2>3. Premises => ResetContinues(w)
    BY <1>2, <2>2
  <2>4. Premises => <>[]Above(w)
    BY <2>1, PTL
  <2> QED BY <1>1, <2>3, <2>4, ResetEnds
<1>4. ASSUME NEW w \in Levels \ {0} PROVE Premises => ComesToRest(w)
  <2>1. CASE \A v \in Levels : ~(v > w)
    <3>1. Above(w)
      BY <2>1 DEF Above
    <3>2. Premises => <>[]Above(w)
      BY <3>1, PTL
    <3>3. Premises => ResetContinues(w)
      BY <1>2
    <3> QED BY <1>1, <3>2, <3>3, ResetEnds
  <2>2. CASE \E v \in Levels : v > w
    <3>1. PICK v \in Levels \ {0} : v = 2 /\ \A u \in Levels : u > w => u = v
      BY <2>2, LevelNumbers
    <3>2. Premises => ComesToRest(v)
      BY <1>3, <3>1
    <3>3. pc[v] = "idle" => Above(w)
      BY <3>1 DEF Above
    <3>4. Premises => <>[]Above(w)
      BY <3>2, <3>3, PTL DEF ComesToRest
    <3>5. Premises => ResetContinues(w)
      BY <1>2
    <3> QED BY <1>1, <3>4, <3>5, ResetEnds
  <2> QED BY <2>1, <2>2
<1>5. CASE Levels = {0}
  <2>1. Calm
    BY <1>5 DEF Calm
  <2> QED BY <2>1, PTL
<1>6. CASE \E u \in Levels \ {0} : TRUE
  <2>1. PICK u \in Levels \ {0}, v \in Levels \ {0} : \A w \in Levels \ {0} : w = u \/ w = v
    <3>1. Levels \ {0} \subseteq {1, 2}
      BY LevelNumbers
    <3>2. PICK u \in Levels \ {0} : TRUE
      BY <1>6
    <3> QED BY <3>1, <3>2
  <2>2. pc[u] = "idle" /\ pc[v] = "idle" => Calm
    BY <2>1 DEF Calm
  <2>3. (Premises => ComesToRest(u)) /\ (Premises => ComesToRest(v))
    BY <1>4
  <2>4. Premises => <>[]Calm
    BY <2>2, <2>3, PTL DEF ComesToRest
  <2> QED BY <2>4
<1> QED BY <1>5, <1>6, LevelNumbers

(* Between a negotiation and the opening after it, and between a closing   *)
(* and the end of the reset, EthInitState says 1 of closed sockets;        *)
(* nowhere else.                                                           *)
Halfway ==
  EthInitState = 1 =>
    \/ Open \/ pc[0] \in {"configured", "open"}
    \/ \E w \in Levels : pc[w] = "clear"

LEMMA HalfwayAlways == Spec => []Halfway
<1>1. Init => Halfway
  BY DEF Init, Halfway
<1>2. IInv /\ Halfway /\ [Next]_vars => Halfway'
  <2> SUFFICES ASSUME IInv, Halfway, [Next]_vars PROVE Halfway'
    OBVIOUS
  <2> USE LevelNumbers DEF IInv, TypeOK, Halfway, Open, Goto, At, Running
  <2>1. CASE LinkSeen \/ LinkMissed \/ LinkCompare \/ LinkAdd \/ LinkMark \/ LinkDecision
             \/ InitStateRead \/ RecvCheck
    BY <2>1 DEF LinkSeen, LinkMissed, LinkCompare, LinkAdd, LinkMark, LinkDecision, InitStateRead,
       RecvCheck, network
  <2>2. CASE RecvStore \/ RecvDecision \/ FlagRead \/ TestInput
    BY <2>2 DEF RecvStore, RecvDecision, FlagRead, TestInput, CallReset, network
  <2>3. CASE ConfiguredRead \/ CommunicationInit \/ \E r \in {0, 1} : Configure(r)
    BY <2>3 DEF ConfiguredRead, CommunicationInit, Configure, network
  <2>4. CASE FrameReceived \/ LinkChanges \/ (\E time \in Clock : ClockMoves(time))
             \/ UNCHANGED vars
    BY <2>4 DEF FrameReceived, LinkChanges, ClockMoves, network, control, vars
  <2>5. ASSUME NEW w \in Levels, ConsoleReset(w) PROVE Halfway'
    BY <2>5 DEF ConsoleReset, CallReset, network
  <2>6. ASSUME NEW w \in Levels, ResetTest(w) PROVE Halfway'
    BY <2>6 DEF ResetTest, network
  <2>7. ASSUME NEW w \in Levels, CloseEth(w) PROVE Halfway'
    BY <2>7 DEF CloseEth
  <2>8. ASSUME NEW w \in Levels, ResetClear(w) PROVE Halfway'
    BY <2>8 DEF ResetClear, Uninitialised
  <2> QED BY <2>1, <2>2, <2>3, <2>4, <2>5, <2>6, <2>7, <2>8, Steps
<1> QED BY <1>1, <1>2, Invariant, PTL DEF Spec

-----------------------------------------------------------------------------
(* How far the main loop is from the next negotiation, while there is a    *)
(* link, no shell is resetting and the interface is not up.                *)
Up == EthInitState = 1 /\ Open

(* After a request _TEST follows, which may reset once more: a reset that  *)
(* returns to it is farther away than one that _TEST makes.                *)
DistanceFrom(place, next) ==
  CASE place = "configure" -> 0
    [] place = "linked" -> 1
    [] place = "top" -> 2
    [] place = "clear" -> IF next = "test" THEN 7 ELSE 3
    [] place = "close" -> IF next = "test" THEN 8 ELSE 4
    [] place = "reset" -> IF next = "test" THEN 9 ELSE 5
    [] place = "test" -> 6
    [] place = "flag" -> 10
    [] place \in {"unlinked", "decide", "open"} -> 11
    [] place \in {"store", "configured", "mark"} -> 12
    [] place \in {"receive", "add"} -> 13
    [] place = "compare" -> 14

Distance == DistanceFrom(pc[0], back[0])

LEMMA Distances ==
  ASSUME NEW next
  PROVE  /\ DistanceFrom("configure", next) = 0 /\ DistanceFrom("linked", next) = 1
         /\ DistanceFrom("top", next) = 2 /\ DistanceFrom("test", next) = 6
         /\ DistanceFrom("clear", next) = IF next = "test" THEN 7 ELSE 3
         /\ DistanceFrom("close", next) = IF next = "test" THEN 8 ELSE 4
         /\ DistanceFrom("reset", next) = IF next = "test" THEN 9 ELSE 5
         /\ DistanceFrom("flag", next) = 10 /\ DistanceFrom("unlinked", next) = 11
         /\ DistanceFrom("decide", next) = 11 /\ DistanceFrom("open", next) = 11
         /\ DistanceFrom("store", next) = 12 /\ DistanceFrom("configured", next) = 12
         /\ DistanceFrom("mark", next) = 12 /\ DistanceFrom("receive", next) = 13
         /\ DistanceFrom("add", next) = 13 /\ DistanceFrom("compare", next) = 14
BY DEF DistanceFrom

LEMMA StepNearer ==
  ASSUME NEW place, NEW next, NEW place2, NEW next2,
         \/ place = "reset" /\ place2 = "clear" /\ next2 = next
         \/ place = "close" /\ place2 = "clear" /\ next2 = next
         \/ place = "clear" /\ place2 = next /\ next \in {"top", "test"}
         \/ place = "top" /\ place2 = "linked"
         \/ place = "compare" /\ place2 \in {"add", "unlinked"}
         \/ place = "add" /\ place2 = "mark"
         \/ place = "mark" /\ place2 = "unlinked"
         \/ place = "unlinked" /\ place2 = "flag"
         \/ place = "linked" /\ place2 = "configure"
         \/ place = "configured" /\ place2 \in {"open", "flag"}
         \/ place = "open" /\ place2 = "flag"
         \/ place = "receive" /\ place2 \in {"flag", "store"}
         \/ place = "store" /\ place2 = "decide"
         \/ place = "decide" /\ place2 = "flag"
         \/ place = "flag" /\ place2 \in {"test", "reset"}
         \/ place = "test" /\ (place2 = "top" \/ (place2 = "reset" /\ next2 = "top"))
  PROVE  DistanceFrom(place2, next2) \in 0 .. DistanceFrom(place, next) - 1
BY Distances

Down == IInv /\ Halfway /\ Calm /\ link /\ ~Up

LEMMA Nearer ==
  ASSUME Down, Down', [Next]_vars
  PROVE  /\ Distance \in 0 .. 14
         /\ Distance = 0 <=> pc[0] = "configure"
         /\ ~MainLoop /\ ~Reset(0) => Distance' = Distance /\ pc'[0] = pc[0]
                                       /\ EthInitState' = EthInitState
         /\ (MainLoop \/ Reset(0)) /\ Distance # 0 => Distance' \in 0 .. Distance - 1
<1> USE LevelNumbers DEF Down, IInv, TypeOK
<1>1. pc[0] \in Places
  OBVIOUS
<1>2. Distance \in 0 .. 14 /\ (Distance = 0 <=> pc[0] = "configure")
  <2> DEFINE place == pc[0]
             next == back[0]
  <2>1. place \in Places
    BY <1>1
  <2> HIDE DEF place, next
  <2>2. DistanceFrom(place, next) \in 0 .. 14
        /\ (DistanceFrom(place, next) = 0 <=> place = "configure")
    BY <2>1, Distances DEF Places
  <2> QED BY <2>2 DEF Distance, place, next
<1>3. ASSUME ~MainLoop, ~Reset(0)
      PROVE  UNCHANGED <<pc[0], back[0], EthInitState>>
  <2>1. \A w \in Levels : ~Reset(w) /\ ~ConsoleReset(w)
    BY <1>3 DEF Calm, Reset, ResetTest, CloseEth, ResetClear, At, ConsoleReset, CallReset, Goto
  <2>2. FrameReceived \/ LinkChanges \/ (\E time \in Clock : ClockMoves(time)) \/ UNCHANGED vars
    BY <1>3, <2>1, ClockSteps DEF Next
  <2> QED BY <2>2 DEF FrameReceived, LinkChanges, ClockMoves, network, control, vars
<1>4. EthInitState = 1 => pc[0] \in {"configured", "open", "clear"}
  BY DEF Halfway, Calm, Up
<1>5. CASE Reset(0)
  <2>1. \/ pc[0] = "reset" /\ pc'[0] = "clear" /\ back'[0] = back[0]
        \/ pc[0] = "close" /\ pc'[0] = "clear" /\ back'[0] = back[0]
        \/ pc[0] = "clear" /\ pc'[0] = back[0] /\ back[0] \in {"top", "test"}
    BY <1>4, <1>5 DEF Reset, ResetTest, CloseEth, ResetClear, Goto, At, Returns, Resetting
  <2>2. pc[0] # "configure" => DistanceFrom(pc'[0], back'[0]) \in 0 .. DistanceFrom(pc[0],
       back[0]) - 1
    BY ONLY <2>1, StepNearer
  <2> QED BY ONLY <1>1, <1>2, <2>2, <1>5 DEF Distance
<1>6. CASE MainLoop
  <2>1. \/ pc[0] = "top" /\ pc'[0] = "linked"
        \/ pc[0] = "compare" /\ pc'[0] \in {"add", "unlinked"}
        \/ pc[0] = "add" /\ pc'[0] = "mark"
        \/ pc[0] = "mark" /\ pc'[0] = "unlinked"
        \/ pc[0] = "unlinked" /\ pc'[0] = "flag"
        \/ pc[0] = "linked" /\ pc'[0] = "configure"
        \/ pc[0] = "configure"
        \/ pc[0] = "configured" /\ pc'[0] \in {"open", "flag"}
        \/ pc[0] = "open" /\ pc'[0] = "flag"
        \/ pc[0] = "receive" /\ pc'[0] \in {"flag", "store"}
        \/ pc[0] = "store" /\ pc'[0] = "decide"
        \/ pc[0] = "decide" /\ pc'[0] = "flag"
        \/ pc[0] = "flag" /\ pc'[0] \in {"test", "reset"}
        \/ pc[0] = "test" /\ (pc'[0] = "top" \/ (pc'[0] = "reset" /\ back'[0] = "top"))
    <3>1. CASE LinkSeen \/ LinkMissed \/ LinkCompare \/ LinkAdd \/ LinkMark \/ LinkDecision
               \/ InitStateRead
      BY <1>4, <3>1 DEF LinkSeen, LinkMissed, LinkCompare, LinkAdd, LinkMark, LinkDecision,
         InitStateRead, Goto, At
    <3>2. CASE ConfiguredRead \/ CommunicationInit \/ Configure(0) \/ Configure(1)
      BY <3>2 DEF ConfiguredRead, CommunicationInit, Configure, Goto, At
    <3>3. CASE RecvCheck \/ RecvStore \/ RecvDecision
      BY <3>3 DEF RecvCheck, RecvStore, RecvDecision, Goto, At
    <3>4. CASE FlagRead \/ TestInput
      BY <3>4 DEF FlagRead, TestInput, CallReset, Goto, At
    <3> QED BY <1>6, <3>1, <3>2, <3>3, <3>4 DEF MainLoop
  <2>2. pc[0] # "configure" => DistanceFrom(pc'[0], back'[0]) \in 0 .. DistanceFrom(pc[0],
       back[0]) - 1
    BY ONLY <2>1, StepNearer
  <2> QED BY ONLY <1>1, <1>2, <2>2, <1>6 DEF Distance
<1>7. ~MainLoop /\ ~Reset(0) => Distance' = Distance
  BY <1>3 DEF Distance
<1> QED BY <1>2, <1>3, <1>5, <1>6, <1>7

LoopMoves == []<><<MainLoop>>_vars \/ []<><<Reset(0)>>_vars

(* While it is down the main loop never stands still. *)
LEMMA LoopGoesOn ==
  /\ [][Next]_vars /\ []Unblocked /\ WF_vars(MainLoop) /\ ResetContinues(0) /\ <>[]Down
  => LoopMoves
<1> DEFINE InReset == pc[0] \in Resetting
<1>1. Down /\ Down' /\ [Next]_vars /\ [~MainLoop]_vars /\ [~Reset(0)]_vars =>
        (InReset => InReset') /\ (~InReset => ~InReset')
  BY Nearer DEF vars, control
<1>2. Down /\ Unblocked =>
        /\ ~InReset => ENABLED <<MainLoop>>_vars
        /\ InReset => CanReset(0)
  <2> SUFFICES ASSUME Down, Unblocked
               PROVE  /\ ~InReset => ENABLED <<MainLoop>>_vars
                      /\ InReset => CanReset(0)
    OBVIOUS
  <2>1. Running(0)
    BY LevelNumbers DEF Down, Calm, Running
  <2> QED BY <2>1, LevelNumbers DEF Unblocked
<1> HIDE DEF InReset
<1> QED BY <1>1, <1>2, PTL DEF ResetContinues, CanReset, LoopMoves

(* So it negotiates again and again. *)
LEMMA ConfiguresAgain ==
  [][Next]_vars /\ <>[]Down /\ LoopMoves
  => []<>(pc[0] = "configure")
<1> DEFINE Within(n) == Distance <= n
<1>1. Down /\ Down' /\ [Next]_vars =>
        /\ Within(14)
        /\ Within(0) <=> pc[0] = "configure"
  BY Nearer
<1>2. ASSUME NEW n \in 1 .. 14, Down, Down', [Next]_vars, Within(n), ~Within(0)
      PROVE  Within(n)' /\ (<<MainLoop>>_vars \/ <<Reset(0)>>_vars => Within(n - 1)')
  BY <1>2, Nearer
<1>3. Down /\ Down' /\ [Next]_vars /\ ~Within(0) =>
        /\ Within(1) => Within(1)'
        /\ Within(2) => Within(2)'
        /\ Within(3) => Within(3)'
        /\ Within(4) => Within(4)'
        /\ Within(5) => Within(5)'
        /\ Within(6) => Within(6)'
        /\ Within(7) => Within(7)'
        /\ Within(8) => Within(8)'
        /\ Within(9) => Within(9)'
        /\ Within(10) => Within(10)'
        /\ Within(11) => Within(11)'
        /\ Within(12) => Within(12)'
        /\ Within(13) => Within(13)'
  BY <1>2
<1>4. Down /\ Down' /\ [Next]_vars /\ ~Within(0) /\ (<<MainLoop>>_vars \/ <<Reset(0)>>_vars) =>
        /\ Within(1) => Within(0)'
        /\ Within(2) => Within(1)'
        /\ Within(3) => Within(2)'
        /\ Within(4) => Within(3)'
        /\ Within(5) => Within(4)'
        /\ Within(6) => Within(5)'
        /\ Within(7) => Within(6)'
        /\ Within(8) => Within(7)'
        /\ Within(9) => Within(8)'
        /\ Within(10) => Within(9)'
        /\ Within(11) => Within(10)'
        /\ Within(12) => Within(11)'
        /\ Within(13) => Within(12)'
        /\ Within(14) => Within(13)'
  BY <1>2
<1> HIDE DEF Within
<1> QED BY <1>1, <1>3, <1>4, PTL DEF LoopMoves

(* RecoversWhileLinked: main.c keeps bringing the interface up while there *)
(* is a link.  Wherever a reset, a failed negotiation or a command leaves  *)
(* it down, each step of the loop is one nearer to the next negotiation;   *)
(* and one that succeeds is followed by the opening.                       *)
THEOREM Recovery == FairSpec /\ []Unblocked /\ CommandsEnd => RecoversWhileLinked
<1> DEFINE Premises == FairSpec /\ []Unblocked /\ CommandsEnd
           Negotiated == pc[0] = "configured" /\ EthInitState = 1
           Opening == pc[0] = "open" /\ EthInitState = 1
<1>1. Premises => /\ [][Next]_vars /\ []IInv /\ []Halfway /\ <>[]Calm /\ []Unblocked
                  /\ WF_vars(MainLoop) /\ SF_vars(Configure(1))
  BY Invariant, HalfwayAlways, ShellsRest, PTL DEF FairSpec, Fairness, Spec
<1>2. Premises => ResetContinues(0)
  <2>1. Premises => \A w \in Levels : ResetContinues(w)
    BY PTL DEF FairSpec, Fairness
  <2> QED BY <2>1, LevelNumbers
<1>3. Premises /\ <>[]link /\ <>[]~Up => <>[]Down
  BY <1>1, PTL DEF Down
<1>4. Premises /\ <>[]Down => LoopMoves
  BY <1>1, <1>2, LoopGoesOn, PTL
<1>5. Premises /\ <>[]Down => []<>(pc[0] = "configure")
  BY <1>1, <1>4, ConfiguresAgain, PTL
<1>6. Down /\ Unblocked /\ pc[0] = "configure" => ENABLED <<Configure(1)>>_vars
  BY LevelNumbers DEF Down, Calm, Unblocked, At, Running
<1>7. Down /\ <<Configure(1)>>_vars => Negotiated'
  BY LevelNumbers DEF Configure, Goto, Down, IInv, TypeOK
<1>8. ASSUME Down, Down', [Next]_vars, [~MainLoop]_vars, [~Reset(0)]_vars
      PROVE  (Negotiated => Negotiated') /\ (Opening => Opening')
  BY <1>8, Nearer DEF vars, control, network
<1>9. ASSUME Down, Down', [Next]_vars, Negotiated, <<MainLoop>>_vars \/ <<Reset(0)>>_vars
      PROVE  Opening'
  <2>1. ConfiguredRead
    BY <1>9, LevelNumbers DEF MainLoop, Reset, LinkSeen, LinkMissed, LinkCompare, LinkAdd,
       LinkMark, LinkDecision, InitStateRead,
       Configure, CommunicationInit, RecvCheck, RecvStore, RecvDecision, FlagRead, TestInput,
       ResetTest, CloseEth, ResetClear, At
  <2> QED BY <1>9, <2>1, LevelNumbers DEF ConfiguredRead, Goto, network, Down, IInv, TypeOK
<1>10. ASSUME Down, Down', [Next]_vars, Opening, <<MainLoop>>_vars \/ <<Reset(0)>>_vars
       PROVE  FALSE
  <2>1. CommunicationInit
    BY <1>10, LevelNumbers DEF MainLoop, Reset, LinkSeen, LinkMissed, LinkCompare, LinkAdd,
       LinkMark, LinkDecision, InitStateRead,
       Configure, ConfiguredRead, RecvCheck, RecvStore, RecvDecision, FlagRead, TestInput,
       ResetTest, CloseEth, ResetClear, At
  <2> QED BY <1>10, <2>1 DEF CommunicationInit, Down, Up, Open
<1> HIDE DEF Negotiated, Opening
<1>11. Premises /\ <>[]Down => []<><<Configure(1)>>_vars
  BY <1>1, <1>5, <1>6, PTL
<1>12. Premises /\ <>[]Down => FALSE
  BY <1>1, <1>4, <1>7, <1>8, <1>9, <1>10, <1>11, PTL DEF LoopMoves
<1>13. Up <=> EthInitState = 1 /\ hello_pcb = "listening"
  BY DEF Up, Open
<1> QED BY <1>3, <1>12, <1>13, PTL DEF RecoversWhileLinked

(* CommandsEnd is no more than the bound says: each command counts.  The   *)
(* run has at most one; three are as far as it is counted here.            *)
THEOREM FewCommands == MaxConsoleResets \in 0 .. 3 /\ Spec => CommandsEnd
<1> SUFFICES ASSUME MaxConsoleResets \in 0 .. 3 PROVE Spec => CommandsEnd
  OBVIOUS
<1> DEFINE Given(n) == consoles >= n
<1>1. TypeOK => Given(0) /\ ~Given(4)
  BY DEF TypeOK
<1>2. TypeOK /\ TypeOK' /\ [Next]_vars =>
        /\ Given(1) => Given(1)'
        /\ Given(2) => Given(2)'
        /\ Given(3) => Given(3)'
  <2>1. TypeOK /\ [Next]_vars => consoles' >= consoles
    <3> SUFFICES ASSUME TypeOK, [Next]_vars PROVE consoles' >= consoles
      OBVIOUS
    <3>1. ASSUME NEW w \in Levels, ConsoleReset(w) \/ ResetTest(w) \/ CloseEth(w) \/ ResetClear(w)
          PROVE  consoles' = consoles \/ consoles' = consoles + 1
      BY <3>1 DEF ConsoleReset, ResetTest, CloseEth, ResetClear
    <3>2. \/ consoles' = consoles
          \/ \E w \in Levels : ConsoleReset(w) \/ ResetTest(w) \/ CloseEth(w) \/ ResetClear(w)
      BY Steps DEF LinkSeen, LinkMissed, LinkCompare, LinkAdd, LinkMark, LinkDecision,
         InitStateRead, ConfiguredRead,
         CommunicationInit, RecvCheck, RecvStore, RecvDecision, FlagRead, TestInput, FrameReceived,
         LinkChanges, Configure, ClockMoves, control, vars
    <3> QED BY <3>1, <3>2 DEF TypeOK
  <2> QED BY <2>1 DEF TypeOK
<1>3. TypeOK /\ Commanding =>
        /\ Given(0) => Given(1)'
        /\ Given(1) => Given(2)'
        /\ Given(2) => Given(3)'
        /\ Given(3) => Given(4)'
  BY DEF TypeOK, Commanding, ConsoleReset
<1> HIDE DEF Given
<1> QED BY <1>1, <1>2, <1>3, TypeCorrect, PTL DEF Spec, CommandsEnd

(* And so does the supervision with its interface. *)
THEOREM NetRecovery == NetFairSpec /\ []Unblocked /\ CommandsEnd => RecoversWhileLinked
BY NetImplements, Recovery, PTL DEF NetFairSpec, FairSpec
=============================================================================
