---------------------------- MODULE NetInterface ----------------------------
(***************************************************************************)
(* What the supervision's openings and closings do to lwIP's list of       *)
(* interfaces and to the Ethernet DMA: LwIP_Init and LwIP_Close of         *)
(* user/netconf.c, netif_add, netif_find and netif_remove of lwIP's        *)
(* netif.c, and low_level_init of ethernetif.c.                            *)
(*                                                                         *)
(* There is one struct netif.  LwIP_Init adds it to the list unless it     *)
(* finds an interface "st0"; netif_add gives it the next number, and the   *)
(* search compares that number with the character '0'.  Added while it is  *)
(* in the list, it becomes its own successor, and a walk along the list    *)
(* that finds nothing never ends.                                          *)
(***************************************************************************)
EXTENDS EthSupervisor

CONSTANTS
  NetifNumbers,    \* the numbers an interface can have: 2^8
  Zero_Character   \* the code of '0'

ASSUME NumbersAssumption ==
  NetifNumbers \in Nat \ {0} /\ Zero_Character \in 0 .. NetifNumbers - 1

VARIABLES
  netif_list,   \* "empty", "one": the interface, "ring": the interface again and again
  netifnum,     \* the number that netif_add gives next
  started       \* the DMA's descriptors are linked and it runs

interface == <<netif_list, netifnum, started>>
net_vars == <<vars, interface>>

-----------------------------------------------------------------------------
(* Mutants used to show that the properties below can fail. *)
StaysListed == UNCHANGED interface
FoundByName == netif_list # "empty"

num == (netifnum + NetifNumbers - 1) % NetifNumbers

(* netif_find("st0") *)
Found == netif_list # "empty" /\ num = Zero_Character

(* netif_add, which calls ethernetif_init and so low_level_init. *)
netif_add ==
  /\ netif_list' = IF netif_list = "empty" THEN "one" ELSE "ring"
  /\ netifnum' = (netifnum + 1) % NetifNumbers
  /\ started' = TRUE

LwIP_Init == IF Found THEN UNCHANGED interface ELSE netif_add

(* The search is for the number given last, so it ends at the head. A ring *)
(* is dissolved too; the DMA goes on.                                      *)
LwIP_Close == netif_list' = "empty" /\ UNCHANGED <<netifnum, started>>

NetInit == Init /\ netif_list = "empty" /\ netifnum = 0 /\ started = FALSE

(* ETH_DeInit and ETH_SoftwareReset stop the DMA. *)
Configured(result) ==
  Configure(result) /\ started' = FALSE /\ UNCHANGED <<netif_list, netifnum>>

Opened == CommunicationInit /\ LwIP_Init
Closed(w) == CloseEth(w) /\ LwIP_Close

(* Frames, and with them telnet's commands, come through the DMA. *)
Received == started /\ FrameReceived /\ UNCHANGED interface
Commanded(w) == (w = 2 => started) /\ ConsoleReset(w) /\ UNCHANGED interface

Elsewhere ==
  /\ \/ LinkSeen \/ LinkMissed \/ LinkCompare \/ LinkAdd \/ LinkMark \/ LinkDecision
     \/ InitStateRead \/ ConfiguredRead
     \/ RecvCheck \/ RecvStore \/ RecvDecision
     \/ FlagRead \/ TestInput
     \/ \E w \in Levels : ResetTest(w) \/ ResetClear(w)
     \/ LinkChanges \/ Tick \/ ClockSet
  /\ UNCHANGED interface

NetNext ==
  \/ Configured(0) \/ Configured(1) \/ Opened
  \/ \E w \in Levels : Closed(w) \/ Commanded(w)
  \/ Received \/ Elsewhere

NetSpec == NetInit /\ [][NetNext]_net_vars
NetFairSpec == NetSpec /\ Fairness

-----------------------------------------------------------------------------
(* The walks along the list end, as the changes in netif.c are to ensure   *)
(* (netif.c:199, :215): LwIP_Init never searches a ring, whatever resets   *)
(* the shells put between a negotiation and the opening after it; and      *)
(* unless a shell resets the interface there is never a ring, which        *)
(* ip_input would walk for ever at the first packet for another station.   *)
WalksEnd ==
  /\ pc[0] = "open" => netif_list # "ring"
  /\ consoles = 0 => netif_list # "ring"

(* An interface that the supervision takes for up has its DMA running with *)
(* fresh descriptors.  The exception is an opening that a shell's reset    *)
(* doubled, if the interface happens to be number 48: LwIP_Init then finds *)
(* "st0" and leaves the DMA stopped, until the missing frames are noticed. *)
UpMeansRunning ==
  EthInitState = 1 /\ pc[0] \notin {"configured", "open"} =>
    started \/ (consoles > 0 /\ num = Zero_Character)
=============================================================================
