------------------------------ MODULE TcpPcbs ------------------------------
(***************************************************************************)
(* The list of active TCP connections: lwIP's tcp.c and tcp_in.c as this   *)
(* project has changed them, and the telnet server's callbacks             *)
(* (helloworld.c).  The Modbus server's do the same with their buffer.     *)
(*                                                                         *)
(* A segment is handled in the Ethernet interrupt and changes the list in  *)
(* one step.  tcp_slowtmr walks the same list in the main loop (tcp_tmr    *)
(* from LwIP_Periodic_Handle), with prev and pcb in local variables, and   *)
(* a segment may come between any two of its steps: nothing protects the   *)
(* list (NO_SYS 1, SYS_LIGHTWEIGHT_PROT 0).  A reset of the Ethernet       *)
(* closes all connections one by one, and segments come between these      *)
(* steps too; the serial console's command does so in its interrupt, in    *)
(* the middle of tcp_slowtmr.  The model ends when a block has been taken  *)
(* out at the wrong place or given back twice: what a broken list or pool  *)
(* does is not modelled.                                                   *)
(***************************************************************************)
EXTENDS Integers

CONSTANTS
  Pcbs,    \* the control blocks of the pool: MEMP_NUM_TCP_PCB, 10
  Null     \* the null pointer

ASSUME PcbAssumption == Null \notin Pcbs

VARIABLES
  tcp_active_pcbs,  \* the head of the list
  next,             \* pcb->next, also of blocks in the pool
  tcp_state,        \* pcb->state
  free,             \* the blocks in the pool
  callback_arg,     \* what became of what accept has allocated
  tmr_pc, pcb, prev,  \* tcp_slowtmr
  after,              \* the pcb->next that it has read and will store, else Null
  closing,              \* tcp_close_all_active: its pcb, Null when it does not run
  Termpcb, term_state,  \* where SOE texts go, and whether: comstate[TERM].state
  damaged,          \* history: a block taken out at the wrong place or given back twice
  told,             \* history: Termpcb was not ended by the server itself
  alone             \* history: Termpcb was accepted with no other session open

list == <<tcp_active_pcbs, next>>
blocks == <<tcp_state, free, callback_arg>>
timer == <<tmr_pc, pcb, prev, after, closing>>
terminal == <<Termpcb, term_state, told, alone>>
pcb_vars == <<list, blocks, timer, terminal, damaged>>

-----------------------------------------------------------------------------
(* The blocks that a search from the head meets; Null is among them when   *)
(* the list ends.  Whatever is closed under the pointers holds them.       *)
Pointers == Pcbs \cup {Null}
Followed(S) == tcp_active_pcbs \in S /\ \A q \in S \ {Null} : next[q] \in S
OnList(x) == \A S \in SUBSET Pointers : Followed(S) => x \in S
Reached == {x \in Pointers : OnList(x)}
Before(p) == CHOOSE q \in Pcbs : next[q] = p /\ OnList(q)

(* The list without block p: TCP_RMV. *)
HeadWithout(p) == IF p = tcp_active_pcbs THEN next[p] ELSE tcp_active_pcbs
NextWithout(p) ==
  IF p = tcp_active_pcbs THEN next ELSE [next EXCEPT ![Before(p)] = next[p]]

TcpInit ==
  /\ tcp_active_pcbs = Null /\ next = [p \in Pcbs |-> Null]
  /\ tcp_state = [p \in Pcbs |-> "CLOSED"] /\ free = Pcbs
  /\ callback_arg = [p \in Pcbs |-> "none"]
  /\ tmr_pc = "idle" /\ pcb = Null /\ prev = Null /\ after = Null /\ closing = Null
  /\ Termpcb = Null /\ term_state = 0
  /\ damaged = FALSE /\ told = TRUE /\ alone = TRUE

(* The main loop walks on when no interrupt closes connections. *)
Walks == closing = Null /\ UNCHANGED closing

(* Mutants used to show that the properties below can fail: the block      *)
(* stays where it was as well; the error callback is not called; the       *)
(* console stays marked as connected; the end of the list is not tested.   *)
FrontOnly(p) ==
  /\ tcp_active_pcbs' = p
  /\ next' = IF p = tcp_active_pcbs THEN next ELSE [next EXCEPT ![p] = tcp_active_pcbs]
ErrorUntold(p) == UNCHANGED <<callback_arg, terminal>>
StaysConnected == UNCHANGED term_state
ExpireAtEnd ==
  /\ tmr_pc = "walk" /\ Walks
  /\ tmr_pc' = "remove"
  /\ UNCHANGED <<list, blocks, pcb, prev, after, terminal, damaged>>

(* HelloWorld_conn_err, which accept has registered, frees the argument.   *)
AfterErr(p) ==
  CASE callback_arg[p] = "held" -> "released"
    [] callback_arg[p] = "released" -> "released twice"
    [] OTHER -> callback_arg[p]

ErrorTold(p) ==
  /\ callback_arg' = [callback_arg EXCEPT ![p] = AfterErr(p)]
  /\ told' = (told /\ p # Termpcb)
  /\ UNCHANGED <<Termpcb, term_state, alone>>

(* tcp_input finds the connection and moves it to the front.               *)
MoveToFront(p) ==
  /\ tcp_active_pcbs' = p
  /\ next' = IF p = tcp_active_pcbs THEN next ELSE [NextWithout(p) EXCEPT ![p] = tcp_active_pcbs]

(* ... and takes it out of the list and gives it back.                     *)
TakeOut(p) ==
  /\ tcp_active_pcbs' = HeadWithout(p)
  /\ next' = [NextWithout(p) EXCEPT ![p] = Null]
  /\ tcp_state' = [tcp_state EXCEPT ![p] = "CLOSED"]
  /\ free' = free \cup {p}

-----------------------------------------------------------------------------
(* A segment that changes nothing but the order.                           *)
Segment(p) ==
  /\ p # tcp_active_pcbs /\ OnList(p)
  /\ MoveToFront(p)
  /\ UNCHANGED <<blocks, timer, terminal, damaged>>

(* The handshake is complete: HelloWorld_accept.                           *)
Established(p) ==
  /\ tcp_state[p] = "SYN_RCVD" /\ OnList(p)
  /\ MoveToFront(p)
  /\ tcp_state' = [tcp_state EXCEPT ![p] = "ESTABLISHED"]
  /\ callback_arg' = [callback_arg EXCEPT ![p] = "held"]
  /\ Termpcb' = p /\ term_state' = 1 /\ told' = TRUE
  /\ alone' = (\A q \in Pcbs \ {p} : tcp_state[q] # "ESTABLISHED")
  /\ UNCHANGED <<free, timer, damaged>>

(* A line for HelloWorld_recv. *)
Line(p) ==
  /\ tcp_state[p] = "ESTABLISHED" /\ OnList(p)
  /\ MoveToFront(p)
  /\ term_state' = 1
  /\ UNCHANGED <<blocks, timer, Termpcb, told, alone, damaged>>

(* The other end closes.  HelloWorld_recv frees the argument and calls     *)
(* tcp_close; if that finds no memory for the FIN nobody tries again.      *)
Offline == term_state' = 0

RemoteClose(p) ==
  /\ tcp_state[p] = "ESTABLISHED" /\ OnList(p)
  /\ MoveToFront(p)
  /\ \E s \in {"LAST_ACK", "CLOSE_WAIT"} : tcp_state' = [tcp_state EXCEPT ![p] = s]
  /\ callback_arg' = [callback_arg EXCEPT ![p] = "released"]
  /\ Offline
  /\ UNCHANGED <<free, timer, Termpcb, told, alone, damaged>>

LastAck(p) ==
  /\ tcp_state[p] = "LAST_ACK" /\ OnList(p)
  /\ TakeOut(p)
  /\ UNCHANGED <<callback_arg, timer, terminal, damaged>>

Reset(p) ==
  /\ OnList(p)
  /\ ErrorTold(p)
  /\ TakeOut(p)
  /\ UNCHANGED <<timer, damaged>>

(* A SYN is for nobody on the list: tcp_listen_input registers a block of  *)
(* the pool.                                                               *)
Register(p, head, rest) ==
  /\ tcp_active_pcbs' = p
  /\ next' = [rest EXCEPT ![p] = head]
  /\ tcp_state' = [tcp_state EXCEPT ![p] = "SYN_RCVD"]
  /\ callback_arg' = [callback_arg EXCEPT ![p] = "none"]

Syn(p) ==
  /\ p \in free
  /\ Register(p, tcp_active_pcbs, next)
  /\ free' = free \ {p}
  /\ UNCHANGED <<timer, terminal, damaged>>

(* The pool is empty: tcp_kill_prio aborts the oldest connection, whose    *)
(* error callback is called, and its block is used for the new one.        *)
SynKills(p) ==
  /\ free = {} /\ OnList(p)
  /\ Register(p, HeadWithout(p), NextWithout(p))
  /\ told' = (told /\ p # Termpcb)
  /\ UNCHANGED <<free, timer, Termpcb, term_state, alone, damaged>>

-----------------------------------------------------------------------------
(* tcp_slowtmr.  It may find any connection's time to be over: too many    *)
(* retransmissions, too long in SYN_RCVD or in LAST_ACK.                   *)
SlowTimer ==
  /\ tmr_pc = "idle" /\ Walks
  /\ tmr_pc' = "walk" /\ prev' = Null /\ pcb' = tcp_active_pcbs
  /\ UNCHANGED <<list, blocks, after, terminal, damaged>>

Keep ==
  /\ tmr_pc = "walk" /\ pcb # Null /\ Walks
  /\ prev' = pcb /\ pcb' = next[pcb]
  /\ UNCHANGED <<list, blocks, tmr_pc, after, terminal, damaged>>

Expire ==
  /\ tmr_pc = "walk" /\ pcb # Null /\ Walks
  /\ tmr_pc' = "remove"
  /\ UNCHANGED <<list, blocks, pcb, prev, after, terminal, damaged>>

(* It reads pcb->next and stores it behind prev or at the head: the right  *)
(* place, if the block still is there and the one behind it as well.       *)
LoadNext ==
  /\ tmr_pc = "remove" /\ Walks
  /\ tmr_pc' = "store" /\ after' = next[pcb]
  /\ UNCHANGED <<list, blocks, pcb, prev, terminal, damaged>>

RightPlace ==
  /\ IF prev = Null THEN tcp_active_pcbs = pcb ELSE next[prev] = pcb /\ OnList(prev)
  /\ after = next[pcb]

Remove ==
  /\ tmr_pc = "store" /\ Walks
  /\ IF prev = Null
       THEN tcp_active_pcbs' = after /\ UNCHANGED next
       ELSE next' = [next EXCEPT ![prev] = after] /\ UNCHANGED tcp_active_pcbs
  /\ damaged' = ~RightPlace /\ after' = Null
  /\ ErrorTold(pcb)
  /\ free' = free \cup {pcb} /\ tcp_state' = [tcp_state EXCEPT ![pcb] = "CLOSED"]
  /\ tmr_pc' = "walk" /\ pcb' = next'[pcb]
  /\ UNCHANGED prev

SlowTimerEnds ==
  /\ tmr_pc = "walk" /\ pcb = Null /\ Walks
  /\ tmr_pc' = "idle" /\ prev' = Null
  /\ UNCHANGED <<list, blocks, pcb, after, terminal, damaged>>

-----------------------------------------------------------------------------
(* A reset of the Ethernet: tcp_close_all_active calls nobody.  The main   *)
(* loop or the serial console runs it, and takes the head out as it finds  *)
(* it, unless a segment has just ended that connection.                    *)
CloseBegins ==
  /\ closing = Null /\ tcp_active_pcbs # Null
  /\ closing' = tcp_active_pcbs
  /\ UNCHANGED <<list, blocks, tmr_pc, pcb, prev, after, terminal, damaged>>

CloseOne ==
  /\ closing # Null
  /\ \/ OnList(closing) /\ TakeOut(closing) /\ UNCHANGED damaged
     \/ ~OnList(closing) /\ damaged' = TRUE /\ UNCHANGED <<list, tcp_state, free>>
  /\ closing' = tcp_active_pcbs'
  /\ told' = (told /\ closing # Termpcb)
  /\ UNCHANGED <<callback_arg, tmr_pc, pcb, prev, after, Termpcb, term_state, alone>>

(* Telnet's own reset command closes all connections at once, its own      *)
(* among them, and is still in its callback.  If the other end closes with *)
(* the same segment, HelloWorld_recv frees its argument and tcp_close      *)
(* gives the block back a second time.                                     *)
TelnetResets(p) ==
  /\ tcp_state[p] = "ESTABLISHED" /\ OnList(p)
  /\ tcp_active_pcbs' = Null
  /\ next' = [q \in Pcbs |-> IF OnList(q) THEN Null ELSE next[q]]
  /\ tcp_state' = [q \in Pcbs |-> IF OnList(q) THEN "CLOSED" ELSE tcp_state[q]]
  /\ free' = free \cup {q \in Pcbs : OnList(q)}
  /\ told' = FALSE
  /\ \/ term_state' = 1 /\ UNCHANGED <<callback_arg, damaged>>
     \/ /\ term_state' = 0 /\ damaged' = TRUE
        /\ callback_arg' = [callback_arg EXCEPT ![p] = "released"]
  /\ UNCHANGED <<timer, Termpcb, alone>>

(* The list or the pool is broken. *)
Broken == damaged /\ UNCHANGED pcb_vars

TcpNext ==
  \/ /\ ~damaged
     /\ \/ \E p \in Pcbs :
             \/ Segment(p) \/ Established(p) \/ Line(p) \/ RemoteClose(p)
             \/ LastAck(p) \/ Reset(p) \/ Syn(p) \/ SynKills(p) \/ TelnetResets(p)
        \/ SlowTimer \/ Keep \/ Expire \/ LoadNext \/ Remove \/ SlowTimerEnds
        \/ CloseBegins \/ CloseOne
  \/ Broken

TcpSpec == TcpInit /\ [][TcpNext]_pcb_vars

-----------------------------------------------------------------------------
TcpStates == {"CLOSED", "SYN_RCVD", "ESTABLISHED", "CLOSE_WAIT", "LAST_ACK"}

(* Every variable of the connections keeps its type. *)
TcpTypeOK ==
  /\ tcp_active_pcbs \in Pcbs \cup {Null} /\ next \in [Pcbs -> Pcbs \cup {Null}]
  /\ tcp_state \in [Pcbs -> TcpStates] /\ free \subseteq Pcbs
  /\ callback_arg \in [Pcbs -> {"none", "held", "released", "released twice"}]
  /\ tmr_pc \in {"idle", "walk", "remove", "store"}
  /\ pcb \in Pcbs \cup {Null} /\ prev \in Pcbs \cup {Null} /\ after \in Pcbs \cup {Null}
  /\ tmr_pc \in {"remove", "store"} => pcb # Null
  /\ tmr_pc # "store" => after = Null
  /\ closing \in Pcbs \cup {Null}
  /\ Termpcb \in Pcbs \cup {Null} /\ term_state \in {0, 1}
  /\ damaged \in BOOLEAN /\ told \in BOOLEAN /\ alone \in BOOLEAN

(* The list ends and holds exactly the connections there are, whatever     *)
(* segments come while tcp_slowtmr is walking it or a reset emptying it,   *)
(* until tcp_slowtmr takes a block out of a place it is no longer in or    *)
(* stores a pcb->next that has changed since it was read, or a reset gives *)
(* back a block whose connection has just ended.  That is more than the    *)
(* two assertions in tcp_slowtmr (tcp.c) look at.  Of these steps a        *)
(* segment may come between any two; what a segment does, and how a reset  *)
(* takes one block out (TCP_RMV, memp_free), is one step here.             *)
ListSound ==
  ~damaged => Reached = (Pcbs \ free) \cup {Null}

(* SOE texts go to Termpcb while comstate[TERM].state is 1: that is an     *)
(* open session, if it was accepted alone and ends in HelloWorld_recv.     *)
(* HelloWorld_conn_err, a reset and a second session each leave the        *)
(* texts going to a block that is free or is another connection's.         *)
TextsReachSession ==
  ~damaged /\ term_state = 1 /\ told /\ alone => tcp_state[Termpcb] = "ESTABLISHED"

(* The servers see the callbacks that ConnLife promises, as long as the    *)
(* list is not broken.                                                     *)
Life == INSTANCE ConnLife WITH
  Conns <- Pcbs, live <- Pcbs \ free, arg <- callback_arg,
  resetting <- closing # Null, sound <- ~damaged
CallbacksAsPromised == Life!LifeSpec
=============================================================================
