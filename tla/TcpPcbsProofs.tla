--------------------------- MODULE TcpPcbsProofs ---------------------------
(***************************************************************************)
(* Proofs about TcpPcbs, for any set of control blocks, finite or not.     *)
(*                                                                         *)
(* The list is a Chain: its head and its pointers stay among the           *)
(* connections, no two of them point to the same block and none to the     *)
(* head, and a set that is closed under the pointers holds all of them and *)
(* Null.  The first lemmas say what each way of changing the list does to  *)
(* a chain; no induction along the list is needed.                         *)
(***************************************************************************)
EXTENDS TcpPcbs, TLAPS

USE PcbAssumption DEF Pointers

-----------------------------------------------------------------------------
IsFollowed(h, nx, S) == h \in S /\ \A q \in S \ {Null} : nx[q] \in S

Chain(h, nx, L) ==
  /\ h \in L \cup {Null}
  /\ \A q \in L : nx[q] \in L \cup {Null}
  /\ \A q \in L : nx[q] = h => h = Null
  /\ \A q, r \in L : nx[q] = nx[r] /\ nx[q] # Null => q = r
  /\ \A S \in SUBSET Pointers : IsFollowed(h, nx, S) => L \cup {Null} \subseteq S

(* Every block of a chain but the first has one that points to it. *)
LEMMA HasBefore ==
  ASSUME NEW L \in SUBSET Pcbs, NEW h, NEW nx, Chain(h, nx, L), NEW p \in L, p # h
  PROVE  \E q \in L : nx[q] = p
<1> SUFFICES ASSUME \A q \in L : nx[q] # p PROVE FALSE
  OBVIOUS
<1> DEFINE S == (L \cup {Null}) \ {p}
<1>1. IsFollowed(h, nx, S)
  BY DEF Chain, IsFollowed
<1>2. S \in SUBSET Pointers
  OBVIOUS
<1>3. p \in S
  BY <1>1, <1>2 DEF Chain
<1> QED
  BY <1>3

(* A new block in front of a chain makes a chain. *)
LEMMA Pushed ==
  ASSUME NEW L \in SUBSET Pcbs, NEW h, NEW nx \in [Pcbs -> Pointers],
         Chain(h, nx, L), NEW p \in Pcbs \ L
  PROVE  Chain(p, [nx EXCEPT ![p] = h], L \cup {p})
<1> DEFINE nn == [nx EXCEPT ![p] = h]
           M == L \cup {p}
<1>1. nn[p] = h /\ \A q \in L : nn[q] = nx[q]
  OBVIOUS
<1>2. \A S \in SUBSET Pointers : IsFollowed(p, nn, S) => M \cup {Null} \subseteq S
  <2> SUFFICES ASSUME NEW S \in SUBSET Pointers, IsFollowed(p, nn, S)
               PROVE  M \cup {Null} \subseteq S
    OBVIOUS
  <2> DEFINE T == S \cap (L \cup {Null})
  <2>1. p \in S /\ h \in S
    BY <1>1 DEF IsFollowed
  <2>2. \A q \in T \ {Null} : nx[q] \in T
    BY <1>1 DEF IsFollowed, Chain
  <2>3. IsFollowed(h, nx, T)
    BY <2>1, <2>2 DEF IsFollowed, Chain
  <2>4. L \cup {Null} \subseteq T
    BY <2>3 DEF Chain
  <2> QED
    BY <2>1, <2>4
<1>3. p \in M \cup {Null} /\ \A q \in M : nn[q] \in M \cup {Null}
  BY <1>1 DEF Chain
<1>4. \A q \in M : nn[q] = p => p = Null
  BY <1>1 DEF Chain
<1>5. \A q, r \in M : nn[q] = nn[r] /\ nn[q] # Null => q = r
  BY <1>1 DEF Chain
<1> QED
  BY <1>2, <1>3, <1>4, <1>5 DEF Chain

(* A chain without its first block is a chain. *)
LEMMA HeadTaken ==
  ASSUME NEW L \in SUBSET Pcbs, NEW h \in L, NEW nx, Chain(h, nx, L)
  PROVE  Chain(nx[h], nx, L \ {h})
<1> DEFINE M == L \ {h}
<1>1. \A S \in SUBSET Pointers : IsFollowed(nx[h], nx, S) => M \cup {Null} \subseteq S
  <2> SUFFICES ASSUME NEW S \in SUBSET Pointers, IsFollowed(nx[h], nx, S)
               PROVE  M \cup {Null} \subseteq S
    OBVIOUS
  <2>1. IsFollowed(h, nx, S \cup {h})
    BY DEF IsFollowed
  <2>2. S \cup {h} \in SUBSET Pointers
    OBVIOUS
  <2>3. L \cup {Null} \subseteq S \cup {h}
    BY <2>1, <2>2 DEF Chain
  <2> QED
    BY <2>3
<1>2. h # Null
  OBVIOUS
<1>3. nx[h] \in M \cup {Null} /\ \A q \in M : nx[q] \in M \cup {Null}
  BY <1>2 DEF Chain
<1>4. \A q \in M : nx[q] = nx[h] => nx[h] = Null
  BY DEF Chain
<1>5. \A q, r \in M : nx[q] = nx[r] /\ nx[q] # Null => q = r
  BY DEF Chain
<1> QED
  BY <1>1, <1>3, <1>4, <1>5 DEF Chain

(* A chain without a block that another one points to is a chain. *)
LEMMA NextTaken ==
  ASSUME NEW L \in SUBSET Pcbs, NEW h, NEW nx \in [Pcbs -> Pointers],
         Chain(h, nx, L), NEW b \in L, NEW p \in L, nx[b] = p
  PROVE  /\ Chain(h, [nx EXCEPT ![b] = nx[p]], L \ {p})
         /\ p # h
<1> DEFINE nn == [nx EXCEPT ![b] = nx[p]]
           M == L \ {p}
<1>1. p # h /\ p # Null
  BY DEF Chain
<1>2. nn[b] = nx[p] /\ \A q \in Pcbs \ {b} : nn[q] = nx[q]
  OBVIOUS
<1>3. \A q \in L : nx[q] = p => q = b
  BY <1>1 DEF Chain
<1>4. nx[p] # p
  (* Otherwise b is p, and what is left when p is taken out of the chain   *)
  (* is closed under the pointers.                                         *)
  <2> SUFFICES ASSUME nx[p] = p PROVE FALSE
    OBVIOUS
  <2> DEFINE S == (L \cup {Null}) \ {p}
  <2>1. IsFollowed(h, nx, S)
    BY <1>1, <1>3 DEF Chain, IsFollowed
  <2>2. S \in SUBSET Pointers
    OBVIOUS
  <2>3. p \in S
    BY <2>1, <2>2 DEF Chain
  <2> QED
    BY <2>3
<1>5. b # p
  BY <1>4
<1>6. \A S \in SUBSET Pointers : IsFollowed(h, nn, S) => M \cup {Null} \subseteq S
  <2> SUFFICES ASSUME NEW S \in SUBSET Pointers, IsFollowed(h, nn, S)
               PROVE  M \cup {Null} \subseteq S
    OBVIOUS
  <2> DEFINE T == (S \cap (L \cup {Null})) \ {p}
             U == IF b \in S THEN T \cup {p} ELSE T
  <2>1. h \in T
    BY <1>1 DEF IsFollowed, Chain
  <2>2. ASSUME NEW q \in T \ {Null} PROVE nx[q] \in U
    <3>1. q \in L /\ q \in S /\ q # Null
      OBVIOUS
    <3>2. CASE q = b
      BY <3>2, <3>1
    <3>3. CASE q # b
      <4>1. nx[q] \in S
        BY <3>1, <3>3, <1>2 DEF IsFollowed
      <4>2. nx[q] # p
        BY <3>1, <3>3, <1>3
      <4> QED
        BY <3>1, <4>1, <4>2 DEF Chain
    <3> QED
      BY <3>2, <3>3
  <2>3. b \in S => nx[p] \in U
    <3>1. b # Null
      OBVIOUS
    <3>2. b \in S => nx[p] \in S
      BY <1>2, <3>1 DEF IsFollowed
    <3> QED
      BY <3>2 DEF Chain
  <2>4. IsFollowed(h, nx, U)
    BY <2>1, <2>2, <2>3 DEF IsFollowed
  <2>5. U \in SUBSET Pointers
    OBVIOUS
  <2>6. L \cup {Null} \subseteq U
    BY <2>4, <2>5 DEF Chain
  <2> QED
    BY <2>6
<1>7. h \in M \cup {Null} /\ \A q \in M : nn[q] \in M \cup {Null}
  BY <1>1, <1>2, <1>3, <1>4 DEF Chain
<1>8. \A q \in M : nn[q] = h => h = Null
  BY <1>2 DEF Chain
<1>9. \A q, r \in M : nn[q] = nn[r] /\ nn[q] # Null => q = r
  BY <1>2 DEF Chain
<1> QED
  BY <1>1, <1>6, <1>7, <1>8, <1>9 DEF Chain

(* The pointers of other blocks do not matter. *)
LEMMA OthersIdle ==
  ASSUME NEW L \in SUBSET Pcbs, NEW h, NEW nx, NEW nn,
         Chain(h, nx, L), \A q \in L : nn[q] = nx[q]
  PROVE  Chain(h, nn, L)
<1>1. \A S \in SUBSET Pointers : IsFollowed(h, nn, S) => L \cup {Null} \subseteq S
  <2> SUFFICES ASSUME NEW S \in SUBSET Pointers, IsFollowed(h, nn, S)
               PROVE  L \cup {Null} \subseteq S
    OBVIOUS
  <2> DEFINE T == S \cap (L \cup {Null})
  <2>1. IsFollowed(h, nx, T)
    BY DEF IsFollowed, Chain
  <2>2. L \cup {Null} \subseteq T
    BY <2>1 DEF Chain
  <2> QED
    BY <2>2
<1> QED
  BY <1>1 DEF Chain
-----------------------------------------------------------------------------
Live == Pcbs \ free

(* The list is a chain of all connections. *)
ListInv == ~damaged => Chain(tcp_active_pcbs, next, Live)

(* What the state of a connection says about its argument.                 *)
ArgInv ==
  \A p \in Pcbs :
    /\ p \in free => tcp_state[p] = "CLOSED"
    /\ tcp_state[p] = "SYN_RCVD" => callback_arg[p] = "none"
    /\ tcp_state[p] = "ESTABLISHED" => callback_arg[p] = "held"
    /\ tcp_state[p] \in {"CLOSE_WAIT", "LAST_ACK"} => callback_arg[p] = "released"

(* A session that was accepted alone is the only one until the next accept. *)
TermInv ==
  alone =>
    /\ \A q \in Pcbs \ {Termpcb} : tcp_state[q] # "ESTABLISHED"
    /\ term_state = 1 /\ told => Termpcb \in Pcbs /\ tcp_state[Termpcb] = "ESTABLISHED"

PcbInv == TcpTypeOK /\ ListInv /\ ArgInv /\ TermInv

(* The search meets the connections and the end of the list. *)
LEMMA ChainReached ==
  ASSUME TcpTypeOK, Chain(tcp_active_pcbs, next, Live)
  PROVE  /\ Reached = Live \cup {Null}
         /\ \A x \in Pointers : OnList(x) <=> x \in Live \cup {Null}
<1>1. Followed(Live \cup {Null})
  BY DEF Followed, Chain
<1>2. Live \cup {Null} \in SUBSET Pointers
  BY DEF Live
<1>3. Reached \subseteq Live \cup {Null}
  BY <1>1, <1>2 DEF Reached, OnList
<1>4. Live \cup {Null} \subseteq Reached
  BY <1>2 DEF Reached, OnList, Followed, Chain, IsFollowed
<1> QED
  BY <1>3, <1>4 DEF Reached

(* TCP_RMV leaves a chain of the other connections. *)
LEMMA Without ==
  ASSUME TcpTypeOK, Chain(tcp_active_pcbs, next, Live), NEW p \in Pcbs, OnList(p)
  PROVE  /\ p \in Live
         /\ HeadWithout(p) \in Pointers /\ NextWithout(p) \in [Pcbs -> Pointers]
         /\ Chain(HeadWithout(p), NextWithout(p), Live \ {p})
         /\ p # tcp_active_pcbs => HeadWithout(p) = tcp_active_pcbs
<1>1. p \in Live
  BY ChainReached
<1>2. next \in [Pcbs -> Pointers] /\ tcp_active_pcbs \in Pointers
  BY DEF TcpTypeOK
<1>3. HeadWithout(p) \in Pointers /\ NextWithout(p) \in [Pcbs -> Pointers]
  BY <1>2 DEF HeadWithout, NextWithout
<1>4. CASE p = tcp_active_pcbs
  <2>1. Chain(next[p], next, Live \ {p})
    BY <1>1, <1>4, HeadTaken DEF Live
  <2> QED
    BY <1>1, <1>3, <1>4, <2>1 DEF HeadWithout, NextWithout
<1>5. CASE p # tcp_active_pcbs
  <2>1. \E q \in Live : next[q] = p
    BY <1>1, <1>5, HasBefore DEF Live
  <2>2. \E q \in Pcbs : OnList(q) /\ next[q] = p
    BY <2>1, ChainReached DEF Live
  <2>3. Before(p) \in Pcbs /\ OnList(Before(p)) /\ next[Before(p)] = p
    BY <2>2 DEF Before
  <2>4. Before(p) \in Live
    BY <2>3, ChainReached
  <2>5. Chain(tcp_active_pcbs, [next EXCEPT ![Before(p)] = next[p]], Live \ {p})
    BY <1>1, <1>2, <2>3, <2>4, NextTaken DEF Live
  <2> QED
    BY <1>1, <1>3, <1>5, <2>5 DEF HeadWithout, NextWithout
<1> QED
  BY <1>4, <1>5

(* Moving to the front keeps the chain. *)
LEMMA Moved ==
  ASSUME TcpTypeOK, Chain(tcp_active_pcbs, next, Live), NEW p \in Pcbs, OnList(p),
         MoveToFront(p)
  PROVE  /\ Chain(tcp_active_pcbs', next', Live) /\ p \in Live
         /\ tcp_active_pcbs' \in Pointers /\ next' \in [Pcbs -> Pointers]
<1>1. CASE p = tcp_active_pcbs
  BY <1>1, Without DEF MoveToFront, TcpTypeOK
<1>2. CASE p # tcp_active_pcbs
  <2>1. /\ p \in Live /\ HeadWithout(p) = tcp_active_pcbs
        /\ NextWithout(p) \in [Pcbs -> Pointers]
        /\ Chain(tcp_active_pcbs, NextWithout(p), Live \ {p})
    BY <1>2, Without
  <2>2. next' = [NextWithout(p) EXCEPT ![p] = tcp_active_pcbs] /\ tcp_active_pcbs' = p
    BY <1>2 DEF MoveToFront
  <2>3. Chain(p, [NextWithout(p) EXCEPT ![p] = tcp_active_pcbs], (Live \ {p}) \cup {p})
    BY <2>1, Pushed DEF Live
  <2>4. (Live \ {p}) \cup {p} = Live
    BY <2>1
  <2> QED
    BY <2>1, <2>2, <2>3, <2>4 DEF TcpTypeOK
<1> QED
  BY <1>1, <1>2

(* Taking out leaves a chain of the others. *)
LEMMA TakenOut ==
  ASSUME TcpTypeOK, Chain(tcp_active_pcbs, next, Live), NEW p \in Pcbs, OnList(p),
         TakeOut(p)
  PROVE  /\ Chain(tcp_active_pcbs', next', Live') /\ p \in Live /\ Live' = Live \ {p}
         /\ tcp_active_pcbs' \in Pointers /\ next' \in [Pcbs -> Pointers]
<1>1. /\ p \in Live /\ HeadWithout(p) \in Pointers
      /\ NextWithout(p) \in [Pcbs -> Pointers]
      /\ Chain(HeadWithout(p), NextWithout(p), Live \ {p})
  BY Without
<1>2. Live' = Live \ {p}
  BY DEF TakeOut, Live
<1>3. next' = [NextWithout(p) EXCEPT ![p] = Null] /\ tcp_active_pcbs' = HeadWithout(p)
  BY DEF TakeOut
<1>4. \A q \in Live \ {p} : next'[q] = NextWithout(p)[q]
  BY <1>1, <1>3 DEF Live
<1>5. Chain(HeadWithout(p), next', Live \ {p})
  BY <1>1, <1>4, OthersIdle DEF Live
<1> QED
  BY <1>1, <1>2, <1>3, <1>5

-----------------------------------------------------------------------------
LEMMA PcbInitial == TcpInit => PcbInv
<1> SUFFICES ASSUME TcpInit PROVE PcbInv
  OBVIOUS
<1>1. TcpTypeOK
  BY DEF TcpInit, TcpTypeOK, TcpStates
<1>2. Live = {}
  BY DEF TcpInit, Live
<1>3. Chain(Null, next, {})
  BY DEF Chain, IsFollowed
<1>4. ArgInv /\ TermInv
  BY DEF TcpInit, ArgInv, TermInv
<1> QED
  BY <1>1, <1>2, <1>3, <1>4 DEF PcbInv, ListInv, TcpInit

(* The steps that move a block to the front and leave the pool alone.      *)
LEMMA FrontSteps ==
  ASSUME PcbInv, ~damaged, NEW p \in Pcbs,
         Segment(p) \/ Established(p) \/ Line(p) \/ RemoteClose(p)
  PROVE  PcbInv'
<1>1. OnList(p) /\ MoveToFront(p) /\ UNCHANGED <<free, timer, damaged>>
  BY DEF Segment, Established, Line, RemoteClose, blocks
<1>2. /\ Chain(tcp_active_pcbs', next', Live)
      /\ tcp_active_pcbs' \in Pointers /\ next' \in [Pcbs -> Pointers]
  BY <1>1, Moved DEF PcbInv, ListInv
<1>3. ListInv'
  BY <1>1, <1>2 DEF ListInv, Live
<1>4. p \notin free
  BY <1>1, Moved DEF PcbInv, ListInv, Live
<1>5. TcpTypeOK'
  <2>1. CASE Established(p)
    <3>1. alone' \in BOOLEAN
      BY <2>1 DEF Established
    <3> QED
      BY <1>1, <1>2, <2>1, <3>1 DEF PcbInv, TcpTypeOK, TcpStates, Established, timer
  <2>2. CASE Segment(p) \/ Line(p)
    BY <1>1, <1>2, <2>2 DEF PcbInv, TcpTypeOK, Segment, Line, blocks, timer, terminal
  <2>3. CASE RemoteClose(p)
    <3>1. /\ tcp_state' \in [Pcbs -> TcpStates] /\ term_state' = 0
          /\ callback_arg' = [callback_arg EXCEPT ![p] = "released"]
          /\ UNCHANGED <<timer, Termpcb, told, alone>>
      BY <2>3 DEF PcbInv, TcpTypeOK, TcpStates, RemoteClose, Offline
    <3> QED BY <1>1, <1>2, <3>1 DEF PcbInv, TcpTypeOK, timer
  <2> QED
    BY <2>1, <2>2, <2>3
<1>6. ArgInv'
  BY <1>4 DEF PcbInv, ArgInv, TcpTypeOK, Segment, Established, Line, RemoteClose, blocks
<1>7. TermInv'
  <2>1. CASE Established(p)
    <3>1. tcp_state'[p] = "ESTABLISHED" /\ Termpcb' = p
      BY <2>1 DEF Established, PcbInv, TcpTypeOK
    <3>2. alone' => \A q \in Pcbs \ {p} : tcp_state'[q] # "ESTABLISHED"
      BY <2>1 DEF Established, PcbInv, TcpTypeOK
    <3> QED
      BY <3>1, <3>2 DEF TermInv
  <2>2. CASE Segment(p)
    BY <2>2 DEF PcbInv, TermInv, Segment, blocks, terminal
  <2>3. CASE Line(p)
    BY <2>3 DEF PcbInv, TermInv, Line, blocks
  <2>4. CASE RemoteClose(p)
    <3>1. PICK s \in {"LAST_ACK", "CLOSE_WAIT"} : tcp_state' = [tcp_state EXCEPT ![p] = s]
      BY <2>4 DEF RemoteClose
    <3>2. term_state' = 0 /\ UNCHANGED <<Termpcb, told, alone>>
      BY <2>4 DEF RemoteClose, Offline
    <3>3. \A q \in Pcbs : tcp_state'[q] = "ESTABLISHED" => tcp_state[q] = "ESTABLISHED"
      BY <3>1 DEF PcbInv, TcpTypeOK
    <3> QED
      BY <3>2, <3>3 DEF PcbInv, TermInv
  <2> QED
    BY <2>1, <2>2, <2>3, <2>4
<1> QED
  BY <1>3, <1>5, <1>6, <1>7 DEF PcbInv

(* The steps that take a block out of the list.                            *)
LEMMA OutSteps ==
  ASSUME PcbInv, ~damaged, NEW p \in Pcbs, LastAck(p) \/ Reset(p)
  PROVE  PcbInv'
<1>1. OnList(p) /\ TakeOut(p) /\ UNCHANGED <<timer, damaged>>
  BY DEF LastAck, Reset
<1>2. /\ Chain(tcp_active_pcbs', next', Live')
      /\ tcp_active_pcbs' \in Pointers /\ next' \in [Pcbs -> Pointers]
  BY <1>1, TakenOut DEF PcbInv, ListInv
<1>3. ListInv'
  BY <1>2 DEF ListInv
<1>4. TcpTypeOK'
  BY <1>1, <1>2 DEF PcbInv, TcpTypeOK, TcpStates, LastAck, Reset, TakeOut, ErrorTold,
     AfterErr, timer, terminal
<1>5. ArgInv'
  <2>1. tcp_state' = [tcp_state EXCEPT ![p] = "CLOSED"] /\ free' = free \cup {p}
    BY <1>1 DEF TakeOut
  <2>2. \A q \in Pcbs \ {p} : callback_arg'[q] = callback_arg[q]
    BY DEF PcbInv, TcpTypeOK, LastAck, Reset, ErrorTold
  <2> QED
    BY <2>1, <2>2 DEF PcbInv, ArgInv, TcpTypeOK
<1>6. TermInv'
  <2>1. CASE LastAck(p)
    <3>1. tcp_state[p] = "LAST_ACK"
      BY <2>1 DEF LastAck
    <3> QED
      BY <2>1, <3>1 DEF PcbInv, TermInv, TcpTypeOK, LastAck, TakeOut, terminal
  <2>2. CASE Reset(p)
    BY <2>2 DEF PcbInv, TermInv, TcpTypeOK, Reset, TakeOut, ErrorTold
  <2> QED
    BY <2>1, <2>2
<1> QED
  BY <1>3, <1>4, <1>5, <1>6 DEF PcbInv

(* A SYN takes a block from the pool, or one that is in use.               *)
LEMMA SynSteps ==
  ASSUME PcbInv, ~damaged, NEW p \in Pcbs, Syn(p) \/ SynKills(p)
  PROVE  PcbInv'
<1>1. /\ Chain(tcp_active_pcbs', next', Live')
      /\ tcp_active_pcbs' \in Pointers /\ next' \in [Pcbs -> Pointers]
  <2>1. CASE Syn(p)
    <3>1. p \notin Live /\ Live' = Live \cup {p} /\ next \in [Pcbs -> Pointers]
      BY <2>1 DEF Syn, Live, PcbInv, TcpTypeOK
    <3>2. Chain(p, [next EXCEPT ![p] = tcp_active_pcbs], Live \cup {p})
      BY <3>1, Pushed DEF PcbInv, ListInv, Live
    <3> QED
      BY <2>1, <3>1, <3>2 DEF Syn, Register, PcbInv, TcpTypeOK
  <2>2. CASE SynKills(p)
    <3>1. /\ p \in Live /\ HeadWithout(p) \in Pointers
          /\ NextWithout(p) \in [Pcbs -> Pointers]
          /\ Chain(HeadWithout(p), NextWithout(p), Live \ {p})
      BY <2>2, Without DEF SynKills, PcbInv, ListInv
    <3>2. Chain(p, [NextWithout(p) EXCEPT ![p] = HeadWithout(p)], (Live \ {p}) \cup {p})
      BY <3>1, Pushed DEF Live
    <3>3. (Live \ {p}) \cup {p} = Live' 
      BY <2>2, <3>1 DEF SynKills, Live
    <3> QED
      BY <2>2, <3>1, <3>2, <3>3 DEF SynKills, Register
  <2> QED
    BY <2>1, <2>2
<1>2. ListInv'
  BY <1>1 DEF ListInv
<1>3. p \in free' => p \notin free /\ free = {}
  BY DEF Syn, SynKills
<1>4. TcpTypeOK'
  <2>1. /\ tcp_state' = [tcp_state EXCEPT ![p] = "SYN_RCVD"]
        /\ callback_arg' = [callback_arg EXCEPT ![p] = "none"]
        /\ UNCHANGED <<timer, Termpcb, term_state, alone, damaged>>
    BY DEF Syn, SynKills, Register, terminal
  <2>2. told' \in BOOLEAN /\ free' \subseteq Pcbs
    BY DEF PcbInv, TcpTypeOK, Syn, SynKills, terminal
  <2> QED BY <1>1, <2>1, <2>2 DEF PcbInv, TcpTypeOK, TcpStates, timer
<1>5. ArgInv'
  BY <1>3 DEF PcbInv, ArgInv, TcpTypeOK, Syn, SynKills, Register
<1>6. TermInv'
  <2>1. CASE Syn(p)
    BY <2>1 DEF PcbInv, TermInv, ArgInv, TcpTypeOK, Syn, Register, terminal
  <2>2. CASE SynKills(p)
    BY <2>2 DEF PcbInv, TermInv, TcpTypeOK, SynKills, Register
  <2> QED
    BY <2>1, <2>2
<1> QED
  BY <1>2, <1>4, <1>5, <1>6 DEF PcbInv

(* tcp_slowtmr's steps before it takes a block out change nothing.         *)
LEMMA WalkSteps ==
  ASSUME PcbInv, SlowTimer \/ Keep \/ Expire \/ LoadNext \/ SlowTimerEnds
  PROVE  PcbInv'
<1>1. UNCHANGED <<list, blocks, terminal, damaged>>
  BY DEF SlowTimer, Keep, Expire, LoadNext, SlowTimerEnds
<1>2. TcpTypeOK'
  BY <1>1 DEF PcbInv, TcpTypeOK, SlowTimer, Keep, Expire, LoadNext, SlowTimerEnds, Walks,
     list, blocks, terminal
<1>3. ListInv' /\ ArgInv' /\ TermInv'
  BY <1>1 DEF PcbInv, ListInv, Live, ArgInv, TermInv, list, blocks, terminal
<1> QED
  BY <1>2, <1>3 DEF PcbInv

(* A block at its place is taken out of the chain.                         *)
LEMMA RemoveStep ==
  ASSUME PcbInv, ~damaged, Remove
  PROVE  PcbInv' /\ (~damaged' => pcb \in Live)
<1>1. /\ pcb \in Pcbs /\ prev \in Pointers /\ after \in Pointers
      /\ next \in [Pcbs -> Pointers]
  BY DEF PcbInv, TcpTypeOK, Remove
<1>2. Live' = Live \ {pcb}
  BY DEF Remove, Live
<1>3. ListInv' /\ (~damaged' => pcb \in Live)
  <2> SUFFICES ASSUME RightPlace
               PROVE  Chain(tcp_active_pcbs', next', Live') /\ pcb \in Live
    BY DEF ListInv, Remove
  <2>0. after = next[pcb]
    BY DEF RightPlace
  <2>1. CASE prev = Null
    <3>1. pcb = tcp_active_pcbs /\ pcb \in Live
      BY <1>1, <2>1 DEF RightPlace, PcbInv, ListInv, Chain
    <3>2. Chain(next[pcb], next, Live \ {pcb})
      BY <3>1, HeadTaken DEF PcbInv, ListInv, Live
    <3> QED
      BY <1>2, <2>0, <2>1, <3>1, <3>2 DEF Remove
  <2>2. CASE prev # Null
    <3>1. prev \in Live /\ next[prev] = pcb
      BY <1>1, <2>2, ChainReached DEF RightPlace, PcbInv, ListInv
    <3>2. pcb \in Live
      BY <1>1, <3>1 DEF PcbInv, ListInv, Chain
    <3>3. Chain(tcp_active_pcbs, [next EXCEPT ![prev] = next[pcb]], Live \ {pcb})
      BY <1>1, <3>1, <3>2, NextTaken DEF PcbInv, ListInv, Live
    <3> QED
      BY <1>2, <2>0, <2>2, <3>2, <3>3 DEF Remove
  <2> QED
    BY <2>1, <2>2
<1>4. tcp_active_pcbs' \in Pointers /\ next' \in [Pcbs -> Pointers]
  BY <1>1 DEF Remove, PcbInv, TcpTypeOK
<1>5. pcb' \in Pointers
  BY <1>1, <1>4 DEF Remove
<1>6. damaged' \in BOOLEAN
  BY DEF Remove
<1>7. TcpTypeOK'
  BY <1>1, <1>4, <1>5, <1>6 DEF PcbInv, TcpTypeOK, TcpStates, Remove, Walks, ErrorTold, AfterErr
<1>8. ArgInv'
  BY <1>1 DEF PcbInv, ArgInv, TcpTypeOK, Remove, ErrorTold
<1>9. TermInv'
  BY <1>1 DEF PcbInv, TermInv, TcpTypeOK, Remove, ErrorTold
<1> QED
  BY <1>3, <1>7, <1>8, <1>9 DEF PcbInv

(* The list is empty just when there are no connections.                   *)
LEMMA EmptyChain ==
  ASSUME NEW L \in SUBSET Pcbs, NEW h, NEW nx, Chain(h, nx, L)
  PROVE  h = Null <=> L = {}
<1>1. L = {} => h = Null
  BY DEF Chain
<1>2. ASSUME h = Null PROVE L = {}
  <2>1. {Null} \in SUBSET Pointers /\ IsFollowed(h, nx, {Null})
    BY <1>2 DEF IsFollowed
  <2>2. L \cup {Null} \subseteq {Null}
    BY <2>1 DEF Chain
  <2> QED
    BY <2>2
<1> QED
  BY <1>1, <1>2

(* A reset takes out the block it has read, if that is still in the list.  *)
LEMMA CloseSteps ==
  ASSUME PcbInv, ~damaged, CloseBegins \/ CloseOne
  PROVE  /\ PcbInv'
         /\ CloseBegins => Live # {}
         /\ CloseOne /\ ~damaged' =>
              /\ closing \in Live /\ Live' = Live \ {closing}
              /\ closing' = Null <=> Live' = {}
<1>1. ASSUME CloseBegins PROVE PcbInv' /\ Live # {}
  <2>1. TcpTypeOK' /\ ArgInv' /\ TermInv' /\ ListInv'
    BY <1>1 DEF CloseBegins, PcbInv, TcpTypeOK, ArgInv, TermInv, ListInv, Live, list, blocks,
       terminal
  <2>2. Live # {}
    BY <1>1, EmptyChain DEF CloseBegins, PcbInv, ListInv, Live
  <2> QED
    BY <2>1, <2>2 DEF PcbInv
<1>2. ASSUME CloseOne, OnList(closing)
      PROVE  /\ PcbInv' /\ closing \in Live /\ Live' = Live \ {closing}
             /\ closing' = Null <=> Live' = {}
  <2>1. closing \in Pcbs /\ TakeOut(closing) /\ UNCHANGED damaged
    BY <1>2 DEF CloseOne, PcbInv, TcpTypeOK
  <2>2. /\ Chain(tcp_active_pcbs', next', Live')
        /\ closing \in Live /\ Live' = Live \ {closing}
        /\ tcp_active_pcbs' \in Pointers /\ next' \in [Pcbs -> Pointers]
    BY <2>1, <1>2, TakenOut DEF PcbInv, ListInv
  <2>3. closing' = Null <=> Live' = {}
    BY <1>2, <2>2, EmptyChain DEF CloseOne, Live
  <2>4. TcpTypeOK'
    BY <1>2, <2>1, <2>2 DEF PcbInv, TcpTypeOK, TcpStates, CloseOne, TakeOut
  <2>5. ArgInv' /\ TermInv'
    BY <1>2, <2>1 DEF PcbInv, ArgInv, TermInv, TcpTypeOK, CloseOne, TakeOut
  <2> QED
    BY <2>2, <2>3, <2>4, <2>5 DEF PcbInv, ListInv
<1>3. ASSUME CloseOne, ~OnList(closing) PROVE PcbInv' /\ damaged'
  <2>1. damaged' = TRUE /\ UNCHANGED <<list, tcp_state, free>>
    BY <1>3 DEF CloseOne
  <2>2. TcpTypeOK'
    BY <1>3, <2>1 DEF PcbInv, TcpTypeOK, CloseOne, list
  <2>3. ArgInv' /\ TermInv'
    BY <1>3, <2>1 DEF PcbInv, ArgInv, TermInv, TcpTypeOK, CloseOne
  <2> QED
    BY <2>1, <2>2, <2>3 DEF PcbInv, ListInv
<1> QED
  BY <1>1, <1>2, <1>3

(* Telnet's reset empties the list at once.                                *)
LEMMA TelnetStep ==
  ASSUME PcbInv, ~damaged, NEW p \in Pcbs, TelnetResets(p)
  PROVE  PcbInv' /\ Live' = {}
<1>1. {q \in Pcbs : OnList(q)} = Live
  BY ChainReached DEF PcbInv, ListInv, Live
<1>2. Live' = {}
  BY <1>1 DEF TelnetResets, Live, PcbInv, TcpTypeOK
<1>3. TcpTypeOK'
  BY DEF PcbInv, TcpTypeOK, TcpStates, TelnetResets, timer
<1>4. Chain(Null, next', {})
  BY DEF Chain, IsFollowed
<1>5. ListInv'
  BY <1>2, <1>4 DEF ListInv, TelnetResets
<1>6. \A q \in Pcbs : tcp_state'[q] = "CLOSED"
  BY <1>1 DEF PcbInv, ArgInv, TelnetResets, Live
<1>7. ArgInv' /\ TermInv'
  BY <1>6 DEF ArgInv, TermInv, TelnetResets
<1> QED
  BY <1>2, <1>3, <1>5, <1>7 DEF PcbInv

LEMMA PcbStep == PcbInv /\ [TcpNext]_pcb_vars => PcbInv'
<1> SUFFICES ASSUME PcbInv, [TcpNext]_pcb_vars PROVE PcbInv'
  OBVIOUS
<1>1. CASE UNCHANGED pcb_vars
  <2>1. TcpTypeOK'
    BY <1>1 DEF pcb_vars, list, blocks, timer, terminal, PcbInv, TcpTypeOK
  <2>2. ListInv' /\ ArgInv' /\ TermInv'
    BY <1>1 DEF pcb_vars, list, blocks, terminal, PcbInv, ListInv, Live, ArgInv, TermInv
  <2> QED BY <2>1, <2>2 DEF PcbInv
<1>2. ASSUME ~damaged, NEW p \in Pcbs,
             \/ Segment(p) \/ Established(p) \/ Line(p) \/ RemoteClose(p)
             \/ LastAck(p) \/ Reset(p) \/ Syn(p) \/ SynKills(p) \/ TelnetResets(p)
      PROVE  PcbInv'
  BY <1>2, FrontSteps, OutSteps, SynSteps, TelnetStep
<1>3. CASE ~damaged /\ (SlowTimer \/ Keep \/ Expire \/ LoadNext \/ SlowTimerEnds)
  BY <1>3, WalkSteps
<1>4. CASE ~damaged /\ Remove
  BY <1>4, RemoveStep
<1>5. CASE ~damaged /\ (CloseBegins \/ CloseOne)
  BY <1>5, CloseSteps
<1>6. CASE Broken
  BY <1>1, <1>6 DEF Broken
<1> QED
  BY <1>1, <1>2, <1>3, <1>4, <1>5, <1>6 DEF TcpNext

(* The invariant of the connections: the list is a chain of all of them,   *)
(* and their states agree with the callbacks and the console.              *)
THEOREM PcbInvariance == TcpSpec => []PcbInv
<1> QED
  BY PcbInitial, PcbStep, PTL DEF TcpSpec

(* Every variable of the connections keeps its type. *)
THEOREM TcpTypeCorrect == TcpSpec => []TcpTypeOK
<1>1. PcbInv => TcpTypeOK
  BY DEF PcbInv
<1> QED
  BY <1>1, PcbInvariance, PTL

(* Until tcp_slowtmr takes a block out at the wrong place, or a reset one  *)
(* that has just ended, the list that tcp_input, tcp_slowtmr and TCP_RMV   *)
(* follow ends and holds exactly the connections there are.                *)
THEOREM ListSoundAlways == TcpSpec => []ListSound
<1>1. PcbInv => ListSound
  BY ChainReached DEF PcbInv, ListInv, ListSound, Live
<1> QED
  BY <1>1, PcbInvariance, PTL

(* A session that was accepted alone, and ends in HelloWorld_recv, is open *)
(* whenever SOE texts go to it.                                            *)
THEOREM TextsAlwaysReach == TcpSpec => []TextsReachSession
<1>1. PcbInv => TextsReachSession
  BY DEF PcbInv, TermInv, TextsReachSession
<1> QED
  BY <1>1, PcbInvariance, PTL

-----------------------------------------------------------------------------
(* Every step of the connections is a step of ConnLife, or none of its     *)
(* variables change.                                                       *)
LEMMA LifeStep ==
  PcbInv /\ [TcpNext]_pcb_vars => [Life!LifeNext]_(Life!life_vars)
<1> SUFFICES ASSUME PcbInv, [TcpNext]_pcb_vars
             PROVE  \/ Life!LifeNext
                    \/ UNCHANGED <<Pcbs \ free, callback_arg, closing # Null, ~damaged>>
  BY DEF Life!life_vars
<1> USE DEF Life!LifeNext
<1>1. CASE UNCHANGED pcb_vars
  BY <1>1 DEF pcb_vars, list, blocks, timer
<1>2. ASSUME ~damaged, NEW p \in Pcbs, Segment(p) \/ Line(p)
      PROVE  UNCHANGED <<Pcbs \ free, callback_arg, closing # Null, ~damaged>>
  BY <1>2 DEF Segment, Line, blocks, timer
<1>3. ASSUME ~damaged, NEW p \in Pcbs, OnList(p) PROVE p \in Pcbs \ free
  BY <1>3, ChainReached DEF PcbInv, ListInv, Live
<1>4. ASSUME ~damaged, NEW p \in Pcbs, Established(p) PROVE Life!LifeNext
  <2>1. callback_arg[p] = "none"
    BY <1>4 DEF Established, PcbInv, ArgInv
  <2>2. Life!Accepted(p)
    BY <1>3, <1>4, <2>1 DEF Established, Life!Accepted
  <2> QED
    BY <1>4, <2>2 DEF Established, timer
<1>5. ASSUME ~damaged, NEW p \in Pcbs, RemoteClose(p) PROVE Life!LifeNext
  <2>1. callback_arg[p] = "held"
    BY <1>5 DEF RemoteClose, PcbInv, ArgInv
  <2>2. Life!Closing(p)
    BY <1>3, <1>5, <2>1 DEF RemoteClose, Life!Closing
  <2> QED
    BY <1>5, <2>2 DEF RemoteClose, timer
<1>6. ASSUME ~damaged, NEW p \in Pcbs, LastAck(p) PROVE Life!LifeNext
  <2>1. callback_arg[p] # "held"
    BY <1>6 DEF LastAck, PcbInv, ArgInv
  <2>2. Life!Ended(p)
    BY <1>3, <1>6, <2>1 DEF LastAck, TakeOut, Life!Ended
  <2> QED
    BY <1>6, <2>2 DEF LastAck, timer
<1>7. ASSUME ~damaged, NEW p \in Pcbs, Reset(p) PROVE Life!LifeNext
  <2>1. Life!Failed(p)
    BY <1>3, <1>7 DEF Reset, TakeOut, ErrorTold, AfterErr, Life!Failed, Life!AfterError
  <2> QED
    BY <1>7, <2>1 DEF Reset, timer
<1>8. ASSUME ~damaged, NEW p \in Pcbs, Syn(p) PROVE Life!LifeNext
  <2>1. Life!Opened(p)
    BY <1>8 DEF Syn, Register, Life!Opened
  <2> QED
    BY <1>8, <2>1 DEF Syn, timer
<1>9. ASSUME ~damaged, NEW p \in Pcbs, SynKills(p) PROVE Life!LifeNext
  <2>1. Life!Replaced(p)
    BY <1>3, <1>9 DEF SynKills, Register, Life!Replaced
  <2> QED
    BY <1>9, <2>1 DEF SynKills, timer
<1>10. CASE SlowTimer \/ Keep \/ Expire \/ LoadNext \/ SlowTimerEnds
  BY <1>10 DEF SlowTimer, Keep, Expire, LoadNext, SlowTimerEnds, Walks, blocks
<1>11. CASE ~damaged /\ Remove
  <2>1. CASE damaged'
    BY <2>1
  <2>2. CASE ~damaged'
    <3>1. pcb \in Live
      BY <1>11, <2>2, RemoveStep
    <3>2. Life!Failed(pcb)
      BY <1>11, <3>1 DEF Live, Remove, ErrorTold, AfterErr, Life!Failed, Life!AfterError
    <3> QED
      BY <1>11, <2>2, <3>1, <3>2 DEF Live, Remove, Walks
  <2> QED
    BY <2>1, <2>2
<1>12. ASSUME ~damaged, NEW p \in Pcbs, TelnetResets(p) PROVE Life!LifeNext
  <2>1. CASE damaged'
    BY <2>1
  <2>2. CASE ~damaged'
    <3>1. Life!AllReset
      BY <1>12, <2>2, TelnetStep DEF Live, TelnetResets, Life!AllReset
    <3> QED
      BY <1>12, <2>2, <3>1 DEF TelnetResets, timer
  <2> QED
    BY <2>1, <2>2
<1>13. CASE ~damaged /\ CloseBegins
  <2>1. Life!ResetBegins
    BY <1>13, CloseSteps DEF CloseBegins, blocks, Live, Life!ResetBegins
  <2> QED
    BY <1>13, <2>1 DEF CloseBegins
<1>14. CASE ~damaged /\ CloseOne
  <2>1. CASE damaged'
    BY <2>1
  <2>2. CASE ~damaged'
    <3>1. Life!Dropped(closing)
      BY <1>14, <2>2, CloseSteps DEF CloseOne, Live, Life!Dropped
    <3> QED
      BY <1>14, <2>2, <3>1, CloseSteps DEF Live
  <2> QED
    BY <2>1, <2>2
<1>15. CASE Broken
  BY <1>1, <1>15 DEF Broken
<1> QED
  BY <1>1, <1>2, <1>4, <1>5, <1>6, <1>7, <1>8, <1>9, <1>10, <1>11, <1>12, <1>13, <1>14, <1>15
     DEF TcpNext

(* The servers' view of a connection: accept once, then recv(NULL) or the  *)
(* error callback.  tcp_input, tcp_slowtmr and the pool, whatever their    *)
(* interleaving, implement it for as long as the list is not broken.       *)
THEOREM Refinement == TcpSpec => CallbacksAsPromised
<1>1. TcpInit => Life!LifeInit
  BY DEF TcpInit, Life!LifeInit
<1> QED
  BY <1>1, LifeStep, PcbInvariance, PTL DEF TcpSpec, CallbacksAsPromised, Life!LifeSpec
=============================================================================
