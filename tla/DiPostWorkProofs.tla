-------------------------- MODULE DiPostWorkProofs --------------------------
(***************************************************************************)
(* For any number of inputs and trip slots and any assignment of inputs to *)
(* slots: Di_PostWork stays within its tables, and the SOE stream of every *)
(* input alternates unless a trip slot of the same number has executed.    *)
(* TypeOK /\ SoeAlternates is inductive: an SOE is raised for c only when  *)
(* Value[c] # turnned[c], both bits, and turnned[c] is the state of the    *)
(* last SOE as long as nobody else wrote it.  Then what the main loop must *)
(* do at last: on tables of any size if the passes go on, and on the       *)
(* board's under the fairness of the specification alone.                  *)
(***************************************************************************)
EXTENDS DiPostWork, TLAPS

Places == ({"trip"} \X Trips) \cup ({"soe"} \X DIs) \cup {<<"rest", 0>>}

LEMMA IndexFacts ==
  /\ 0 \in Trips /\ 0 \in DIs /\ Trips \subseteq DIs
  /\ \A i \in Trips : AfterTrip(i) \in Places /\ FlaggedByTrip(i) \in DIs
  /\ \A c \in DIs : AfterSoe(c) \in Places
BY DiAssumption DEF DIs, Trips, Places, AfterTrip, AfterSoe, FlaggedByTrip

(* Every table index and every flag stays in range. *)
THEOREM TypeCorrect == Spec => []TypeOK
<1> USE DEF TypeOK, Bit, ON, OFF
<1>1. Init => TypeOK
  BY DEF Init
<1>2. TypeOK /\ [Next]_vars => TypeOK'
  <2> SUFFICES ASSUME TypeOK, [Next]_vars PROVE TypeOK'
    OBVIOUS
  <2> USE IndexFacts DEF Places
  <2>1. CASE StartPass
    BY <2>1 DEF StartPass, io
  <2>2. ASSUME NEW i \in Trips, TripExecutes(i) PROVE TypeOK'
    BY <2>2 DEF TripExecutes
  <2>3. ASSUME NEW i \in Trips, TripFails(i) PROVE TypeOK'
    BY <2>3 DEF TripFails, io
  <2>4. ASSUME NEW i \in Trips, TripRearms(i) PROVE TypeOK'
    BY <2>4 DEF TripRearms, io
  <2>5. ASSUME NEW c \in DIs, SoeScan(c) PROVE TypeOK'
    BY <2>5 DEF SoeScan, Changed, Flagged, soe_engine
  <2>6. ASSUME NEW c \in DIs, FilterFlips(c) PROVE TypeOK'
    BY <2>6 DEF FilterFlips
  <2>7. CASE UNCHANGED vars
    BY <2>7 DEF vars, io
  <2> QED
    BY <2>1, <2>2, <2>3, <2>4, <2>5, <2>6, <2>7 DEF Next, MainStep
<1> QED BY <1>1, <1>2, PTL DEF Spec

(* An input whose number is not that of an executed trip slot never has    *)
(* two equal SOEs in a row, and its flag says what was last reported.      *)
THEOREM Alternation == Spec => []SoeAlternates
<1> USE DEF SoeAlternates, ON, OFF
<1>1. Init => SoeAlternates
  BY DEF Init
<1>2. TypeOK /\ SoeAlternates /\ [Next]_vars => SoeAlternates'
  <2> SUFFICES ASSUME TypeOK, SoeAlternates, [Next]_vars PROVE SoeAlternates'
    OBVIOUS
  <2>1. CASE StartPass
    BY <2>1 DEF StartPass, io
  <2>2. ASSUME NEW i \in Trips, TripExecutes(i) PROVE SoeAlternates'
    BY <2>2 DEF TripExecutes, FlaggedByTrip, TypeOK
  <2>3. ASSUME NEW i \in Trips, TripFails(i) PROVE SoeAlternates'
    BY <2>3 DEF TripFails, io
  <2>4. ASSUME NEW i \in Trips, TripRearms(i) PROVE SoeAlternates'
    BY <2>4 DEF TripRearms, io
  <2>5. ASSUME NEW c \in DIs, SoeScan(c) PROVE SoeAlternates'
    BY <2>5 DEF SoeScan, Changed, Flagged, soe_engine, TypeOK
  <2>6. ASSUME NEW c \in DIs, FilterFlips(c) PROVE SoeAlternates'
    BY <2>6 DEF FilterFlips
  <2>7. CASE UNCHANGED vars
    BY <2>7 DEF vars, io
  <2> QED
    BY <2>1, <2>2, <2>3, <2>4, <2>5, <2>6, <2>7 DEF Next, MainStep
<1> QED BY <1>1, <1>2, TypeCorrect, PTL DEF Spec
-----------------------------------------------------------------------------
(* The first loop tests Trip_turnned and nothing ever sets it: this is why *)
(* a trip is executed again in every pass, and why an active input always  *)
(* leads to an attempt.  DiPostWork has no action for an active input with *)
(* the flag set, and needs none.                                           *)
NeverMarked == \A i \in Trips : Trip_turnned[i] = 0

THEOREM TripsNeverMarked == Spec => []NeverMarked
<1> USE DEF NeverMarked
<1>1. Init => NeverMarked
  BY DEF Init
<1>2. NeverMarked /\ [Next]_vars => NeverMarked'
  <2> SUFFICES ASSUME NeverMarked, [Next]_vars PROVE NeverMarked'
    OBVIOUS
  <2>1. ASSUME NEW i \in Trips, TripRearms(i) PROVE NeverMarked'
    BY <2>1 DEF TripRearms
  <2>2. UNCHANGED Trip_turnned \/ \E i \in Trips : TripRearms(i)
    BY DEF Next, MainStep, StartPass, TripExecutes, TripFails, SoeScan, FilterFlips, vars, io
  <2> QED BY <2>1, <2>2
<1> QED BY <1>1, <1>2, PTL DEF Spec

-----------------------------------------------------------------------------
(* What must happen at last.  Two premises stand for the fairness of       *)
(* FairSpec: the pass comes to every iteration again and again, since the  *)
(* main loop is endless; and, as in SF_vars(TripExecutes(i)), attempts     *)
(* that go on do not fail for ever.  For tables of any size, deriving the  *)
(* first from WF_vars(MainStep) would take an induction inside temporal    *)
(* logic; BoardComesRound below derives both for the board's.              *)
ComesRound ==
  /\ []<>(at = <<"rest", 0>>)
  /\ \A i \in Trips : []<>(at = <<"trip", i>>)
  /\ \A c \in DIs : []<>(at = <<"soe", c>>)

RetriesSucceed ==
  \A i \in Trips : []<><<TripFails(i)>>_vars => []<><<TripExecutes(i)>>_vars

(* A steady level of an input that no slot clobbers is the level last      *)
(* reported.                                                               *)
THEOREM SteadyLevels == Spec /\ ComesRound => SteadyLevelReported
<1> SUFFICES ASSUME NEW c \in DIs \ Trips, NEW v \in Bit
             PROVE  Spec /\ ComesRound /\ <>[](Value[c] = v) => <>[](reported[c] = v)
  BY DEF SteadyLevelReported
<1> DEFINE Here == at = <<"soe", c>>
           Told == reported[c] = v
           Steady == Value[c] = v
           Sound == TypeOK /\ SoeAlternates
<1>1. Spec => []Sound
  BY TypeCorrect, Alternation, PTL
<1>2. ComesRound => []<>Here /\ []<>(at = <<"rest", 0>>)
  BY DEF ComesRound
<1>3. ~(Here /\ at = <<"rest", 0>>)
  OBVIOUS
<1>4. Sound => reported[c] = turnned[c]
  BY DEF TypeOK, SoeAlternates
<1>5. Sound /\ Steady /\ Here /\ [Next]_vars => Here' \/ Told'
  <2> SUFFICES ASSUME Sound, Steady, Here, [Next]_vars, ~Here' PROVE Told'
    OBVIOUS
  <2>1. SoeScan(c)
    BY DEF Next, MainStep, StartPass, TripExecutes, TripFails, TripRearms, SoeScan, FilterFlips,
           vars, io
  <2> QED BY <1>4, <2>1 DEF SoeScan, Changed, Flagged, soe_engine, TypeOK
<1>6. Sound /\ Steady /\ Told /\ [Next]_vars => Told'
  <2> SUFFICES ASSUME Sound, Steady, Told, [Next]_vars PROVE Told'
    OBVIOUS
  <2>1. ASSUME NEW d \in DIs, SoeScan(d) PROVE Told'
    BY <1>4, <2>1 DEF SoeScan, Changed, soe_engine, TypeOK
  <2>2. UNCHANGED reported \/ \E d \in DIs : SoeScan(d)
    BY DEF Next, MainStep, StartPass, TripExecutes, TripFails, TripRearms, FilterFlips, vars, io
  <2> QED BY <2>1, <2>2
<1> HIDE DEF Here, Told, Steady, Sound
<1>7. Spec /\ []Sound /\ []<>Here /\ []<>(at = <<"rest", 0>>) /\ <>[]Steady => <>[]Told
  <2>1. ~(Here /\ at = <<"rest", 0>>)
    BY <1>3 DEF Here
  <2> QED BY <1>5, <1>6, <2>1, PTL DEF Spec
<1> QED BY <1>1, <1>2, <1>7 DEF Told, Steady

(* A trip input that stays on has its output executed, although attempts   *)
(* may fail again and again before.                                        *)
THEOREM HeldTrips == Spec /\ ComesRound /\ RetriesSucceed => HeldTripExecuted
<1> SUFFICES ASSUME NEW i \in Trips
             PROVE  Spec /\ ComesRound /\ RetriesSucceed /\ <>[](Value[TripDi[i]] = ON)
                      => <>[](executed[i] > 0)
  BY DEF HeldTripExecuted
<1> DEFINE Here == at = <<"trip", i>>
           On == Value[TripDi[i]] = ON
           Done == executed[i] > 0
<1>1. ComesRound => []<>Here /\ []<>(at = <<"rest", 0>>)
  BY DEF ComesRound
<1>2. RetriesSucceed => ([]<><<TripFails(i)>>_vars => []<><<TripExecutes(i)>>_vars)
  BY DEF RetriesSucceed
<1>3. ~(Here /\ at = <<"rest", 0>>)
  OBVIOUS
<1>4. On /\ Here /\ [Next]_vars => Here' \/ <<TripFails(i)>>_vars \/ <<TripExecutes(i)>>_vars
  <2> SUFFICES ASSUME On, Here, [Next]_vars, ~Here' PROVE TripFails(i) \/ TripExecutes(i)
    BY DEF vars
  <2>1. TripExecutes(i) \/ TripFails(i) \/ TripRearms(i)
    BY DEF Next, MainStep, StartPass, TripExecutes, TripFails, TripRearms, SoeScan, FilterFlips,
           vars, io
  <2> QED BY <2>1 DEF TripRearms
<1>5. TypeOK /\ <<TripExecutes(i)>>_vars => Done'
  BY DEF TypeOK, TripExecutes
<1>6. TypeOK /\ On /\ Done /\ [Next]_vars => Done'
  <2> SUFFICES ASSUME TypeOK, On, Done, [Next]_vars PROVE Done'
    OBVIOUS
  <2>1. ASSUME NEW j \in Trips, TripExecutes(j) PROVE Done'
    BY <2>1 DEF TypeOK, TripExecutes
  <2>2. ASSUME NEW d \in DIs, FilterFlips(d) PROVE Done'
    BY <2>2 DEF TypeOK, FilterFlips, ON, OFF
  <2>3. \/ UNCHANGED executed
        \/ \E j \in Trips : TripExecutes(j)
        \/ \E d \in DIs : FilterFlips(d)
    BY DEF Next, MainStep, StartPass, TripFails, TripRearms, SoeScan, vars, io
  <2> QED BY <2>1, <2>2, <2>3
<1> HIDE DEF Here, On, Done
<1>7. /\ Spec /\ []TypeOK /\ []<>Here /\ []<>(at = <<"rest", 0>>) /\ <>[]On
      /\ []<><<TripFails(i)>>_vars => []<><<TripExecutes(i)>>_vars
      => <>[]Done
  <2>1. ~(Here /\ at = <<"rest", 0>>)
    BY <1>3 DEF Here
  <2> QED BY <1>4, <1>5, <1>6, <2>1, PTL DEF Spec
<1> QED BY <1>1, <1>2, <1>7, TypeCorrect DEF On, Done

-----------------------------------------------------------------------------
(* On the board, with its 16 inputs, both premises follow from the         *)
(* fairness of FairSpec.  Fairness speaks of the actions that are enabled, *)
(* which TLAPS cannot decide; Unblocked says where they are, as their      *)
(* guards have it.  It is an invariant of the run's instance.              *)
CanExecute(i) ==
  at = <<"trip", i>> /\ Value[TripDi[i]] = ON /\ Trip_turnned[i] = 0
    => ENABLED <<TripExecutes(i)>>_vars

Unblocked ==
  /\ ENABLED <<MainStep>>_vars
  /\ \A i \in Trips : CanExecute(i)

(* The places of a pass are numbered from its rest on. *)
PassLength == 1 + NTrip + NDi
Number == IF at[1] = "rest" THEN 0 ELSE IF at[1] = "trip" THEN 1 + at[2] ELSE 1 + NTrip + at[2]

(* How many iterations away the one with number t is. *)
Away(t) == IF Number <= t THEN t - Number ELSE t - Number + PassLength
Near(t, n) == Away(t) <= n
Comes(t, m, n) == [](Near(t, m) => <>Near(t, n))

LEMMA Numbers ==
  ASSUME TypeOK
  PROVE  /\ Number \in 0 .. PassLength - 1 /\ PassLength \in Nat
         /\ Number = 0 => at = <<"rest", 0>>
         /\ \A i \in Trips : Number = 1 + i => at = <<"trip", i>>
         /\ \A c \in DIs : Number = 1 + NTrip + c => at = <<"soe", c>>
         /\ [Next]_vars /\ ~<<MainStep>>_vars => Number' = Number
         /\ MainStep => Number' = IF Number = PassLength - 1 THEN 0 ELSE Number + 1
<1> USE DiAssumption DEF Trips, DIs
<1>1. \/ at = <<"rest", 0>>
      \/ \E i \in Trips : at = <<"trip", i>>
      \/ \E c \in DIs : at = <<"soe", c>>
  BY DEF TypeOK
<1>2. /\ Number \in 0 .. PassLength - 1 /\ PassLength \in Nat
      /\ Number = 0 => at = <<"rest", 0>>
      /\ \A i \in Trips : Number = 1 + i => at = <<"trip", i>>
      /\ \A c \in DIs : Number = 1 + NTrip + c => at = <<"soe", c>>
  BY <1>1 DEF Number, PassLength
<1>3. [Next]_vars /\ ~<<MainStep>>_vars => Number' = Number
  BY DEF Next, FilterFlips, vars, Number
<1>4. StartPass => Number' = 1 /\ Number = 0
  BY <1>1 DEF StartPass, Number
<1>5. ASSUME NEW i \in Trips, TripExecutes(i) \/ TripFails(i) \/ TripRearms(i)
      PROVE  Number = 1 + i /\ Number' = 2 + i
  BY <1>5 DEF TripExecutes, TripFails, TripRearms, AfterTrip, Number
<1>6. ASSUME NEW c \in DIs, SoeScan(c)
      PROVE  /\ Number = 1 + NTrip + c
             /\ Number' = IF Number = PassLength - 1 THEN 0 ELSE Number + 1
  BY <1>6 DEF SoeScan, AfterSoe, Number, PassLength
<1>7. MainStep => Number' = IF Number = PassLength - 1 THEN 0 ELSE Number + 1
  BY <1>4, <1>5, <1>6 DEF MainStep, PassLength
<1> QED BY <1>2, <1>3, <1>7

Goes == [][Next]_vars /\ []TypeOK /\ []Unblocked /\ WF_vars(MainStep)

LEMMA EightNearer ==
  ASSUME NEW t \in 0 .. PassLength - 1, NEW m \in Nat, NEW n \in Nat, m = n + 8
  PROVE  Goes => Comes(t, m, n)
<1>1. ASSUME TypeOK, [Next]_vars, ~<<MainStep>>_vars, NEW k \in Nat, Near(t, k) PROVE Near(t, k)'
  BY <1>1, Numbers DEF Near, Away
<1> DEFINE N(k) == Near(t, n + k)
<1>2. TypeOK /\ [Next]_vars /\ ~<<MainStep>>_vars =>
        /\ N(1) => N(1)'
        /\ N(2) => N(2)'
        /\ N(3) => N(3)'
        /\ N(4) => N(4)'
        /\ N(5) => N(5)'
        /\ N(6) => N(6)'
        /\ N(7) => N(7)'
        /\ N(8) => N(8)'
  BY <1>1
<1>3. TypeOK /\ <<MainStep>>_vars /\ ~Near(t, n) =>
        /\ N(1) => Near(t, n)'
        /\ N(2) => N(1)'
        /\ N(3) => N(2)'
        /\ N(4) => N(3)'
        /\ N(5) => N(4)'
        /\ N(6) => N(5)'
        /\ N(7) => N(6)'
        /\ N(8) => N(7)'
  BY Numbers DEF Near, Away
<1>4. Near(t, m) => N(8)
  BY DEF Near
<1> HIDE DEF N
<1> QED BY <1>2, <1>3, <1>4, PTL DEF Goes, Unblocked, Comes

ComesTo(t) == []<>(Number = t)

LEMMA EveryPlace ==
  ASSUME NDi <= 16, NEW t \in 0 .. PassLength - 1
  PROVE  Goes => ComesTo(t)
<1>1. Goes => Comes(t, 32, 24) /\ Comes(t, 24, 16) /\ Comes(t, 16, 8) /\ Comes(t, 8, 0)
  BY EightNearer
<1>2. TypeOK => Near(t, 32) /\ (Near(t, 0) => Number = t)
  BY Numbers, DiAssumption DEF Near, Away, PassLength
<1> QED BY <1>1, <1>2, PTL DEF Goes, Comes, ComesTo

LEMMA RetriesContinue == FairSpec => \A i \in Trips : RetriesGoWell(i)
BY PTL DEF FairSpec, Fairness

(* The main loop of the board comes to every iteration again and again,    *)
(* and a trip that is tried again and again is executed.                   *)
THEOREM BoardComesRound ==
  ASSUME NDi <= 16
  PROVE  FairSpec /\ []Unblocked => ComesRound /\ RetriesSucceed
<1> DEFINE Premises == FairSpec /\ []Unblocked
<1>1. Premises => Goes /\ []TypeOK
  BY TypeCorrect, PTL DEF FairSpec, Fairness, Spec, Goes
<1>2. ASSUME NEW t \in 0 .. PassLength - 1 PROVE Premises => ComesTo(t)
  BY <1>1, <1>2, EveryPlace
<1>3. Premises => []<>(at = <<"rest", 0>>)
  <2>1. Premises => ComesTo(0)
    BY <1>2, DiAssumption DEF PassLength
  <2>2. TypeOK /\ Number = 0 => at = <<"rest", 0>>
    BY Numbers
  <2> QED BY <1>1, <2>1, <2>2, PTL DEF ComesTo
<1>4. ASSUME NEW i \in Trips PROVE Premises => []<>(at = <<"trip", i>>)
  <2> DEFINE t == 1 + i
  <2>1. Premises => ComesTo(t)
    BY <1>2, DiAssumption DEF PassLength, Trips
  <2>2. TypeOK /\ Number = t => at = <<"trip", i>>
    BY Numbers
  <2> HIDE DEF t
  <2> QED BY <1>1, <2>1, <2>2, PTL DEF ComesTo
<1>5. ASSUME NEW c \in DIs PROVE Premises => []<>(at = <<"soe", c>>)
  <2> DEFINE t == 1 + NTrip + c
  <2>1. Premises => ComesTo(t)
    BY <1>2, DiAssumption DEF PassLength, DIs
  <2>2. TypeOK /\ Number = t => at = <<"soe", c>>
    BY Numbers
  <2> HIDE DEF t
  <2> QED BY <1>1, <2>1, <2>2, PTL DEF ComesTo
<1>6. ASSUME NEW i \in Trips
      PROVE  Premises => ([]<><<TripFails(i)>>_vars => []<><<TripExecutes(i)>>_vars)
  <2>1. Premises => RetriesGoWell(i)
    BY RetriesContinue
  <2>2. Premises => []Unblocked
    BY PTL
  <2>3. Unblocked /\ <<TripFails(i)>>_vars => ENABLED <<TripExecutes(i)>>_vars
    BY DEF Unblocked, CanExecute, TripFails
  <2> QED BY <2>1, <2>2, <2>3, PTL DEF RetriesGoWell
<1> QED BY <1>3, <1>4, <1>5, <1>6 DEF ComesRound, RetriesSucceed

(* So the liveness that the run checks holds for the board's tables, and   *)
(* any smaller ones, under the fairness of the specification alone.        *)
THEOREM OnBoard ==
  ASSUME NDi <= 16
  PROVE  FairSpec /\ []Unblocked => SteadyLevelReported /\ HeldTripExecuted
<1>1. FairSpec => Spec
  BY PTL DEF FairSpec
<1> QED BY <1>1, BoardComesRound, SteadyLevels, HeldTrips
=============================================================================
