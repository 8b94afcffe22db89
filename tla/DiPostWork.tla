----------------------------- MODULE DiPostWork -----------------------------
(***************************************************************************)
(* Di_PostWork of BSP/bsp.c (SPECIALDITRIP build): the main loop's pass    *)
(* over the filtered inputs.  Its first loop executes the trip output of   *)
(* every active non-electrical input; its second loop raises one SOE per   *)
(* change of an input.  The filter (module DiDebounce) runs in             *)
(* SysTick_Handler and may change any Value between any two steps.         *)
(*                                                                         *)
(* A step of a loop is one action: only the main loop writes turnned and   *)
(* Trip_turnned, and although the second loop reads Value twice, the only  *)
(* outcome two different reads can have is to do nothing in this pass,     *)
(* which is also the outcome of a single read taken at the first one.      *)
(***************************************************************************)
EXTENDS Integers

CONSTANTS
  NDi,       \* number of inputs: 16 on the board
  NTrip,     \* NonElectro_Nbr: number of trip slots
  TripDi     \* trip slot -> input index: NonElectr_TripDi[i] - 1

DIs == 0 .. NDi - 1
Trips == 0 .. NTrip - 1

ASSUME DiAssumption ==
  /\ NDi \in Nat /\ NTrip \in Nat \ {0} /\ NTrip <= NDi
  /\ TripDi \in [Trips -> DIs]

ON == 1
OFF == 0

VARIABLES
  Value,         \* DiStatus_DI[i].Value, written by the tick interrupt
  turnned,       \* level already handled, per input
  Trip_turnned,  \* trip already executed, per trip slot
  at,            \* where the main loop is: <<"trip" | "soe" | "rest", index>>
  reported,      \* history: state in the last SOE raised for an input
  repeats,       \* history: inputs with an SOE equal to the previous one
  executed,      \* history: trip commands since the input last came on, up to 2
  tripped        \* history: trip slots that have ever executed

io == <<reported, repeats, executed, tripped>>
vars == <<Value, turnned, Trip_turnned, at, io>>

Init ==
  /\ Value = [c \in DIs |-> OFF]
  /\ turnned = [c \in DIs |-> OFF]
  /\ Trip_turnned = [i \in Trips |-> 0]
  /\ at = <<"rest", 0>>
  /\ reported = [c \in DIs |-> OFF]
  /\ repeats = {}
  /\ executed = [i \in Trips |-> 0]
  /\ tripped = {}

-----------------------------------------------------------------------------
(* SysTick_Handler: the filter turns one input over.  A trip input that    *)
(* comes on starts a new activation.                                       *)
FilterFlips(c) ==
  /\ Value' = [Value EXCEPT ![c] = 1 - @]
  /\ executed' = [i \in Trips |-> IF TripDi[i] = c /\ Value[c] = OFF
                                  THEN 0 ELSE executed[i]]
  /\ UNCHANGED <<turnned, Trip_turnned, at, reported, repeats, tripped>>

(* while (1): the loop calls Di_PostWork again. *)
StartPass ==
  /\ at[1] = "rest"
  /\ at' = <<"trip", 0>>
  /\ UNCHANGED <<Value, turnned, Trip_turnned, io>>

SoeBeyondLast(c) == <<"soe", c + 1>>            \* mutant of AfterSoe
AfterTrip(i) == IF i + 1 \in Trips THEN <<"trip", i + 1>> ELSE <<"soe", 0>>
AfterSoe(c) == IF c + 1 \in DIs THEN <<"soe", c + 1>> ELSE <<"rest", 0>>

(* Mutants used to show that the properties below can fail. *)
FailedTripMarkedDone(i) ==      \* a failed command counts as executed
  /\ at = <<"trip", i>>
  /\ Value[TripDi[i]] = ON /\ Trip_turnned[i] = 0
  /\ Trip_turnned' = [Trip_turnned EXCEPT ![i] = 1]
  /\ at' = AfterTrip(i)
  /\ UNCHANGED <<Value, turnned, io>>
FlagOnlyOn(c) == [turnned EXCEPT ![c] = ON]     \* a return is not recorded
FlagsInput(i) == TripDi[i]                      \* the trip input's own flag

(* The flag the first loop sets after a success: turnned[i], the SOE flag  *)
(* of input number i, and not Trip_turnned[i], the one it tests.           *)
FlaggedByTrip(i) == i

(* DoExecute(NonElectr_TripMap[i]) succeeds on an active trip input. *)
TripExecutes(i) ==
  /\ at = <<"trip", i>>
  /\ Value[TripDi[i]] = ON /\ Trip_turnned[i] = 0
  /\ turnned' = [turnned EXCEPT ![FlaggedByTrip(i)] = 1]
  /\ executed' = [executed EXCEPT ![i] = IF @ < 2 THEN @ + 1 ELSE 2]
  /\ tripped' = tripped \cup {i}
  /\ at' = AfterTrip(i)
  /\ UNCHANGED <<Value, Trip_turnned, reported, repeats>>

(* DoExecute returned Error: nothing is recorded. *)
TripFails(i) ==
  /\ at = <<"trip", i>>
  /\ Value[TripDi[i]] = ON /\ Trip_turnned[i] = 0
  /\ at' = AfterTrip(i)
  /\ UNCHANGED <<Value, turnned, Trip_turnned, io>>

(* The input is off: the trip is armed again. *)
TripRearms(i) ==
  /\ at = <<"trip", i>>
  /\ Value[TripDi[i]] # ON
  /\ Trip_turnned' = [Trip_turnned EXCEPT ![i] = 0]
  /\ at' = AfterTrip(i)
  /\ UNCHANGED <<Value, turnned, io>>

(* The second loop: an input whose level differs from its flag raises an   *)
(* SOE, and the flag follows.                                              *)
Changed(c) == Value[c] # turnned[c]
Flagged(c) == [turnned EXCEPT ![c] = Value[c]]

soe_engine(c, state) ==
  /\ reported' = [reported EXCEPT ![c] = state]
  /\ repeats' = IF reported[c] = state THEN repeats \cup {c} ELSE repeats

SoeScan(c) ==
  /\ at = <<"soe", c>>
  /\ \/ /\ Changed(c)
        /\ soe_engine(c, Value[c])
        /\ turnned' = Flagged(c)
     \/ /\ ~Changed(c)
        /\ UNCHANGED <<turnned, reported, repeats>>
  /\ at' = AfterSoe(c)
  /\ UNCHANGED <<Value, Trip_turnned, executed, tripped>>

MainStep ==
  \/ StartPass
  \/ \E i \in Trips : TripExecutes(i) \/ TripFails(i) \/ TripRearms(i)
  \/ \E c \in DIs : SoeScan(c)

Next == MainStep \/ \E c \in DIs : FilterFlips(c)

Spec == Init /\ [][Next]_vars

(* The loop keeps running, and a trip command that is tried again and      *)
(* again succeeds at last: the base bus is not broken for ever.            *)
RetriesGoWell(i) == SF_vars(TripExecutes(i))

Fairness ==
  /\ WF_vars(MainStep)
  /\ \A i \in Trips : RetriesGoWell(i)

FairSpec == Spec /\ Fairness

-----------------------------------------------------------------------------
Bit == {0, 1}

TypeOK ==
  /\ Value \in [DIs -> Bit] /\ turnned \in [DIs -> Bit]
  /\ Trip_turnned \in [Trips -> Bit]
  /\ at \in ({"trip"} \X Trips) \cup ({"soe"} \X DIs) \cup {<<"rest", 0>>}
  /\ reported \in [DIs -> Bit] /\ repeats \subseteq DIs
  /\ executed \in [Trips -> 0..2] /\ tripped \subseteq Trips

(* The SOE stream of an input alternates between ON and OFF, and its flag  *)
(* agrees with the last SOE raised, unless the input's own number is the   *)
(* number of a trip slot that has executed: only then has Di_PostWork      *)
(* written somebody else's flag.                                           *)
SoeAlternates ==
  \A c \in DIs \ tripped : reported[c] = turnned[c] /\ c \notin repeats

(* A level that stays is the level last reported, for every input whose    *)
(* number is not a trip slot's.                                            *)
SteadyLevelReported ==
  \A c \in DIs \ Trips, v \in Bit :
    <>[](Value[c] = v) => <>[](reported[c] = v)

(* A trip input that stays on is executed, even if earlier attempts of the *)
(* same activation failed.                                                 *)
HeldTripExecuted ==
  \A i \in Trips : <>[](Value[TripDi[i]] = ON) => <>[](executed[i] > 0)

(* What the flag Trip_turnned is for, and what the previous revision of    *)
(* the function does ("Trip_turnned[i]=1", BSP/bsp - copy): a trip output  *)
(* is executed once for each activation of its input.                      *)
TripOncePerActivation == \A i \in Trips : executed[i] <= 1
=============================================================================
