----------------------------- MODULE DiDebounce -----------------------------
(***************************************************************************)
(* The digital-input filter of BSP/bsp.c.  SysTick_Handler runs once per   *)
(* millisecond at the highest preemption level and DiScanning samples      *)
(* every pin; GPIO_DealInputData keeps, per channel, the record            *)
(* DiStatus_DI[pos] = [Actcnt, Retcnt, Value].  A pin read high means "no  *)
(* input", a pin read low means "input present".                           *)
(*                                                                         *)
(* Nothing else writes DiStatus_DI, so the handler is one atomic action.   *)
(* The variable obs is history only: what a reviewer watching the pins     *)
(* would have counted.  No guard of the model reads it.                    *)
(***************************************************************************)
EXTENDS Integers, FiniteSets

CONSTANTS
  Channels,      \* the sampled inputs: 0..15 on the board
  ActThreshold,  \* DiActThreshold
  RetThreshold,  \* DiRetThreshold
  Guard          \* the literal 3 in GPIO_DealInputData

ASSUME ThresholdAssumption ==
  /\ ActThreshold \in Nat /\ RetThreshold \in Nat /\ Guard \in Nat
  /\ Guard < ActThreshold /\ Guard < RetThreshold

VARIABLES
  DiStatus_DI,   \* channel -> the filter's record
  obs            \* history: channel -> what the samples said so far

vars == <<DiStatus_DI, obs>>

Levels == {"low", "high"}

AtMost(n, bound) == IF n < bound THEN n ELSE bound

-----------------------------------------------------------------------------
(* Mutants used to show that the properties below can fail. *)
BumpedBeyond(count, limit) == IF count <= limit THEN count + 1 ELSE count
BumpedShort(count, limit) == IF count + 1 < limit THEN count + 1 ELSE count
NeverCleared(rival, count) == count

(* A counter rises to its threshold and stays there. *)
Bumped(count, limit) == IF count < limit THEN count + 1 ELSE count

(* A counter is thrown away once its rival has passed the guard. *)
ClearedBy(rival, count) == IF rival > Guard THEN 0 ELSE count

(* One sample that reads the pin high: no input. *)
SampleHigh(d) ==
  [ Actcnt |-> ClearedBy(d.Retcnt, d.Actcnt),
    Retcnt |-> Bumped(d.Retcnt, RetThreshold),
    Value  |-> IF d.Retcnt < RetThreshold THEN d.Value ELSE 0 ]

(* One sample that reads the pin low: input present. *)
SampleLow(d) ==
  [ Actcnt |-> Bumped(d.Actcnt, ActThreshold),
    Retcnt |-> ClearedBy(d.Actcnt, d.Retcnt),
    Value  |-> IF d.Actcnt < ActThreshold THEN d.Value ELSE 1 ]

GPIO_DealInputData(d, level) ==
  IF level = "high" THEN SampleHigh(d) ELSE SampleLow(d)

(* A sample contradicts the reported value when it reads the other level. *)
Contradicts(level, value) == (level = "low") # (value = 1)

(* History.  run: how many samples in a row had the same level (bounded by  *)
(* RunBound).  against: how many samples have contradicted Value since it   *)
(* last changed (bounded by RunBound).                                      *)
RunBound == ActThreshold + RetThreshold + 1

Observe(o, d, level) ==
  LET changed == GPIO_DealInputData(d, level).Value # d.Value
  IN [ level   |-> level,
       run     |-> IF level = o.level THEN AtMost(o.run + 1, RunBound) ELSE 1,
       against |-> IF changed THEN 0
                   ELSE IF Contradicts(level, d.Value)
                        THEN AtMost(o.against + 1, RunBound)
                        ELSE o.against ]

-----------------------------------------------------------------------------
Init ==
  /\ DiStatus_DI = [c \in Channels |-> [Actcnt |-> 0, Retcnt |-> 0, Value |-> 0]]
  /\ obs = [c \in Channels |-> [level |-> "high", run |-> 0, against |-> 0]]

(* SysTick_Handler: DiScanning deals with every channel in the same tick. *)
DiScanning(pins) ==
  /\ DiStatus_DI' = [c \in Channels |-> GPIO_DealInputData(DiStatus_DI[c], pins[c])]
  /\ obs' = [c \in Channels |-> Observe(obs[c], DiStatus_DI[c], pins[c])]

Next == \E pins \in [Channels -> Levels] : DiScanning(pins)

Spec == Init /\ [][Next]_vars

-----------------------------------------------------------------------------
(* Both counters stay at or below their thresholds and Value is a bit; the *)
(* history holds bounded counts.                                           *)
DiStatus == [Actcnt : 0..ActThreshold, Retcnt : 0..RetThreshold, Value : {0, 1}]
Observation == [level : Levels, run : 0..RunBound, against : 0..RunBound]

TypeOK ==
  /\ DiStatus_DI \in [Channels -> DiStatus]
  /\ obs \in [Channels -> Observation]

(* The two counters never both carry evidence: once one of them is past    *)
(* the guard by more than a sample, GPIO_DealInputData has thrown the      *)
(* other's evidence away and it cannot rebuild before the first falls.     *)
CountersExclude ==
  \A c \in Channels :
    DiStatus_DI[c].Actcnt > Guard + 1 => DiStatus_DI[c].Retcnt <= Guard + 1

(* A steady input is reported in bounded time, whatever noise came before: *)
(* ActThreshold + 1 low samples in a row leave Value = 1 and               *)
(* RetThreshold + 1 high samples in a row leave Value = 0.                 *)
SteadyInputReported ==
  \A c \in Channels :
    /\ obs[c].level = "low" /\ obs[c].run > ActThreshold
         => DiStatus_DI[c].Value = 1
    /\ obs[c].level = "high" /\ obs[c].run > RetThreshold
         => DiStatus_DI[c].Value = 0

(* Value never chatters: it turns on only after ActThreshold earlier low   *)
(* samples, and off only after RetThreshold earlier high samples, counted  *)
(* since its last change, so noise shorter than that cannot cause two      *)
(* opposite changes.                                                       *)
EvidenceFor(c) ==
  IF DiStatus_DI[c].Value = 0 THEN obs[c].against >= ActThreshold
                              ELSE obs[c].against >= RetThreshold

ChangeNeedsEvidence ==
  [][\A c \in Channels :
       DiStatus_DI'[c].Value # DiStatus_DI[c].Value => EvidenceFor(c)]_vars

(* While the reported value is off, what Actcnt has counted are samples    *)
(* taken since it went off (and dually for Retcnt): no evidence survives   *)
(* from before the last change.                                            *)
NoStaleEvidence ==
  \A c \in Channels :
    /\ DiStatus_DI[c].Value = 0 => DiStatus_DI[c].Actcnt <= obs[c].against
    /\ DiStatus_DI[c].Value = 1 => DiStatus_DI[c].Retcnt <= obs[c].against
=============================================================================
