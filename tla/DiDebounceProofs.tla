-------------------------- MODULE DiDebounceProofs --------------------------
(***************************************************************************)
(* What the input filter guarantees for any set of channels and any        *)
(* thresholds above the guard.  The inductive invariant is IInv: each      *)
(* property is proved per channel from the fact that a counter equals at   *)
(* least the current run of samples of its level and at most the samples   *)
(* that contradicted Value since it last changed.                          *)
(***************************************************************************)
EXTENDS DiDebounce, TLAPS

(* A counter has counted the whole current run of samples of its level. *)
RunCounted ==
  \A c \in Channels :
    LET d == DiStatus_DI[c]
        o == obs[c]
    IN /\ o.level = "low" =>
            /\ d.Actcnt >= o.run \/ d.Actcnt = ActThreshold
            /\ o.run > ActThreshold => d.Value = 1
       /\ o.level = "high" =>
            /\ d.Retcnt >= o.run \/ d.Retcnt = RetThreshold
            /\ o.run > RetThreshold => d.Value = 0

IInv == TypeOK /\ CountersExclude /\ NoStaleEvidence /\ RunCounted

-----------------------------------------------------------------------------
(* The per-sample facts, for one record. *)
LEMMA SampleType ==
  ASSUME NEW d \in DiStatus, NEW level \in Levels
  PROVE  GPIO_DealInputData(d, level) \in DiStatus
BY ThresholdAssumption
   DEF DiStatus, Levels, GPIO_DealInputData, SampleHigh, SampleLow, Bumped, ClearedBy

LEMMA ObserveType ==
  ASSUME NEW o \in Observation, NEW d \in DiStatus, NEW level \in Levels
  PROVE  Observe(o, d, level) \in Observation
BY ThresholdAssumption DEF Observation, Observe, RunBound, AtMost

LEMMA SampleExclude ==
  ASSUME NEW d \in DiStatus, NEW level \in Levels,
         d.Actcnt > Guard + 1 => d.Retcnt <= Guard + 1
  PROVE  LET n == GPIO_DealInputData(d, level)
         IN  n.Actcnt > Guard + 1 => n.Retcnt <= Guard + 1
BY ThresholdAssumption
   DEF DiStatus, Levels, GPIO_DealInputData, SampleHigh, SampleLow, Bumped, ClearedBy

LEMMA SampleEvidence ==
  ASSUME NEW d \in DiStatus, NEW o \in Observation, NEW level \in Levels,
         d.Value = 0 => d.Actcnt <= o.against,
         d.Value = 1 => d.Retcnt <= o.against,
         d.Actcnt > Guard + 1 => d.Retcnt <= Guard + 1
  PROVE  LET n == GPIO_DealInputData(d, level)
             m == Observe(o, d, level)
         IN /\ n.Value = 0 => n.Actcnt <= m.against
            /\ n.Value = 1 => n.Retcnt <= m.against
<1>1. CASE level = "low"
  BY <1>1, ThresholdAssumption
     DEF DiStatus, Observation, GPIO_DealInputData, SampleLow, Bumped, ClearedBy,
         Observe, Contradicts, RunBound, AtMost
<1>2. CASE level = "high"
  BY <1>2, ThresholdAssumption
     DEF DiStatus, Observation, GPIO_DealInputData, SampleHigh, Bumped, ClearedBy,
         Observe, Contradicts, RunBound, AtMost
<1> QED BY <1>1, <1>2 DEF Levels

LEMMA SampleRun ==
  ASSUME NEW d \in DiStatus, NEW o \in Observation, NEW level \in Levels,
         o.level = "low" => /\ d.Actcnt >= o.run \/ d.Actcnt = ActThreshold
                            /\ o.run > ActThreshold => d.Value = 1,
         o.level = "high" => /\ d.Retcnt >= o.run \/ d.Retcnt = RetThreshold
                             /\ o.run > RetThreshold => d.Value = 0
  PROVE  LET n == GPIO_DealInputData(d, level)
             m == Observe(o, d, level)
         IN /\ m.level = "low" => /\ n.Actcnt >= m.run \/ n.Actcnt = ActThreshold
                                  /\ m.run > ActThreshold => n.Value = 1
            /\ m.level = "high" => /\ n.Retcnt >= m.run \/ n.Retcnt = RetThreshold
                                   /\ m.run > RetThreshold => n.Value = 0
<1>1. CASE level = "low"
  BY <1>1, ThresholdAssumption
     DEF DiStatus, Observation, GPIO_DealInputData, SampleLow, Bumped, ClearedBy,
         Observe, RunBound, AtMost
<1>2. CASE level = "high"
  BY <1>2, ThresholdAssumption
     DEF DiStatus, Observation, GPIO_DealInputData, SampleHigh, Bumped, ClearedBy,
         Observe, RunBound, AtMost
<1> QED BY <1>1, <1>2 DEF Levels

-----------------------------------------------------------------------------
LEMMA Initially == Init => IInv
BY ThresholdAssumption
   DEF Init, IInv, TypeOK, CountersExclude, NoStaleEvidence, RunCounted,
       DiStatus, Observation, Levels, RunBound

LEMMA Inductive == IInv /\ [Next]_vars => IInv'
<1> SUFFICES ASSUME IInv, [Next]_vars PROVE IInv'
  OBVIOUS
<1>1. CASE UNCHANGED vars
  BY <1>1 DEF vars, IInv, TypeOK, CountersExclude, NoStaleEvidence, RunCounted
<1>2. CASE Next
  <2>1. PICK pins \in [Channels -> Levels] : DiScanning(pins)
    BY <1>2 DEF Next
  <2>2. ASSUME NEW c \in Channels
        PROVE  /\ DiStatus_DI[c] \in DiStatus /\ obs[c] \in Observation
               /\ pins[c] \in Levels
               /\ DiStatus_DI'[c] = GPIO_DealInputData(DiStatus_DI[c], pins[c])
               /\ obs'[c] = Observe(obs[c], DiStatus_DI[c], pins[c])
    BY <2>1 DEF DiScanning, IInv, TypeOK
  <2>3. TypeOK'
    BY <2>1, <2>2, SampleType, ObserveType DEF DiScanning, TypeOK
  <2>4. CountersExclude'
    BY <2>2, SampleExclude DEF IInv, CountersExclude
  <2>5. NoStaleEvidence'
    BY <2>2, SampleEvidence DEF IInv, NoStaleEvidence, CountersExclude
  <2>6. RunCounted'
    BY <2>2, SampleRun DEF IInv, RunCounted
  <2> QED BY <2>3, <2>4, <2>5, <2>6 DEF IInv
<1> QED BY <1>1, <1>2

(* The inductive invariant holds in every reachable state. *)
LEMMA Invariance == Spec => []IInv
BY Initially, Inductive, PTL DEF Spec

(* The filter's counters never pass their thresholds. *)
THEOREM TypeCorrect == Spec => []TypeOK
BY Invariance, PTL DEF IInv

(* The two counters of a channel never both carry evidence. *)
THEOREM Exclusion == Spec => []CountersExclude
BY Invariance, PTL DEF IInv

(* No evidence survives a change of the reported value. *)
THEOREM FreshEvidence == Spec => []NoStaleEvidence
BY Invariance, PTL DEF IInv

(* A steady input is reported after threshold + 1 samples, from any state. *)
THEOREM SteadyReported == Spec => []SteadyInputReported
<1>1. IInv => SteadyInputReported
  BY DEF IInv, RunCounted, SteadyInputReported
<1> QED BY <1>1, Invariance, PTL

(* The reported value changes only on a full threshold of contrary samples. *)
THEOREM NoChatter == Spec => ChangeNeedsEvidence
<1>1. IInv /\ [Next]_vars =>
        [\A c \in Channels :
           DiStatus_DI'[c].Value # DiStatus_DI[c].Value => EvidenceFor(c)]_vars
  <2> SUFFICES ASSUME IInv, Next, NEW c \in Channels,
                      DiStatus_DI'[c].Value # DiStatus_DI[c].Value
               PROVE  EvidenceFor(c)
    OBVIOUS
  <2>1. PICK pins \in [Channels -> Levels] : DiScanning(pins)
    BY DEF Next
  <2>2. /\ DiStatus_DI[c] \in DiStatus
        /\ obs[c] \in Observation
        /\ DiStatus_DI'[c] = GPIO_DealInputData(DiStatus_DI[c], pins[c])
        /\ DiStatus_DI[c].Value = 0 => DiStatus_DI[c].Actcnt <= obs[c].against
        /\ DiStatus_DI[c].Value = 1 => DiStatus_DI[c].Retcnt <= obs[c].against
    BY <2>1 DEF DiScanning, IInv, TypeOK, NoStaleEvidence
  <2> QED
    BY <2>2, ThresholdAssumption
       DEF EvidenceFor, DiStatus, Observation, RunBound, GPIO_DealInputData,
           SampleHigh, SampleLow, Bumped, ClearedBy
<1> QED BY <1>1, Invariance, PTL DEF Spec, ChangeNeedsEvidence
=============================================================================
