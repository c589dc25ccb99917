-------------------------- MODULE ReadinessProofs --------------------------
(***************************************************************************)
(* Proofs about Readiness for any threshold, any unit, any delays, and any *)
(* number of settings of the wall clock by any amount.                     *)
(***************************************************************************)
EXTENDS Readiness, TLAPS

-----------------------------------------------------------------------------
(* Rounding down.                                                          *)

\* Whole seconds, times the unit, miss less than one unit.
LEMMA RoundsDown ==
  ASSUME NEW d \in Nat
  PROVE  /\ d \div Unit \in Nat
         /\ (d \div Unit) * Unit <= d
         /\ d < (d \div Unit) * Unit + Unit
<1>1. Unit \in Nat \ {0}
  BY ReadinessAssumption
<1>2. QED
  BY <1>1, Z3

\* What the reader makes of a date, on its own reading of the wall clock.
LEMMA AgeOf ==
  ASSUME NEW since \in Int \cup {None}, reader \in Moments
  PROVE  /\ since = None => Age(since) = None
         /\ since # None =>
              /\ Age(since) \in Nat
              /\ reader.epoch < since => Age(since) = 0
              /\ since <= reader.epoch =>
                   /\ Age(since) * Unit <= reader.epoch - since
                   /\ reader.epoch - since < Age(since) * Unit + Unit
<1>1. reader.epoch \in Int
  BY DEF Moments
<1>2. CASE since = None
  BY <1>2 DEF Age
<1>3. CASE since # None /\ reader.epoch < since
  BY <1>1, <1>3, ReadinessAssumption DEF Age
<1>4. CASE since # None /\ since <= reader.epoch
  <2>1. since \in Int /\ reader.epoch - since \in Nat
    BY <1>1, <1>4
  <2>2. Age(since) = (reader.epoch - since) \div Unit
    BY <1>1, <1>4, <2>1 DEF Age
  <2>3. QED
    BY <1>1, <1>4, <2>1, <2>2, RoundsDown
<1>5. QED
  BY <1>1, <1>2, <1>3, <1>4

-----------------------------------------------------------------------------
(* The inductive invariant.                                                *)

\* The moments that are kept are moments, none of them in the future.
Kept(m) == m \in Moments /\ m.jumps <= jumps

\* The clocks go together as long as nobody sets one of them.
SameEra(m, n) == m.jumps = n.jumps => m.epoch - m.at = n.epoch - n.at

MomentsOK ==
  /\ Moment \in Moments
  /\ outcome # None => Kept(outcome.when) /\ SameEra(outcome.when, Moment)
  /\ reader # None => Kept(reader) /\ SameEra(reader, Moment)
  /\ outage # None => Kept(outage) /\ SameEra(outage, Moment)
  /\ outcome # None /\ reader # None => SameEra(outcome.when, reader)
  /\ outcome # None /\ outage # None => SameEra(outcome.when, outage)
  /\ reader # None /\ outage # None => SameEra(reader, outage)

\* The three records of an error go together, and with the outage.
RecordsAgree ==
  /\ lastError <=> errorStarted # None
  /\ lastError <=> failures > 0
  /\ loaded <=> lastSuccess # None
  /\ lastError <=> outage # None
  /\ lastError => errorStarted = outage.epoch

IInv == TypeOK /\ MomentsOK /\ RecordsAgree /\ ReportIsCoherent /\ ReadinessIsTruthful

\* The clocks and the manager begin in the invariant.
LEMMA IInvInit == Init => IInv
<1> SUFFICES ASSUME Init PROVE IInv
  OBVIOUS
<1>1. {loaded, lastError} \subseteq BOOLEAN
  BY Zenon DEF Init
<1>2. QED
  BY <1>1, ReadinessAssumption
     DEF Init, Spans, IInv, TypeOK, MomentsOK, RecordsAgree, ReportIsCoherent, ReadinessIsTruthful,
         Moment, Moments

\* A report is made from an invariant state: the types of its fields ...
LEMMA ReportTyped ==
  ASSUME IInv, TakeSnapshot
  PROVE  TypeOK' /\ ReportIsCoherent'
<1>1. reader \in Moments
  BY DEF IInv, MomentsOK, Kept, TakeSnapshot
<1>2. errorStarted \in Int \cup {None} /\ lastSuccess \in Int \cup {None}
  BY DEF IInv, TypeOK
<1>3. /\ Age(errorStarted) \in Nat \cup {None} /\ Age(lastSuccess) \in Nat \cup {None}
      /\ Age(errorStarted) # None <=> errorStarted # None
      /\ Age(lastSuccess) # None <=> lastSuccess # None
  <2>1. None \notin Nat
    BY ReadinessAssumption
  <2>2. \A since \in Int \cup {None} :
          IF since = None THEN Age(since) = None ELSE Age(since) \in Nat
    BY <1>1, AgeOf
  <2>3. QED
    BY <1>2, <2>1, <2>2
<1>4. SecondsUntilRefresh \in Nat
  <2>1. CASE ~ loaded \/ ~ Less(mono, nextRefresh)
    BY <2>1 DEF SecondsUntilRefresh
  <2>2. CASE ~ (~ loaded \/ ~ Less(mono, nextRefresh))
    <3>1. mono \in Nat /\ nextRefresh \in Nat /\ mono < nextRefresh
      <4>1. loaded /\ Less(mono, nextRefresh)
        BY <2>2
      <4>2. nextRefresh # Inf /\ nextRefresh # NaN
        BY <4>1 DEF TakeSnapshot, Endless, Less
      <4>3. QED
        BY <4>1, <4>2 DEF IInv, TypeOK, Spans, Less
    <3>2. nextRefresh - mono \in Nat
      BY <3>1
    <3>3. QED
      BY <2>2, <3>2, RoundsDown DEF SecondsUntilRefresh
  <2>3. QED
    BY <2>1, <2>2
<1>5. TypeOK'
  BY <1>3, <1>4 DEF IInv, TypeOK, TakeSnapshot, clocks, state
<1>6. /\ answer'.last_refresh_error = lastError
      /\ answer'.refresh_error_age_seconds = Age(errorStarted)
      /\ answer'.consecutive_refresh_failures = failures
      /\ answer'.token_loaded = loaded
      /\ answer'.seconds_since_last_success = Age(lastSuccess)
  BY DEF TakeSnapshot
<1>7. ReportIsCoherent'
  BY <1>3, <1>6 DEF IInv, RecordsAgree, ReportIsCoherent
<1>8. QED
  BY <1>5, <1>7

\* ... and its verdict.
LEMMA ReportTrue ==
  ASSUME IInv, TakeSnapshot
  PROVE  ReadinessIsTruthful'
<1> DEFINE age == Age(errorStarted)
           stale == age # None /\ age * Unit >= Stale
<1>1. reader \in Moments /\ reader # None
  BY DEF IInv, MomentsOK, Kept, TakeSnapshot
<1>2. /\ answer'.token_loaded = loaded /\ answer'.ready = (loaded /\ ~ stale)
      /\ answer'.read = reader /\ answer'.outage = outage
  BY DEF TakeSnapshot
<1>3. SUFFICES ASSUME loaded
               PROVE  /\ stale => outage # None
                      /\ outage # None /\ reader.jumps = outage.jumps =>
                           IF stale THEN reader.at - outage.at >= Stale
                           ELSE reader.at - outage.at < Stale + Unit
  BY <1>2 DEF ReadinessIsTruthful
<1>4. age # None => errorStarted # None
  BY <1>1, AgeOf DEF IInv, TypeOK
<1>5. stale => outage # None
  BY <1>4 DEF IInv, RecordsAgree
<1>6. ASSUME outage # None, reader.jumps = outage.jumps
      PROVE  IF stale THEN reader.at - outage.at >= Stale
             ELSE reader.at - outage.at < Stale + Unit
  <2>1. errorStarted # None /\ errorStarted = outage.epoch
    BY <1>6 DEF IInv, RecordsAgree
  <2>2. outage \in Moments /\ reader.epoch - reader.at = outage.epoch - outage.at
    BY <1>1, <1>6 DEF IInv, MomentsOK, Kept, SameEra
  <2>3. /\ reader.epoch \in Int /\ reader.at \in Nat
        /\ outage.epoch \in Int /\ outage.at \in Nat
    BY <1>1, <2>2 DEF Moments
  <2>4. reader.epoch - errorStarted = reader.at - outage.at
    BY <2>1, <2>2, <2>3
  <2>5. /\ age \in Nat /\ age # None
        /\ reader.epoch < errorStarted => age = 0
        /\ errorStarted <= reader.epoch =>
             /\ age * Unit <= reader.epoch - errorStarted
             /\ reader.epoch - errorStarted < age * Unit + Unit
    BY <1>1, <2>1, AgeOf, ReadinessAssumption DEF IInv, TypeOK
  <2>6. Unit \in Nat \ {0} /\ Stale \in Nat \ {0} /\ age * Unit \in Nat
    BY <2>5, ReadinessAssumption
  <2>7. CASE reader.epoch < errorStarted
    <3>1. ~ stale
      BY <2>5, <2>6, <2>7
    <3>2. QED
      BY <2>1, <2>3, <2>4, <2>6, <2>7, <3>1
  <2>8. CASE errorStarted <= reader.epoch
    <3> HIDE DEF age
    <3> DEFINE whole == age * Unit
    <3>1. whole \in Nat /\ whole <= reader.at - outage.at /\ reader.at - outage.at < whole + Unit
      BY <2>4, <2>5, <2>6, <2>8
    <3> HIDE DEF whole
    <3>2. stale <=> whole >= Stale
      BY <2>5 DEF whole
    <3>3. QED
      BY <2>3, <2>6, <3>1, <3>2
  <2>9. QED
    BY <2>1, <2>3, <2>7, <2>8
<1>7. QED
  BY <1>5, <1>6

\* The date of a refresh is a span.
LEMMA DateIsSpan ==
  ASSUME NEW at \in Nat, NEW d \in Delays
  PROVE  Plus(at, d) \in Spans
<1>1. d \in Nat \/ d \in {NaN, Inf}
  BY ReadinessAssumption DEF Spans
<1>2. at \notin {NaN, Inf} /\ (d \in Nat => d \notin {NaN, Inf})
  BY FloatAssumption
<1>3. QED
  BY <1>1, <1>2 DEF Plus, Spans

\* A step without a report keeps the types, the moments and the records.
LEMMA OtherStep ==
  ASSUME IInv, answer' = None, Refresh \/ StartSnapshot \/ Time
  PROVE  TypeOK' /\ MomentsOK' /\ RecordsAgree'
<1> USE ReadinessAssumption
<1> USE DEF IInv, TypeOK, MomentsOK, RecordsAgree, Kept, SameEra, Moment, Moments, clocks, state
<1>1. CASE RecordSuccess
  <2>1. {loaded', lastError'} \subseteq BOOLEAN /\ lastError' = FALSE
    BY <1>1, Zenon DEF RecordSuccess
  <2>2. nextRefresh' \in Spans
    <3>1. outcome.when.at \in Nat
      BY <1>1 DEF RecordSuccess
    <3>2. QED
      BY <1>1, <3>1, DateIsSpan DEF RecordSuccess
  <2>3. QED
    BY <1>1, <2>1, <2>2 DEF RecordSuccess
<1>2. CASE RecordFailure
  BY <1>2 DEF RecordFailure
<1>3. ASSUME NEW ok \in BOOLEAN, ReadOutcome(ok) PROVE TypeOK' /\ MomentsOK' /\ RecordsAgree'
  BY <1>3 DEF ReadOutcome
<1>4. CASE StartSnapshot
  <2>1. /\ reader' = Moment
        /\ UNCHANGED <<mono, wall, jumps>> /\ UNCHANGED <<outcome, outage>>
        /\ UNCHANGED <<loaded, lastSuccess, nextRefresh, lastError, errorStarted, failures>>
    BY <1>4 DEF StartSnapshot
  <2>2. TypeOK' /\ RecordsAgree'
    BY <2>1
  <2>3. MomentsOK'
    BY <2>1
  <2>4. QED
    BY <2>2, <2>3
<1>5. CASE Tick
  <2>1. /\ mono' = mono + 1 /\ wall' = wall + 1 /\ UNCHANGED <<jumps, outcome, reader, outage>>
        /\ UNCHANGED <<loaded, lastSuccess, nextRefresh, lastError, errorStarted, failures>>
    BY <1>5 DEF Tick
  <2>2. TypeOK' /\ RecordsAgree'
    BY <1>5, <2>1
  <2>3. MomentsOK'
    BY <2>1
  <2>4. QED
    BY <2>2, <2>3
<1>6. ASSUME NEW j \in {- Back, Forth}, SetClock(j) PROVE TypeOK' /\ MomentsOK' /\ RecordsAgree'
  <2>1. j \in Int /\ wall' \in Int /\ jumps' \in Nat
    BY <1>6 DEF SetClock
  <2>2. QED
    BY <1>6, <2>1 DEF SetClock
<1>7. QED
  BY <1>1, <1>2, <1>3, <1>4, <1>5, <1>6 DEF Refresh, Time

\* The invariant holds throughout.
LEMMA IInvariant == Spec => []IInv
<1>1. Init => IInv
  BY IInvInit
<1>2. IInv /\ [Next]_vars => IInv'
  <2> SUFFICES ASSUME IInv, [Next]_vars PROVE IInv'
    OBVIOUS
  <2>1. CASE TakeSnapshot
    <3>1. MomentsOK' /\ RecordsAgree'
      BY <2>1 DEF IInv, MomentsOK, RecordsAgree, Kept, SameEra, Moment, TakeSnapshot, clocks, state
    <3>2. QED
      BY <2>1, <3>1, ReportTyped, ReportTrue DEF IInv
  <2>2. CASE answer' = None /\ (Refresh \/ StartSnapshot \/ Time)
    <3>1. ReportIsCoherent' /\ ReadinessIsTruthful'
      BY <2>2 DEF ReportIsCoherent, ReadinessIsTruthful
    <3>2. QED
      BY <2>2, <3>1, OtherStep DEF IInv
  <2>3. CASE UNCHANGED vars
    BY <2>3 DEF vars, clocks, state, IInv, TypeOK, MomentsOK, RecordsAgree, ReportIsCoherent,
                ReadinessIsTruthful, Kept, SameEra, Moment
  <2>4. CASE SnapshotRaises
    <3>1. /\ reader' = None /\ answer' = None
          /\ UNCHANGED <<mono, wall, jumps>> /\ UNCHANGED <<outcome, outage>>
          /\ UNCHANGED <<loaded, lastSuccess, nextRefresh, lastError, errorStarted, failures>>
      BY <2>4 DEF SnapshotRaises, clocks, state
    <3>2. QED
      BY <3>1 DEF IInv, TypeOK, MomentsOK, RecordsAgree, ReportIsCoherent,
                  ReadinessIsTruthful, Kept, SameEra, Moment
  <2>5. QED
    BY <2>1, <2>2, <2>3, <2>4 DEF Next
<1>3. QED
  BY <1>1, <1>2, PTL DEF Spec

-----------------------------------------------------------------------------
(* Theorems.                                                               *)

\* No report has a negative age or delay, however the wall clock is set
\* (TokenManager.snapshot, token_manager.py:127-156).
THEOREM TypeCorrect == Spec => []TypeOK
<1>1. IInv => TypeOK
  BY DEF IInv
<1>2. QED
  BY <1>1, IInvariant, PTL

\* Every report is of one moment (snapshot's section under _state_lock).
THEOREM CoherentReports == Spec => []ReportIsCoherent
<1>1. IInv => ReportIsCoherent
  BY DEF IInv
<1>2. QED
  BY <1>1, IInvariant, PTL

\* /readyz tells the truth about an outage in which the wall clock is not set
\* (_handle_readyz, server.py:84-94).
THEOREM TruthfulReadiness == Spec => []ReadinessIsTruthful
<1>1. IInv => ReadinessIsTruthful
  BY DEF IInv
<1>2. QED
  BY <1>1, IInvariant, PTL
=============================================================================
