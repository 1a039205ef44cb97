-------------------------- MODULE EntryTimeProofs --------------------------
(***************************************************************************)
(* The proof that a call of checkNum() is bounded, for every set of digit  *)
(* keys, every entry length up to eight and every choice of the times.     *)
(***************************************************************************)
EXTENDS EntryTime, EntryProofs

(* A call in progress is at most as old as the digits it holds, or one     *)
(* iteration older than the limit when they are too old.                   *)
CallCovered == IF Expired THEN callAge <= ENTRY_TIMEOUT + MaxStep ELSE callAge <= entryAge

TimedIInv ==
    /\ EntryTypeOK
    /\ callAge \in 0..(LongestCall + 1)
    /\ CallBounded
    /\ ReturnAtEnd /\ call = "polling" => CallCovered

LEMMA TimedInitIInv == TimedInit => TimedIInv
<1>1. ASSUME TimedInit PROVE EntryTypeOK
  BY <1>1, EntryInitIInv DEF TimedInit, EntryIInv
<1>2. QED
  <2>1. ASSUME TimedInit
        PROVE  /\ callAge \in 0..(LongestCall + 1)
               /\ callAge <= LongestCall
               /\ call # "polling"
    BY <2>1, EntryAssumption, DurationsAssumption, MaxStepAssumption, SMT
       DEF TimedInit, EntryInit, LongestCall
  <2>2. QED
    BY <1>1, <2>1 DEF TimedIInv, CallBounded

LEMMA TimedIterationIInv ==
    ASSUME TimedIInv, EntryIInv, EntryIInv', NEW d \in Durations, TimedIteration(d)
    PROVE  TimedIInv'
<1> USE EntryAssumption, DurationsAssumption, MaxStepAssumption
<1>1. d \in Nat /\ d <= MaxStep
  OBVIOUS
<1>2. call = "polling"
  BY DEF TimedIteration, NoKey, Key, AppendDigit, IdleScan, Expire, Clear, Submit,
     SettingKey, BackKey
<1>3. callAge' <= callAge + d /\ callAge' \in 0..(LongestCall + 1) /\ callAge \in Nat
  BY <1>1, SMT DEF TimedIteration, TimedIInv, Later, LongestCall
<1>4. EntryTypeOK'
  BY DEF EntryIInv
<1>5. CASE ~ReturnAtEnd
  BY <1>3, <1>4, <1>5 DEF TimedIInv, CallBounded
<1>6. CASE ReturnAtEnd
  <2>1. callAge <= ENTRY_TIMEOUT + MaxStep
    <3>1. CallCovered
      BY <1>2, <1>6 DEF TimedIInv
    <3>2. QED
      BY <3>1, SMT DEF CallCovered, TimedIInv, EntryIInv, AgeIsOfDigits, EntryTypeOK, Expired, Over
  <2>2. CallBounded'
    <3>1. callAge' <= LongestCall
      BY <1>1, <1>3, <2>1, SMT DEF LongestCall
    <3>2. QED
      BY <3>1 DEF CallBounded
  <2>3. call' = "polling" => CallCovered'
    <3>0. CallCovered
      BY <1>2, <1>6 DEF TimedIInv
    <3>1. CASE IdleScan(d) /\ numberCount > 0
      BY <1>1, <1>3, <3>0, <3>1, SMT
         DEF CallCovered, IdleScan, Held, Aged, Later, Expired, Over, TimedIInv, EntryTypeOK
    <3>2. CASE IdleScan(d) /\ numberCount = 0
      BY <1>6, <3>2, SMT DEF IdleScan, Held, LoopEnd
    <3>3. CASE Expire(d) \/ Clear(d)
      BY <1>6, <3>3, SMT DEF Expire, Clear, Dropped, LoopEnd
    <3>4. CASE Submit(d) \/ SettingKey(d) \/ BackKey(d)
      BY <3>4 DEF Submit, SettingKey, BackKey
    <3>5. ASSUME NEW k \in DigitKeys, NEW digitNumber \in {1, MAX_DIGITS},
                 AppendDigit(k, digitNumber, d)
          PROVE  CallCovered'
      BY <1>1, <1>3, <3>0, <3>5, SMT
         DEF CallCovered, AppendDigit, Aged, Later, Expired, Over, TimedIInv, EntryTypeOK,
         EntryIInv, AgeIsOfDigits
    <3>6. numberCount = 0 \/ numberCount > 0
      BY SMT DEF TimedIInv, EntryTypeOK
    <3>7. QED
      BY <3>1, <3>2, <3>3, <3>4, <3>5, <3>6 DEF TimedIteration, NoKey, Key
  <2>4. QED
    BY <1>3, <1>4, <2>2, <2>3 DEF TimedIInv
<1>7. QED
  BY <1>5, <1>6, EntryAssumption, DurationsAssumption

LEMMA TimedRestIInv ==
    ASSUME TimedIInv, EntryIInv', NEW d, NEW n, NEW again,
           TimedCaller(n, again, d) \/ TimedPowerUp
    PROVE  TimedIInv'
<1>1. EntryTypeOK' /\ callAge' = 0
  BY DEF EntryIInv, TimedCaller, TimedPowerUp
<1>2. /\ callAge' \in 0..(LongestCall + 1)
      /\ callAge' <= LongestCall
      /\ CallCovered'
  BY <1>1, EntryAssumption, DurationsAssumption, MaxStepAssumption, SMT
     DEF CallCovered, EntryTypeOK, Expired, LongestCall
<1>3. QED
  BY <1>1, <1>2 DEF TimedIInv, CallBounded

LEMMA TimedStepIsEntryStep ==
    ASSUME EntryIInv, TimedNext
    PROVE  EntryIInv'
<1> USE EntryAssumption, DurationsAssumption
<1>1. ASSUME NEW d \in Durations, TimedIteration(d)
      PROVE  EntryIInv'
  <2>1. d \in Nat
    OBVIOUS
  <2>2. {1, MAX_DIGITS} \subseteq 1..MAX_DIGITS
    BY SMT
  <2>3. QED
    BY <1>1, <2>1, <2>2, NoKeyIInv, KeyIInv DEF TimedIteration
<1>2. ASSUME NEW d \in Durations \cup {0}, NEW n \in {0, numberKeypad}, NEW again \in BOOLEAN,
             TimedCaller(n, again, d)
      PROVE  EntryIInv'
  BY <1>2, EntryStepIInv DEF TimedCaller, CheckNumNext
<1>3. CASE TimedPowerUp
  BY <1>3, EntryPowerUpIInv DEF TimedPowerUp
<1>4. QED
  BY <1>1, <1>2, <1>3 DEF TimedNext

(* A call lasts ENTRY_TIMEOUT and two iterations at most.                  *)
THEOREM CallDuration == TimedSpec => [](TimedTypeOK /\ CallBounded)
<1> DEFINE I == EntryIInv /\ TimedIInv
<1>1. TimedInit => I
  BY EntryInitIInv, TimedInitIInv DEF TimedInit
<1>2. I /\ [TimedNext]_timedVars => I'
  <2> SUFFICES ASSUME I, [TimedNext]_timedVars
               PROVE  I'
    OBVIOUS
  <2>1. CASE TimedNext
    <3>1. EntryIInv'
      BY <2>1, TimedStepIsEntryStep
    <3>2. TimedIInv'
      <4>1. ASSUME NEW d \in Durations, TimedIteration(d)
            PROVE  TimedIInv'
        BY <3>1, <4>1, TimedIterationIInv
      <4>2. ASSUME NEW d \in Durations \cup {0}, NEW n \in {0, numberKeypad}, NEW again \in BOOLEAN,
                   TimedCaller(n, again, d)
            PROVE  TimedIInv'
        BY <3>1, <4>2, TimedRestIInv
      <4>3. CASE TimedPowerUp
        BY <3>1, <4>3, TimedRestIInv
      <4>4. QED
        BY <2>1, <4>1, <4>2, <4>3 DEF TimedNext
    <3>3. QED
      BY <3>1, <3>2
  <2>2. CASE UNCHANGED timedVars
    BY <2>2 DEF timedVars, entryVars, EntryIInv, TimedIInv, EntryTypeOK, BufferFits, NumberFits,
       PendingAcked, AgeIsOfDigits, CallBounded, CallCovered, Expired, LongestCall
  <2>3. QED
    BY <2>1, <2>2
<1>3. I => TimedTypeOK /\ CallBounded
  BY DEF TimedIInv, TimedTypeOK
<1>4. QED
  BY <1>1, <1>2, <1>3, PTL DEF TimedSpec

=============================================================================
