---------------------------- MODULE EntryProofs ----------------------------
(***************************************************************************)
(* Proofs about keypad entry, for every set of digit keys, every entry     *)
(* length up to eight and every choice of the times.                       *)
(***************************************************************************)
EXTENDS CheckNum, TLAPS

(* One more digit needs one more power of ten.                             *)
LEMMA Pow10Next ==
    ASSUME NEW n \in 0..7, NEW s \in Nat, s < Pow10(n), NEW k \in 0..9
    PROVE  10 * s + k < Pow10(n + 1)
BY SMT DEF Pow10

(* More digits allow larger numbers.                                       *)
LEMMA Pow10Monotone ==
    ASSUME NEW m \in 0..8, NEW n \in 0..m
    PROVE  Pow10(n) <= Pow10(m) /\ Pow10(n) \in Nat /\ Pow10(m) \in Nat /\ 0 < Pow10(m)
<1>1. m \in {0, 1, 2, 3, 4, 5, 6, 7, 8} /\ n \in {0, 1, 2, 3, 4, 5, 6, 7, 8} /\ n <= m
  BY SMT
<1>2. QED
  BY <1>1, SMT DEF Pow10

(* An empty entry reads as a number that fits.                             *)
LEMMA ZeroFits == NumberFits(0)
<1>1. MAX_DIGITS \in 0..8
  BY EntryAssumption, SMT
<1>2. 0 < Pow10(MAX_DIGITS)
  BY <1>1, Pow10Monotone, SMT
<1>3. QED
  BY <1>2 DEF NumberFits

LEMMA AgedType ==
    ASSUME entryAge \in 0..(ENTRY_TIMEOUT + 1), NEW d \in Nat
    PROVE  /\ Aged(d) \in 0..(ENTRY_TIMEOUT + 1)
           /\ Aged(d) = entryAge + d \/ Aged(d) = ENTRY_TIMEOUT + 1
BY EntryAssumption, DurationsAssumption, SMT DEF Aged, Later
-----------------------------------------------------------------------------
(* An entry that holds no digit has no age.                                *)
AgeIsOfDigits == numberCount = 0 => entryAge = 0

(* The invariants are inductive together.                                  *)
EntryIInv == EntryTypeOK /\ BufferFits /\ PendingAcked /\ AgeIsOfDigits

LEMMA EntryInitIInv == EntryInit => EntryIInv
BY ZeroFits, EntryAssumption, SMT DEF EntryInit, EntryIInv, EntryTypeOK, BufferFits, PendingAcked, AgeIsOfDigits, Pow10

LEMMA AppendIInv ==
    ASSUME EntryIInv, NEW d \in Nat, NEW k \in DigitKeys, NEW digitNumber \in 1..MAX_DIGITS,
           AppendDigit(k, digitNumber, d)
    PROVE  EntryIInv'
<1> USE EntryAssumption, DurationsAssumption
<1>1. numberCount \in 0..7 /\ numberCount' \in 1..MAX_DIGITS /\ k \in 0..9
  BY SMT DEF AppendDigit, EntryIInv, EntryTypeOK
<1>2. BufferFits'
  <2>0. stringCharacter \in Nat /\ stringCharacter < Pow10(numberCount)
    BY DEF EntryIInv, EntryTypeOK, BufferFits
  <2>1. 10 * stringCharacter + k < Pow10(numberCount + 1)
    BY <1>1, <2>0, Pow10Next, Zenon
  <2>2. stringCharacter' < Pow10(numberCount')
    BY <2>1 DEF AppendDigit
  <2>3. QED
    BY <2>2 DEF AppendDigit, EntryIInv, BufferFits, NumberFits
<1>3. EntryTypeOK'
  BY <1>1, AgedType, SMT DEF AppendDigit, LoopEnd, EntryIInv, EntryTypeOK
<1>4. PendingAcked' /\ AgeIsOfDigits'
  BY <1>1, SMT DEF AppendDigit, EntryIInv, EntryTypeOK, PendingAcked, AgeIsOfDigits
<1>5. QED
  BY <1>2, <1>3, <1>4 DEF EntryIInv

(* A step that drops the digits and writes nothing wrong to the rest.      *)
LEMMA DroppedIInv ==
    ASSUME EntryIInv, Dropped, ackKeypad' \in 0..1,
           numberKeypad' \in Nat, NumberFits(numberKeypad'),
           call' \in {"polling", "end", "A", "B", "D"}
    PROVE  EntryIInv'
BY EntryAssumption, DurationsAssumption, SMT
   DEF Dropped, EntryIInv, EntryTypeOK, BufferFits, PendingAcked, AgeIsOfDigits, Pow10

(* A step that keeps them, where ackKeypad falls only for an empty entry.  *)
LEMMA HeldIInv ==
    ASSUME EntryIInv, NEW d \in Nat, Held(d),
           ackKeypad' \in 0..1, numberCount > 0 => ackKeypad' = 1 \/ ackKeypad' = ackKeypad,
           numberKeypad' \in Nat, NumberFits(numberKeypad'),
           call' \in {"polling", "end", "A", "B", "D"}
    PROVE  EntryIInv'
<1>1. entryAge' \in 0..(ENTRY_TIMEOUT + 1)
  BY AgedType, EntryAssumption, DurationsAssumption, SMT DEF Held, EntryIInv, EntryTypeOK
<1>2. EntryTypeOK' /\ PendingAcked' /\ AgeIsOfDigits'
  BY <1>1, SMT DEF Held, EntryIInv, EntryTypeOK, PendingAcked, AgeIsOfDigits
<1>3. BufferFits'
  BY DEF Held, EntryIInv, BufferFits, NumberFits
<1>4. QED
  BY <1>2, <1>3 DEF EntryIInv

LEMMA KeyIInv ==
    ASSUME EntryIInv, NEW d \in Nat, NEW digitNumber \in 1..MAX_DIGITS, Key(digitNumber, d)
    PROVE  EntryIInv'
<1>1. ASSUME NEW k \in DigitKeys, AppendDigit(k, digitNumber, d)
      PROVE  EntryIInv'
  BY <1>1, AppendIInv
<1>2. CASE Clear(d)
  BY <1>2, DroppedIInv DEF Clear, LoopEnd, EntryIInv, EntryTypeOK, BufferFits
<1>3. CASE Submit(d)
  <2>1. NumberFits(numberKeypad')
    <3>1. MAX_DIGITS \in 0..8 /\ numberCount \in 0..MAX_DIGITS /\ stringCharacter \in Nat
      BY EntryAssumption, SMT DEF EntryIInv, EntryTypeOK
    <3>2. /\ Pow10(numberCount) <= Pow10(MAX_DIGITS)
          /\ Pow10(numberCount) \in Nat /\ Pow10(MAX_DIGITS) \in Nat
      BY <3>1, Pow10Monotone
    <3>3. stringCharacter < Pow10(numberCount)
      BY DEF EntryIInv, BufferFits
    <3>4. stringCharacter < Pow10(MAX_DIGITS)
      BY <3>1, <3>2, <3>3, SMT
    <3>5. QED
      BY <1>3, <3>4 DEF Submit, NumberFits
  <2>2. QED
    BY <1>3, <2>1, DroppedIInv DEF Submit, EntryIInv, EntryTypeOK
<1>4. CASE SettingKey(d)
  BY <1>4, HeldIInv, SMT DEF SettingKey, NumberFits, SETTING, EntryIInv, EntryTypeOK
<1>5. CASE BackKey(d)
  BY <1>5, HeldIInv, SMT DEF BackKey, NumberFits, BACK, EntryIInv, EntryTypeOK
<1>6. QED
  BY <1>1, <1>2, <1>3, <1>4, <1>5 DEF Key

LEMMA NoKeyIInv ==
    ASSUME EntryIInv, NEW d \in Nat, NoKey(d)
    PROVE  EntryIInv'
<1>1. CASE IdleScan(d)
  BY <1>1, HeldIInv, SMT DEF IdleScan, LoopEnd, EntryIInv, EntryTypeOK, BufferFits
<1>2. CASE Expire(d)
  BY <1>2, DroppedIInv DEF Expire, LoopEnd, EntryIInv, EntryTypeOK, BufferFits
<1>3. QED
  BY <1>1, <1>2 DEF NoKey

LEMMA CallerIInv ==
    ASSUME EntryIInv, NEW d \in Nat, NEW n \in Nat, NumberFits(n), NEW again \in BOOLEAN,
           Caller(n, again, d)
    PROVE  EntryIInv'
BY HeldIInv, SMT DEF Caller, EntryIInv, EntryTypeOK

LEMMA EntryPowerUpIInv ==
    ASSUME EntryPowerUp
    PROVE  EntryIInv'
BY ZeroFits, EntryAssumption, SMT
   DEF EntryPowerUp, EntryIInv, EntryTypeOK, BufferFits, PendingAcked, AgeIsOfDigits, Pow10

LEMMA EntryStepIInv ==
    ASSUME EntryIInv, [CheckNumNext]_entryVars
    PROVE  EntryIInv'
<1> USE EntryAssumption, DurationsAssumption
<1>1. CASE Iterate
  <2>1. PICK d \in Durations :
            NoKey(d) \/ \E digitNumber \in {1, MAX_DIGITS} : Key(digitNumber, d)
    BY <1>1 DEF Iterate
  <2>2. d \in Nat
    OBVIOUS
  <2>3. {1, MAX_DIGITS} \subseteq 1..MAX_DIGITS
    BY SMT
  <2>4. QED
    BY <2>1, <2>2, <2>3, NoKeyIInv, KeyIInv
<1>2. ASSUME NEW d \in Durations \cup {0}, NEW n \in {0, numberKeypad}, NEW again \in BOOLEAN,
             Caller(n, again, d)
      PROVE  EntryIInv'
  <2>1. n \in Nat /\ d \in Nat /\ NumberFits(n)
    BY ZeroFits DEF EntryIInv, EntryTypeOK, BufferFits
  <2>2. QED
    BY <1>2, <2>1, CallerIInv
<1>3. CASE EntryPowerUp
  BY <1>3, EntryPowerUpIInv
<1>4. CASE UNCHANGED entryVars
  BY <1>4 DEF entryVars, EntryIInv, EntryTypeOK, BufferFits, NumberFits, PendingAcked, AgeIsOfDigits
<1>5. QED
  BY <1>1, <1>2, <1>3, <1>4 DEF CheckNumNext

(* The digits held match their count, and someone typing is never idle.    *)
THEOREM EntrySafety == CheckNumSpec => [](EntryTypeOK /\ BufferFits /\ PendingAcked)
<1>1. EntryInit => EntryIInv
  BY EntryInitIInv
<1>2. EntryIInv /\ [CheckNumNext]_entryVars => EntryIInv'
  BY EntryStepIInv
<1>3. EntryIInv => EntryTypeOK /\ BufferFits /\ PendingAcked
  BY DEF EntryIInv
<1>4. QED
  BY <1>1, <1>2, <1>3, PTL DEF CheckNumSpec

=============================================================================
