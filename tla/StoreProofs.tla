----------------------------- MODULE StoreProofs -----------------------------
(***************************************************************************)
(* Proofs about the stored password: the two conversions are inverse to    *)
(* each other on every password eight digits can spell, and the flash      *)
(* always holds the last password that was confirmed.                      *)
(***************************************************************************)
EXTENDS PasswordStore, TLAPS

(* Division of naturals, as far as the conversions need it.                *)
LEMMA Division ==
    ASSUME NEW p \in Nat, NEW k \in Nat, NEW m \in Nat, k > 0, p < m * k
    PROVE  /\ p \div k \in Nat
           /\ p \div k < m
           /\ p - (p \div k) * k \in Nat
           /\ p - (p \div k) * k < k
<1>1. p \div k \in Nat /\ p - (p \div k) * k >= 0 /\ p - (p \div k) * k < k
  BY SMT
<1>2. p \div k < m
  BY SMT
<1>3. QED
  BY SMT, <1>1, <1>2

(* Two decimal digits fit a byte.                                          *)
LEMMA SmallByte ==
    ASSUME NEW n \in Nat, n < 100
    PROVE  n % 256 = n
BY SMT

(* getPassword() returns what savePassword() was given.                    *)
THEOREM RoundTrip ==
    ASSUME NEW p \in Nat, p <= MAX_PASSWORD
    PROVE  Encode(p) \in Bytes /\ Decode(Encode(p)) = p
<1> DEFINE d12 == (p \div 1000000) % 256
           r6  == p - d12 * 1000000
           d34 == (r6 \div 10000) % 256
           r4  == r6 - d34 * 10000
           d56 == (r4 \div 100) % 256
           d78 == (r4 - d56 * 100) % 256
<1>1. /\ d12 \in Nat /\ d12 < 100
      /\ r6 \in Nat /\ r6 < 1000000
  <2>1. p < 100 * 1000000
    BY SMT DEF MAX_PASSWORD
  <2>2. /\ p \div 1000000 \in Nat
        /\ p \div 1000000 < 100
        /\ p - (p \div 1000000) * 1000000 \in Nat
        /\ p - (p \div 1000000) * 1000000 < 1000000
    BY SMT, <2>1, Division
  <2>3. d12 = p \div 1000000
    BY SMT, <2>2, SmallByte
  <2> HIDE DEF d12
  <2>4. QED
    BY SMT, <2>2, <2>3
<1> HIDE DEF d12, r6
<1>2. /\ d34 \in Nat /\ d34 < 100
      /\ r4 \in Nat /\ r4 < 10000
  <2>1. r6 < 100 * 10000
    BY SMT, <1>1
  <2>2. /\ r6 \div 10000 \in Nat
        /\ r6 \div 10000 < 100
        /\ r6 - (r6 \div 10000) * 10000 \in Nat
        /\ r6 - (r6 \div 10000) * 10000 < 10000
    BY SMT, <1>1, <2>1, Division
  <2>3. d34 = r6 \div 10000
    BY SMT, <2>2, SmallByte
  <2> HIDE DEF d34
  <2>4. QED
    BY SMT, <2>2, <2>3
<1> HIDE DEF d34, r4
<1>3. /\ d56 \in Nat /\ d56 < 100
      /\ r4 - d56 * 100 \in Nat /\ r4 - d56 * 100 < 100
  <2>1. r4 < 100 * 100
    BY SMT, <1>2
  <2>2. /\ r4 \div 100 \in Nat
        /\ r4 \div 100 < 100
        /\ r4 - (r4 \div 100) * 100 \in Nat
        /\ r4 - (r4 \div 100) * 100 < 100
    BY SMT, <1>2, <2>1, Division
  <2>3. d56 = r4 \div 100
    BY SMT, <2>2, SmallByte
  <2> HIDE DEF d56
  <2>4. QED
    BY SMT, <2>2, <2>3
<1> HIDE DEF d56
<1>4. d78 = r4 - d56 * 100
  BY SMT, <1>3, SmallByte
<1> HIDE DEF d78
<1>5. d78 \in Nat /\ d78 < 100
  BY SMT, <1>3, <1>4
<1>6. Encode(p) = <<d12, d34, d56, d78>>
  BY SMT DEF Encode, d12, r6, d34, r4, d56, d78
<1>7. d12 * 1000000 + d34 * 10000 + d56 * 100 + d78 = p
  <2>1. r4 = r6 - d34 * 10000 /\ r6 = p - d12 * 1000000
    BY SMT DEF r4, r6
  <2>2. QED
    BY SMT, <1>1, <1>2, <1>3, <1>4, <2>1
<1>8. Decode(Encode(p)) = p
  BY SMT, <1>6, <1>7 DEF Decode
<1>9. Encode(p) \in Bytes
  BY SMT, <1>1, <1>2, <1>3, <1>5, <1>6 DEF Bytes
<1>10. QED
  BY <1>8, <1>9
-----------------------------------------------------------------------------
(* Any four bytes are read as some number.                                 *)
LEMMA DecodeType == ASSUME NEW b \in Bytes PROVE Decode(b) \in Nat
<1>1. b[1] \in Nat /\ b[2] \in Nat /\ b[3] \in Nat /\ b[4] \in Nat
  BY SMT DEF Bytes
<1>2. ASSUME NEW x \in Nat, NEW y \in Nat, NEW z \in Nat, NEW u \in Nat
      PROVE  x * 1000000 + y * 10000 + z * 100 + u \in Nat
  BY SMT
<1>3. b[1] * 1000000 + b[2] * 10000 + b[3] * 100 + b[4] \in Nat
  BY SMT, <1>1, <1>2
<1>4. QED
  BY SMT, <1>3 DEF Decode

StoreIInv == StoreTypeOK /\ FlashHoldsConfirmed

LEMMA StoreInitIInv == StoreInit => StoreIInv
BY SMT, StoreAssumption, DecodeType DEF StoreInit, StoreIInv, StoreTypeOK, FlashHoldsConfirmed

LEMMA ChangePasswordIInv ==
    ASSUME StoreIInv, NEW password \in Nat, NEW committed \in BOOLEAN,
           ChangePassword(password, committed)
    PROVE  StoreIInv'
<1>1. CASE Saved(password, committed)
  <2>1. password <= MAX_PASSWORD
    BY SMT, <1>1 DEF Saved, MAX_PASSWORD
  <2>2. Encode(password) \in Bytes /\ Decode(Encode(password)) = password
    BY SMT, <2>1, RoundTrip
  <2>3. QED
    BY SMT, <1>1, <2>2 DEF ChangePassword, StoreIInv, StoreTypeOK, FlashHoldsConfirmed
<1>2. CASE ~Saved(password, committed)
  BY SMT, <1>2 DEF ChangePassword, StoreIInv, StoreTypeOK, FlashHoldsConfirmed
<1>3. QED
  BY SMT, <1>1, <1>2

LEMMA StoreStepIInv ==
    ASSUME StoreIInv, [StoreNext]_storeVars
    PROVE  StoreIInv'
<1>1. CASE GetPassword
  BY SMT, <1>1, DecodeType DEF GetPassword, StoreIInv, StoreTypeOK, FlashHoldsConfirmed
<1>2. CASE PowerLoss
  BY SMT, <1>2 DEF PowerLoss, StoreIInv, StoreTypeOK, FlashHoldsConfirmed
<1>3. ASSUME NEW password \in Passwords, NEW committed \in BOOLEAN,
             ChangePassword(password, committed)
      PROVE  StoreIInv'
  BY SMT, <1>3, ChangePasswordIInv, StoreAssumption
<1>4. CASE UNCHANGED storeVars
  BY SMT, <1>4 DEF storeVars, StoreIInv, StoreTypeOK, FlashHoldsConfirmed
<1>5. QED
  BY SMT, <1>1, <1>2, <1>3, <1>4 DEF StoreNext

(* A reboot reads the password that was last confirmed to the user.        *)
THEOREM FlashConfirmed == StoreSpec => [](StoreTypeOK /\ FlashHoldsConfirmed)
<1>1. StoreInit => StoreIInv
  BY SMT, StoreInitIInv
<1>2. StoreIInv /\ [StoreNext]_storeVars => StoreIInv'
  BY SMT, StoreStepIInv
<1>3. StoreIInv => StoreTypeOK /\ FlashHoldsConfirmed
  BY SMT DEF StoreIInv
<1>4. QED
  BY <1>1, <1>2, <1>3, PTL DEF StoreSpec

=============================================================================
