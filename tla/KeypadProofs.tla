---------------------------- MODULE KeypadProofs ----------------------------
(***************************************************************************)
(* Proofs about the keypad driver, for every set of keys, every length of  *)
(* its list and every choice of times with BOUNCE within the debounce time.*)
(***************************************************************************)
EXTENDS KeypadScan, FiniteSetTheorems, TLAPS

USE KeypadAssumption, DurationsAssumption

OnList(k) == \E i \in Slots : key[i].kcode = k /\ key[i].kstate \in {"PRESSED", "HOLD"}

(* The next scan reads the contact of k as it is: either it has stopped    *)
(* bouncing, or it has been read since its last press or release and the   *)
(* next reading is a debounce time later.                                  *)
Settled(k) == settling[k] > BOUNCE \/ startTime <= settling[k]

(* A key that was returned and is still down is known as pressed, so it    *)
(* cannot be found pressed again; one that was released is either still    *)
(* known as pressed or reads open.                                         *)
ReadOnce ==
    \A k \in Keys \ unread :
        /\ k \in down => OnList(k) /\ Settled(k)
        /\ k \notin down => OnList(k) \/ Settled(k)

KeypadIInv == KeypadTypeOK /\ ReadOnce

LEMMA KeypadInitIInv == KeypadInit => KeypadIInv
BY DEF KeypadInit, KeypadIInv, KeypadTypeOK, ReadOnce, Settled, OneSlotEach, Slots, Slot, Empty,
   KeyStates, NO_KEY
-----------------------------------------------------------------------------
(* The list.                                                               *)

(* Of two members of a finite set of numbers, the smaller has fewer before *)
(* it: the order of a scan gives every slot to one key.                    *)
LEMMA RankIncreases ==
    ASSUME NEW S \in SUBSET Nat, IsFiniteSet(S), NEW m \in S, NEW n \in S, m < n
    PROVE  Cardinality(Before(m, S)) # Cardinality(Before(n, S))
<1>1. Before(m, S) \subseteq Before(n, S) /\ m \in Before(n, S) /\ m \notin Before(m, S)
  <2>1. m \in Nat /\ n \in Nat /\ ~(m < m)
    OBVIOUS
  <2>2. ASSUME NEW l \in S, l < m
        PROVE  l < n
    <3>1. l \in Nat
      OBVIOUS
    <3>2. QED
      BY <2>1, <2>2, <3>1
  <2>3. QED
    BY <2>1, <2>2, Zenon DEF Before
<1>2. IsFiniteSet(Before(n, S))
  BY FS_Subset DEF Before
<1>3. Cardinality(Before(m, S)) < Cardinality(Before(n, S))
  BY <1>1, <1>2, FS_Subset, FS_CardinalityType
<1>4. QED
  BY <1>1, <1>2, <1>3, FS_Subset, FS_CardinalityType

(* No key enters two slots.                                                *)
LEMMA EntersOneSlot ==
    ASSUME NEW list, NEW closed \in SUBSET Keys, NEW k, NEW i \in Slots, NEW j \in Slots,
           EntersSlot(list, closed, k, i), EntersSlot(list, closed, k, j)
    PROVE  i = j
<1>1. EmptySlots(list) \in SUBSET Nat /\ IsFiniteSet(EmptySlots(list))
  <2>1. IsFiniteSet(Slots)
    BY FS_Interval DEF Slots
  <2>2. QED
    BY <2>1, FS_Subset DEF EmptySlots, Slots
<1>2. Cardinality(Before(i, EmptySlots(list))) = Cardinality(Before(j, EmptySlots(list)))
  BY DEF EntersSlot
<1>3. i \in EmptySlots(list) /\ j \in EmptySlots(list) /\ i \in Nat /\ j \in Nat
  BY DEF EntersSlot, Slots
<1>4. ~(i < j) /\ ~(j < i)
  BY <1>1, <1>2, <1>3, RankIncreases
<1>5. QED
  BY <1>3, <1>4

(* What an update makes of a slot: it keeps its key, or was empty and got  *)
(* a closed key that was not on the list, or stays empty.                  *)
SlotUpdate(list, closed, i, slot) ==
    \/ /\ Cleared(list[i]) = list[i]
       /\ slot \in Slot
       /\ slot.kcode = list[i].kcode
       /\ slot.kstate = "PRESSED" => list[i].kstate = "PRESSED" /\ ~slot.stateChanged
       /\ list[i].kstate \in {"PRESSED", "HOLD"} /\ list[i].kcode \in closed
             => slot.kstate \in {"PRESSED", "HOLD"}
    \/ /\ EntersSlot(list, closed, slot.kcode, i)
       /\ slot \in Slot
       /\ slot.kcode \in closed
    \/ slot = Empty /\ i \in EmptySlots(list)

LEMMA UpdatedSlotCases ==
    ASSUME NEW list \in [Slots -> Slot], NEW closed \in SUBSET Keys, NEW hold, NEW i \in Slots
    PROVE  SlotUpdate(list, closed, i, UpdateList(list, closed, hold)[i])
<1> DEFINE slot == UpdateList(list, closed, hold)[i]
<1>1. slot = UpdatedSlot(list, closed, hold, i)
  BY DEF UpdateList
<1> HIDE DEF slot
<1>2. CASE i \notin EmptySlots(list)
  <2> DEFINE old == list[i]
             button == list[i].kcode \in closed
             held == Held(list[i].kcode, list, closed, hold)
             next == NextKeyState(old.kstate, button, held)
  <2>1. slot = [old EXCEPT !.kstate = next, !.stateChanged = next # old.kstate]
    BY <1>1, <1>2 DEF UpdatedSlot, Stepped
  <2>2. Cleared(old) = old /\ old \in Slot
    BY <1>2 DEF EmptySlots, Cleared
  <2> HIDE DEF old, button, held
  <2>3. /\ next \in KeyStates
        /\ next = "PRESSED" => old.kstate = "PRESSED"
        /\ old.kstate \in {"PRESSED", "HOLD"} /\ button => next \in {"PRESSED", "HOLD"}
    BY <2>2 DEF NextKeyState, Slot, KeyStates
  <2> HIDE DEF next
  <2>4. /\ slot.kcode = old.kcode /\ slot.kstate = next /\ slot.stateChanged = (next # old.kstate)
        /\ slot \in Slot
    BY <2>1, <2>2, <2>3 DEF Slot
  <2>5. QED
    BY <2>2, <2>3, <2>4 DEF SlotUpdate, slot, old, button
<1>3. CASE i \in EmptySlots(list) /\ \E k \in closed : EntersSlot(list, closed, k, i)
  <2>1. slot = [kcode |-> CHOOSE k \in closed : EntersSlot(list, closed, k, i),
                kstate |-> "PRESSED", stateChanged |-> TRUE]
    BY <1>1, <1>3 DEF UpdatedSlot
  <2>2. slot.kcode \in closed /\ EntersSlot(list, closed, slot.kcode, i)
    BY <1>3, <2>1
  <2>3. slot \in Slot
    BY <2>1, <2>2 DEF Slot, KeyStates
  <2>4. QED
    BY <2>2, <2>3 DEF SlotUpdate, slot
<1>4. CASE i \in EmptySlots(list) /\ ~\E k \in closed : EntersSlot(list, closed, k, i)
  BY <1>1, <1>4 DEF UpdatedSlot, SlotUpdate, slot
<1>5. QED
  BY <1>2, <1>3, <1>4

LEMMA EmptySlot == Empty \in Slot /\ NO_KEY \notin Keys
BY DEF Empty, Slot, KeyStates, NO_KEY

LEMMA UpdateListType ==
    ASSUME NEW list \in [Slots -> Slot], NEW closed \in SUBSET Keys, NEW hold
    PROVE  UpdateList(list, closed, hold) \in [Slots -> Slot]
<1>1. \A i \in Slots : UpdateList(list, closed, hold)[i] \in Slot
  BY UpdatedSlotCases, EmptySlot DEF SlotUpdate
<1>2. QED
  BY <1>1 DEF UpdateList

(* An update leaves every key in one slot at most.                         *)
LEMMA UpdateListOneSlot ==
    ASSUME KeypadTypeOK, NEW closed \in SUBSET Keys, NEW hold,
           key' = UpdateList(key, closed, hold)
    PROVE  OneSlotEach'
<1> SUFFICES ASSUME NEW i \in Slots, NEW j \in Slots,
                    key'[i].kcode = key'[j].kcode, key'[i].kcode # NO_KEY
             PROVE  i = j
  BY DEF OneSlotEach
<1>1. key \in [Slots -> Slot] /\ OneSlotEach
  BY DEF KeypadTypeOK
<1> DEFINE Stays(n) == Cleared(key[n]) = key[n] /\ key'[n].kcode = key[n].kcode
           Enters(n) == EntersSlot(key, closed, key'[n].kcode, n)
<1>2. \A n \in {i, j} : Stays(n) \/ Enters(n)
  BY <1>1, UpdatedSlotCases DEF SlotUpdate, Empty
<1>3. ASSUME NEW n \in {i, j}, Stays(n)
      PROVE  key'[n].kcode \in Listed(key)
  BY <1>3 DEF Listed
<1>4. ASSUME NEW n \in {i, j}, Enters(n)
      PROVE  key'[n].kcode \notin Listed(key)
  BY <1>4 DEF EntersSlot
<1>5. CASE Stays(i) /\ Stays(j)
  BY <1>1, <1>5 DEF OneSlotEach
<1>6. CASE Enters(i) /\ Enters(j)
  BY <1>6, EntersOneSlot
<1>7. QED
  BY <1>2, <1>3, <1>4, <1>5, <1>6
-----------------------------------------------------------------------------
(* The steps.                                                              *)
LEMMA AgeType ==
    ASSUME NEW limit \in Nat, NEW age \in 0..(limit + 1), NEW d \in Nat
    PROVE  /\ Later(age, d, limit) \in 0..(limit + 1)
           /\ Later(age, d, limit) > limit <=> age + d > limit
           /\ Later(age, d, limit) <= limit => Later(age, d, limit) = age + d
           /\ Later(age, d, limit) <= age + d
BY DEF Later

LEMMA PressIInv ==
    ASSUME KeypadIInv, NEW k \in Keys, Press(k)
    PROVE  KeypadIInv'
<1>1. KeypadTypeOK'
  BY DEF KeypadIInv, KeypadTypeOK, Press, listVars, OneSlotEach
<1>2. ReadOnce'
  BY DEF KeypadIInv, KeypadTypeOK, ReadOnce, Press, listVars, OnList, Settled
<1>3. QED
  BY <1>1, <1>2 DEF KeypadIInv

LEMMA ReleaseIInv ==
    ASSUME KeypadIInv, NEW k \in Keys, Release(k)
    PROVE  KeypadIInv'
<1>1. KeypadTypeOK'
  BY DEF KeypadIInv, KeypadTypeOK, Release, listVars, OneSlotEach
<1>2. ReadOnce'
  BY DEF KeypadIInv, KeypadTypeOK, ReadOnce, Release, listVars, OnList, Settled
<1>3. QED
  BY <1>1, <1>2 DEF KeypadIInv

LEMMA PassedType ==
    ASSUME KeypadTypeOK, NEW d \in Durations, Passed(d)
    PROVE  /\ settling' \in [Keys -> 0..(BOUNCE + 1)]
           /\ \A k \in Keys : settling'[k] = Later(settling[k], d, BOUNCE)
<1>1. \A k \in Keys : Later(settling[k], d, BOUNCE) \in 0..(BOUNCE + 1)
  BY AgeType DEF KeypadTypeOK
<1>2. QED
  BY <1>1 DEF Passed

LEMMA TooSoonIInv ==
    ASSUME KeypadIInv, NEW d \in Durations, CallTooSoon(d)
    PROVE  KeypadIInv'
<1>1. d \in Nat /\ KeypadTypeOK /\ Passed(d)
  BY DEF KeypadIInv, CallTooSoon
<1>2. startTime' = startTime + d /\ startTime' \in 0..debounceTime
  BY <1>1 DEF CallTooSoon, ScanDue, Over, KeypadTypeOK, Later
<1>3. holdTimer' \in 0..(holdTime + 1)
  BY <1>1, AgeType DEF CallTooSoon, KeypadTypeOK
<1>4. KeypadTypeOK'
  BY <1>1, <1>2, <1>3, PassedType DEF CallTooSoon, Passed, KeypadTypeOK, OneSlotEach
<1>5. ASSUME NEW k \in Keys, Settled(k)
      PROVE  Settled(k)'
  <2>1. settling[k] \in 0..(BOUNCE + 1) /\ settling'[k] = Later(settling[k], d, BOUNCE)
    BY <1>1, PassedType DEF KeypadTypeOK
  <2>2. QED
    BY <1>1, <1>2, <1>5, <2>1 DEF Settled, Later, KeypadTypeOK
<1>6. ReadOnce'
  BY <1>5 DEF KeypadIInv, ReadOnce, CallTooSoon, Passed, OnList
<1>7. QED
  BY <1>4, <1>6 DEF KeypadIInv

(* A settled contact is read as it is.                                     *)
LEMMA SettledRead ==
    ASSUME KeypadIInv, NEW d \in Durations, CallScans(d),
           NEW closed \in Contacts(settling'), NEW k \in Keys, Settled(k)
    PROVE  k \in closed <=> k \in down
<1>1. d \in Nat /\ KeypadTypeOK /\ Passed(d)
  BY DEF KeypadIInv, CallScans
<1>2. startTime + d > debounceTime
  BY <1>1, AgeType DEF CallScans, ScanDue, Over, KeypadTypeOK
<1>3. settling[k] + d > BOUNCE
  BY <1>1, <1>2 DEF Settled, KeypadTypeOK
<1>4. settling'[k] > BOUNCE
  BY <1>1, <1>3, PassedType, AgeType DEF KeypadTypeOK
<1>5. ~(settling'[k] <= BOUNCE)
  BY <1>1, <1>4, PassedType
<1>6. QED
  BY <1>5 DEF Contacts

LEMMA ContactsType ==
    ASSUME KeypadTypeOK, NEW ages
    PROVE  Contacts(ages) \subseteq SUBSET Keys
BY DEF Contacts, KeypadTypeOK

(* What getKey() returns was just found pressed: it is a closed key that   *)
(* was not on the list.                                                    *)
LEMMA ReturnedIsNew ==
    ASSUME KeypadIInv, NEW d \in Durations, CallScans(d), getKey' # NO_KEY,
           NEW closed \in Contacts(settling'), NEW hold, key' = UpdateList(key, closed, hold)
    PROVE  /\ getKey' = key'[1].kcode /\ key'[1].kstate = "PRESSED"
           /\ getKey' \in closed
           /\ ~OnList(getKey')
<1>1. 1 \in Slots /\ key \in [Slots -> Slot] /\ closed \in SUBSET Keys
  BY ContactsType DEF Slots, KeypadIInv, KeypadTypeOK
<1>2. getKey' = key'[1].kcode /\ key'[1].kstate = "PRESSED" /\ key'[1].stateChanged
  BY DEF CallScans
<1>3. key'[1].kcode \in closed /\ EntersSlot(key, closed, key'[1].kcode, 1)
  BY <1>1, <1>2, UpdatedSlotCases DEF SlotUpdate, Empty
<1>4. getKey' \notin Listed(key)
  BY <1>2, <1>3 DEF EntersSlot
<1>5. ASSUME NEW i \in Slots, key[i].kcode = getKey', key[i].kstate \in {"PRESSED", "HOLD"}
      PROVE  FALSE
  <2>1. Cleared(key[i]).kcode = getKey'
    BY <1>5 DEF Cleared
  <2>2. QED
    BY <2>1, <1>4 DEF Listed
<1>6. QED
  BY <1>2, <1>3, <1>5 DEF OnList

(* A call returns only a key pressed since it was last returned.           *)
LEMMA ReturnedWasUnread ==
    ASSUME KeypadIInv, NEW d \in Durations, CallScans(d), getKey' # NO_KEY
    PROVE  getKey' \in unread
<1>1. PICK closed \in Contacts(settling') :
         key' = UpdateList(key, closed, Later(holdTimer, d, holdTime))
  BY DEF CallScans
<1>2. getKey' \in closed /\ ~OnList(getKey')
  BY <1>1, ReturnedIsNew
<1>3. getKey' \in Keys
  BY <1>2, ContactsType DEF KeypadIInv
<1>4. ASSUME getKey' \notin unread
      PROVE  FALSE
  <2>1. getKey' \notin down /\ Settled(getKey')
    BY <1>2, <1>3, <1>4 DEF KeypadIInv, ReadOnce
  <2>2. QED
    BY <1>2, <1>3, <2>1, SettledRead
<1>5. QED
  BY <1>4

LEMMA ScanIInv ==
    ASSUME KeypadIInv, NEW d \in Durations, CallScans(d)
    PROVE  KeypadIInv'
<1>1. d \in Nat /\ KeypadTypeOK /\ Passed(d) /\ startTime' = 0
  BY DEF KeypadIInv, CallScans
<1> DEFINE hold == Later(holdTimer, d, holdTime)
<1>2. PICK closed \in Contacts(settling') :
         /\ key' = UpdateList(key, closed, hold)
         /\ holdTimer' = IF Added(key, closed) = {} THEN hold ELSE 0
  BY DEF CallScans
<1>3. closed \in SUBSET Keys
  BY <1>1, ContactsType
<1>4. holdTimer' \in 0..(holdTime + 1)
  <2>1. hold \in 0..(holdTime + 1)
    BY <1>1, AgeType DEF KeypadTypeOK
  <2>2. QED
    BY <1>2, <2>1
<1> HIDE DEF hold
<1>5. key' \in [Slots -> Slot] /\ OneSlotEach'
  BY <1>1, <1>2, <1>3, UpdateListType, UpdateListOneSlot DEF KeypadTypeOK
<1>6. getKey' \in Keys \cup {NO_KEY}
  BY <1>2, <1>3, ReturnedIsNew
<1>7. KeypadTypeOK'
  <2>1. settling' \in [Keys -> 0..(BOUNCE + 1)]
    BY <1>1, PassedType
  <2>2. down' \subseteq Keys /\ unread' \subseteq Keys
    <3>1. down' = down /\ unread' \subseteq unread
      BY DEF CallScans, Passed
    <3>2. QED
      BY <1>1, <3>1 DEF KeypadTypeOK
  <2>3. startTime' \in 0..(debounceTime + 1)
    BY <1>1
  <2>4. QED
    BY <1>4, <1>5, <1>6, <2>1, <2>2, <2>3 DEF KeypadTypeOK
<1>8. ASSUME NEW k \in Keys
      PROVE  Settled(k)'
  BY <1>1, PassedType DEF Settled
<1>9. ASSUME NEW k \in Keys, k \notin unread', k \in down'
      PROVE  OnList(k)'
  <2>1. CASE k = getKey'
    <3>1. key'[1].kcode = k /\ key'[1].kstate = "PRESSED" /\ 1 \in Slots
      BY <1>2, <2>1, EmptySlot, ReturnedIsNew DEF Slots
    <3>2. QED
      BY <3>1 DEF OnList
  <2>2. CASE k # getKey'
    <3>1. k \notin unread /\ k \in down
      BY <1>9, <1>1, <2>2 DEF CallScans, Passed
    <3>2. OnList(k) /\ k \in closed
      BY <3>1, SettledRead DEF KeypadIInv, ReadOnce
    <3>3. PICK i \in Slots : key[i].kcode = k /\ key[i].kstate \in {"PRESSED", "HOLD"}
      BY <3>2 DEF OnList
    <3>4. Cleared(key[i]) # Empty
      BY <3>3, EmptySlot DEF Cleared, Empty
    <3>5. i \notin EmptySlots(key)
      BY <3>4 DEF EmptySlots
    <3>6. key'[i].kcode = k /\ key'[i].kstate \in {"PRESSED", "HOLD"}
      <4>1. key \in [Slots -> Slot]
        BY <1>1 DEF KeypadTypeOK
      <4>2. SlotUpdate(key, closed, i, key'[i])
        BY <1>2, <1>3, <4>1, UpdatedSlotCases
      <4>3. QED
        BY <3>2, <3>3, <3>5, <4>2 DEF SlotUpdate, EntersSlot
    <3>7. QED
      BY <3>6 DEF OnList
  <2>3. QED
    BY <2>1, <2>2
<1>10. ReadOnce'
  BY <1>8, <1>9 DEF ReadOnce
<1>11. QED
  BY <1>7, <1>10 DEF KeypadIInv

LEMMA KeypadStepIInv ==
    ASSUME KeypadIInv, [KeypadNext]_keypadVars
    PROVE  KeypadIInv'
<1>1. ASSUME NEW k \in Keys, Press(k) \/ Release(k)
      PROVE  KeypadIInv'
  BY <1>1, PressIInv, ReleaseIInv
<1>2. ASSUME NEW d \in Durations, CallTooSoon(d) \/ CallScans(d)
      PROVE  KeypadIInv'
  BY <1>2, TooSoonIInv, ScanIInv
<1>3. CASE UNCHANGED keypadVars
  BY <1>3 DEF keypadVars, listVars, fingerVars, KeypadIInv, KeypadTypeOK, OneSlotEach, ReadOnce,
     OnList, Settled
<1>4. QED
  BY <1>1, <1>2, <1>3 DEF KeypadNext, GetKey, Finger

(* No key is ever in two slots of the list, however many are pressed.      *)
THEOREM KeypadTypes == KeypadSpec => []KeypadTypeOK
<1>1. KeypadInit => KeypadIInv
  BY KeypadInitIInv
<1>2. KeypadIInv /\ [KeypadNext]_keypadVars => KeypadIInv'
  BY KeypadStepIInv
<1>3. KeypadIInv => KeypadTypeOK
  BY DEF KeypadIInv
<1>4. QED
  BY <1>1, <1>2, <1>3, PTL DEF KeypadSpec

(* A press gives checkNum() one key at most, for contacts that bounce no   *)
(* longer than the debounce time.                                          *)
THEOREM KeypadOnePressOneKey == KeypadSpec => OnePressOneKey
<1>1. KeypadInit => KeypadIInv
  BY KeypadInitIInv
<1>2. KeypadIInv /\ [KeypadNext]_keypadVars => KeypadIInv'
  BY KeypadStepIInv
<1>3. KeypadIInv /\ [KeypadNext]_keypadVars
      => [GetKey /\ getKey' # NO_KEY => getKey' \in unread]_keypadVars
  BY ReturnedWasUnread DEF GetKey, CallTooSoon
<1>4. QED
  BY <1>1, <1>2, <1>3, PTL DEF KeypadSpec, OnePressOneKey
-----------------------------------------------------------------------------
(* What a scan makes of an idle list, and of a list whose keys are up.     *)
LEMMA ScanParts ==
    ASSUME KeypadIInv, NEW d \in Durations, CallScans(d)
    PROVE  /\ key \in [Slots -> Slot] /\ down' = down
           /\ \A j \in Keys : settling[j] > BOUNCE => settling'[j] > BOUNCE
           /\ \E closed \in Contacts(settling'), hold \in Int :
                  closed \subseteq Keys /\ key' = UpdateList(key, closed, hold)
<1>1. KeypadTypeOK /\ Passed(d) /\ d \in Nat
  BY DEF KeypadIInv, CallScans
<1>2. ASSUME NEW j \in Keys, settling[j] > BOUNCE
      PROVE  settling'[j] > BOUNCE
  <2>1. settling[j] \in 0..(BOUNCE + 1)
    BY <1>1 DEF KeypadTypeOK
  <2>2. settling[j] + d > BOUNCE
    BY <1>1, <1>2, <2>1
  <2>3. QED
    BY <1>1, <2>1, <2>2, AgeType, PassedType
<1>3. Later(holdTimer, d, holdTime) \in Int
  BY <1>1, AgeType DEF KeypadTypeOK
<1>4. PICK closed \in Contacts(settling') : key' = UpdateList(key, closed, Later(holdTimer, d, holdTime))
  BY DEF CallScans
<1>5. closed \subseteq Keys
  BY <1>1, ContactsType
<1>6. QED
  BY <1>1, <1>2, <1>3, <1>4, <1>5 DEF KeypadTypeOK, Passed

LEMMA IdleListEmpty ==
    ASSUME ListIdle
    PROVE  EmptySlots(key) = Slots /\ Listed(key) = {}
<1>1. \A i \in Slots : Cleared(key[i]) = Empty
  BY DEF ListIdle, Cleared
<1>2. EmptySlots(key) = Slots
  BY <1>1 DEF EmptySlots
<1>3. Listed(key) = {}
  BY <1>1 DEF Listed, Empty
<1>4. QED
  BY <1>2, <1>3

(* One closed key and an idle list: the key gets the first slot, the only  *)
(* one getKey() looks at.                                                  *)
LEMMA AloneGetsFirstSlot ==
    ASSUME NEW k \in Keys, NEW hold, ListIdle
    PROVE  UpdateList(key, {k}, hold)[1] = [kcode |-> k, kstate |-> "PRESSED", stateChanged |-> TRUE]
<1>1. 1 \in Slots /\ EmptySlots(key) = Slots /\ Listed(key) = {}
  BY IdleListEmpty DEF Slots
<1>2. Before(k, {k} \ Listed(key)) = {} /\ Before(1, EmptySlots(key)) = {}
  <2>1. ~(k < k) /\ \A i \in Slots : ~(i < 1)
    BY DEF Slots
  <2>2. QED
    BY <1>1, <2>1 DEF Before
<1>3. EntersSlot(key, {k}, k, 1)
  BY <1>1, <1>2 DEF EntersSlot
<1>4. (CHOOSE l \in {k} : EntersSlot(key, {k}, l, 1)) = k
  BY <1>3
<1>5. UpdatedSlot(key, {k}, hold, 1) = [kcode |-> k, kstate |-> "PRESSED", stateChanged |-> TRUE]
  BY <1>1, <1>3, <1>4 DEF UpdatedSlot
<1>6. QED
  BY <1>1, <1>5 DEF UpdateList

LEMMA AloneHeard ==
    ASSUME KeypadIInv, NEW d \in Durations, CallScans(d), NEW k \in Keys, Alone(k)
    PROVE  \/ getKey' = k
           \/ settling[k] < startTime /\ settling'[k] <= BOUNCE /\ Alone(k)'
<1>1. PICK closed \in Contacts(settling'), hold \in Int :
        closed \subseteq Keys /\ key' = UpdateList(key, closed, hold)
  BY ScanParts
<1>2. down = {k} /\ down' = {k} /\ ListIdle
  BY ScanParts DEF Alone
<1>3. \A j \in Keys \ {k} : settling'[j] > BOUNCE
  BY ScanParts DEF Alone
<1>4. settling' \in [Keys -> 0..(BOUNCE + 1)]
  BY PassedType DEF CallScans, KeypadIInv
<1>5. ASSUME NEW j \in Keys \ {k}
      PROVE  j \notin closed
  <2>1. j \notin down /\ ~(settling'[j] <= BOUNCE)
    BY <1>2, <1>3, <1>4
  <2>2. QED
    BY <2>1 DEF Contacts
<1>6. CASE k \in closed
  <2>1. closed = {k}
    BY <1>1, <1>5, <1>6
  <2>2. key'[1] = [kcode |-> k, kstate |-> "PRESSED", stateChanged |-> TRUE]
    BY <1>1, <1>2, <2>1, AloneGetsFirstSlot
  <2>3. QED
    BY <2>2 DEF CallScans
<1>7. CASE k \notin closed
  <2>1. closed = {}
    BY <1>1, <1>5, <1>7
  <2>2. settling'[k] <= BOUNCE /\ settling[k] < startTime
    <3>1. ~(startTime <= settling[k])
      BY <1>1, <1>2, <1>7, SettledRead DEF Settled
    <3>2. startTime \in Int /\ settling[k] \in Int
      BY DEF KeypadIInv, KeypadTypeOK
    <3>3. QED
      BY <1>2, <1>7, <3>1, <3>2 DEF Contacts
  <2>3. \A i \in Slots : key'[i] = Empty
    BY <1>1, <1>2, <2>1, IdleListEmpty DEF UpdateList, UpdatedSlot
  <2>4. Alone(k)'
    BY <1>2, <1>3, <2>3 DEF Alone, ListIdle, Empty
  <2>5. QED
    BY <2>2, <2>4
<1>8. QED
  BY <1>6, <1>7

LEMMA SlotDrains ==
    ASSUME KeypadIInv, NEW d \in Durations, CallScans(d), down = {},
           \A k \in Keys : settling'[k] > BOUNCE, NEW i \in Slots
    PROVE  ScansLeft(key'[i]) < ScansLeft(key[i]) \/ key'[i].kstate = "IDLE"
<1>1. PICK closed \in Contacts(settling'), hold \in Int :
        closed \subseteq Keys /\ key' = UpdateList(key, closed, hold)
  BY ScanParts
<1>2. settling' \in [Keys -> 0..(BOUNCE + 1)]
  BY PassedType DEF CallScans, KeypadIInv
<1>3. closed = {}
  <2>1. \A k \in Keys : ~(settling'[k] <= BOUNCE)
    BY <1>2
  <2>2. QED
    BY <1>1, <2>1 DEF Contacts
<1>4. key'[i] = UpdatedSlot(key, {}, hold, i)
  BY <1>1, <1>3 DEF UpdateList
<1>5. CASE i \in EmptySlots(key)
  BY <1>4, <1>5 DEF UpdatedSlot, Empty
<1>6. CASE i \notin EmptySlots(key)
  <2> DEFINE button == key[i].kcode \in {}
             held == Held(key[i].kcode, key, {}, hold)
             next == NextKeyState(key[i].kstate, button, held)
  <2>1. key'[i] = [key[i] EXCEPT !.kstate = next, !.stateChanged = next # key[i].kstate]
    BY <1>4, <1>6 DEF UpdatedSlot, Stepped
  <2>2. key[i] \in Slot /\ key[i].kstate # "IDLE"
    BY <1>6, ScanParts DEF EmptySlots, Cleared
  <2>3. ~button
    OBVIOUS
  <2> HIDE DEF held, button
  <2>4. \/ key[i].kstate = "PRESSED" /\ next \in {"HOLD", "RELEASED"}
        \/ key[i].kstate = "HOLD" /\ next = "RELEASED"
        \/ key[i].kstate = "RELEASED" /\ next = "IDLE"
    BY <2>2, <2>3 DEF NextKeyState, Slot, KeyStates
  <2> HIDE DEF next
  <2>5. key'[i].kstate = next
    BY <2>1, <2>2 DEF Slot
  <2>6. QED
    BY <2>4, <2>5 DEF ScansLeft
<1>7. QED
  BY <1>5, <1>6

(* A key pressed alone is returned by the first scan that reads its        *)
(* contact closed, which the second scan does at the latest.               *)
THEOREM KeypadHeardBySecondScan == KeypadSpec => HeardBySecondScan
<1>1. KeypadInit => KeypadIInv
  BY KeypadInitIInv
<1>2. KeypadIInv /\ [KeypadNext]_keypadVars => KeypadIInv'
  BY KeypadStepIInv
<1>3. KeypadIInv /\ [KeypadNext]_keypadVars
      => [\A k \in Keys :
            Scan /\ Alone(k)
            => \/ getKey' = k
               \/ settling[k] < startTime /\ settling'[k] <= BOUNCE /\ Alone(k)']_keypadVars
  BY AloneHeard DEF Scan
<1>4. QED
  BY <1>1, <1>2, <1>3, PTL DEF KeypadSpec, HeardBySecondScan

(* Three scans after the last contact has settled open the list is empty,  *)
(* whatever its length and the states its keys were in.                    *)
THEOREM KeypadDrainsInThreeScans == KeypadSpec => DrainsInThreeScans
<1>1. KeypadInit => KeypadIInv
  BY KeypadInitIInv
<1>2. KeypadIInv /\ [KeypadNext]_keypadVars => KeypadIInv'
  BY KeypadStepIInv
<1>3. KeypadIInv /\ [KeypadNext]_keypadVars
      => [Scan /\ down = {} /\ (\A k \in Keys : settling'[k] > BOUNCE)
          => \A i \in Slots : ScansLeft(key'[i]) < ScansLeft(key[i]) \/ key'[i].kstate = "IDLE"]_keypadVars
  BY SlotDrains DEF Scan
<1>4. QED
  BY <1>1, <1>2, <1>3, PTL DEF KeypadSpec, DrainsInThreeScans

=============================================================================
