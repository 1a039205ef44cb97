----------------------------- MODULE KeypadScan -----------------------------
(***************************************************************************)
(* The keypad driver under checkNum(): getKey() of the Keypad library,     *)
(* with its list of active keys, and the contacts it scans.                *)
(*                                                                         *)
(* A scan reads all contacts at once and moves every key on the list       *)
(* through IDLE, PRESSED, HOLD and RELEASED; getKey() returns the key in   *)
(* the first slot when the scan it made took that key to PRESSED.  It is   *)
(* called at whatever times the sketch gets there: the time between two    *)
(* calls is that of an iteration, of the echo of a digit or of a message.  *)
(*                                                                         *)
(* The contacts bounce for BOUNCE after a finger presses or releases them. *)
(* Keys are numbered in the order a scan goes through them.                *)
(***************************************************************************)
EXTENDS Timers, FiniteSets

CONSTANTS
    Keys,           \* the codes of the keys, r * columns + c
    LIST_MAX,       \* slots of the list (10)
    debounceTime,   \* 10 ms
    holdTime,       \* 500 ms
    BOUNCE          \* external: how long a contact bounces

ASSUME KeypadAssumption ==
    /\ Keys \subseteq Nat
    /\ IsFiniteSet(Keys)
    /\ LIST_MAX \in Nat \ {0}
    /\ debounceTime \in Nat
    /\ holdTime \in Nat
    /\ BOUNCE \in Nat
    /\ BOUNCE <= debounceTime

VARIABLES
    key,        \* the list: code, state and stateChanged of each slot
    startTime,  \* age of the last scan
    holdTimer,  \* age of the last transition to PRESSED, of any key
    getKey,     \* what the last call of getKey() returned
    down,       \* external: the keys a finger is on
    settling,   \* external: age of the last press or release of each key
    unread      \* history: the keys pressed and not returned since

NO_KEY == -1

listVars == <<key, startTime, holdTimer, getKey>>
fingerVars == <<down, settling, unread>>
keypadVars == <<listVars, fingerVars>>

Slots == 1..LIST_MAX
KeyStates == {"IDLE", "PRESSED", "HOLD", "RELEASED"}
Slot == [kcode : Keys \cup {NO_KEY}, kstate : KeyStates, stateChanged : BOOLEAN]
Empty == [kcode |-> NO_KEY, kstate |-> "IDLE", stateChanged |-> FALSE]

(* A key is in one slot at most: two slots would report it twice.          *)
OneSlotEach ==
    \A i, j \in Slots : key[i].kcode = key[j].kcode /\ key[i].kcode # NO_KEY => i = j

KeypadTypeOK ==
    /\ key \in [Slots -> Slot]
    /\ startTime \in 0..(debounceTime + 1)
    /\ holdTimer \in 0..(holdTime + 1)
    /\ getKey \in Keys \cup {NO_KEY}
    /\ down \subseteq Keys
    /\ settling \in [Keys -> 0..(BOUNCE + 1)]
    /\ unread \subseteq Keys
    /\ OneSlotEach

KeypadInit ==
    /\ key = [i \in Slots |-> Empty]
    /\ startTime = debounceTime + 1
    /\ holdTimer = 0
    /\ getKey = NO_KEY
    /\ down = {}
    /\ settling = [k \in Keys |-> BOUNCE + 1]
    /\ unread = {}
-----------------------------------------------------------------------------
(* External: a finger goes down on a key, or leaves it.                    *)
Press(k) ==
    /\ k \notin down
    /\ down' = down \cup {k}
    /\ settling' = [settling EXCEPT ![k] = 0]
    /\ unread' = unread \cup {k}
    /\ UNCHANGED listVars

Release(k) ==
    /\ k \in down
    /\ down' = down \ {k}
    /\ settling' = [settling EXCEPT ![k] = 0]
    /\ UNCHANGED <<listVars, unread>>

(* What a scan can find closed: a contact still settling reads either way. *)
Contacts(ages) ==
    LET unsettled == {k \in Keys : ages[k] <= BOUNCE}
    IN  {(down \ unsettled) \cup c : c \in SUBSET unsettled}
-----------------------------------------------------------------------------
(* scanKeys() and updateList(), for a scan that found the keys in closed.  *)
(* Variant of Cleared: a key that has become IDLE keeps its slot.          *)
ClearedNever(slot) == slot

(* Slots whose key has become IDLE are emptied before anything else.       *)
Cleared(slot) == IF slot.kstate = "IDLE" THEN Empty ELSE slot

(* Variant of Listed: a closed key is added without looking for it first.  *)
ListedNone(list) == {}

Listed(list) == {Cleared(list[i]).kcode : i \in Slots} \ {NO_KEY}

EmptySlots(list) == {i \in Slots : Cleared(list[i]) = Empty}

(* The closed keys not on the list go into the empty slots, in the order   *)
(* of the scan, as far as there are any.                                   *)
Before(n, S) == {m \in S : m < n}

EntersSlot(list, closed, k, i) ==
    LET new == closed \ Listed(list)
    IN  /\ k \in new
        /\ i \in EmptySlots(list)
        /\ Cardinality(Before(k, new)) = Cardinality(Before(i, EmptySlots(list)))

Added(list, closed) == {k \in closed : \E i \in Slots : EntersSlot(list, closed, k, i)}

(* Variant of NextKeyState: a key held long enough is never released.      *)
NextKeyStateHeldForEver(s, button, held) ==
    CASE s = "PRESSED" /\ held -> "HOLD"
      [] s = "PRESSED" /\ ~held /\ ~button -> "RELEASED"
      [] s = "RELEASED" -> "IDLE"
      [] OTHER -> s

(* nextKeyState() of a key that is on the list.                            *)
NextKeyState(s, button, held) ==
    CASE s = "PRESSED" /\ held -> "HOLD"
      [] s = "PRESSED" /\ ~held /\ ~button -> "RELEASED"
      [] s = "HOLD" /\ ~button -> "RELEASED"
      [] s = "RELEASED" -> "IDLE"
      [] OTHER -> s

Stepped(slot, button, held) ==
    LET next == NextKeyState(slot.kstate, button, held)
    IN  [slot EXCEPT !.kstate = next, !.stateChanged = next # slot.kstate]

(* holdTimer is shared: a key earlier in the scan restarts it for the keys *)
(* after it.                                                               *)
Held(k, list, closed, hold) == Over(hold, holdTime) /\ Before(k, Added(list, closed)) = {}

UpdatedSlot(list, closed, hold, i) ==
    IF i \in EmptySlots(list)
    THEN IF \E k \in closed : EntersSlot(list, closed, k, i)
         THEN [kcode |-> CHOOSE k \in closed : EntersSlot(list, closed, k, i),
               kstate |-> "PRESSED", stateChanged |-> TRUE]
         ELSE Empty
    ELSE Stepped(list[i], list[i].kcode \in closed, Held(list[i].kcode, list, closed, hold))

UpdateList(list, closed, hold) == [i \in Slots |-> UpdatedSlot(list, closed, hold, i)]
-----------------------------------------------------------------------------
(* Time that passes before the call.                                       *)
Passed(d) ==
    /\ settling' = [k \in Keys |-> Later(settling[k], d, BOUNCE)]
    /\ UNCHANGED down

(* Variant of ScanDue: every call scans.                                   *)
ScanDueAlways(since) == since >= 0

ScanDue(since) == Over(since, debounceTime)

(* getKey() returns without a scan when the last one is too recent.        *)
CallTooSoon(d) ==
    LET since == Later(startTime, d, debounceTime)
    IN  /\ ~ScanDue(since)
        /\ startTime' = since
        /\ holdTimer' = Later(holdTimer, d, holdTime)
        /\ getKey' = NO_KEY
        /\ Passed(d)
        /\ UNCHANGED <<key, unread>>

(* getKey() with a scan.                                                   *)
CallScans(d) ==
    /\ ScanDue(Later(startTime, d, debounceTime))
    /\ startTime' = 0
    /\ Passed(d)
    /\ \E closed \in Contacts(settling') :
        /\ key' = UpdateList(key, closed, Later(holdTimer, d, holdTime))
        /\ holdTimer' = IF Added(key, closed) = {} THEN Later(holdTimer, d, holdTime) ELSE 0
    /\ getKey' = IF key'[1].stateChanged /\ key'[1].kstate = "PRESSED"
                 THEN key'[1].kcode ELSE NO_KEY
    /\ unread' = unread \ {getKey'}

GetKey == \E d \in Durations : CallTooSoon(d) \/ CallScans(d)

Finger == \E k \in Keys : Press(k) \/ Release(k)

KeypadNext == GetKey \/ Finger

(* The sketch calls getKey() again and again, and time passes.             *)
KeypadSpec ==
    /\ KeypadInit
    /\ [][KeypadNext]_keypadVars
    /\ WF_keypadVars(\E d \in Durations \ {0} : CallTooSoon(d) \/ CallScans(d))
-----------------------------------------------------------------------------
(* A press gives one key at most, however long it is held, whatever is     *)
(* pressed with it and although its contact bounces: getKey() returns only *)
(* a key pressed since it was last returned.                               *)
OnePressOneKey == [][GetKey /\ getKey' # NO_KEY => getKey' \in unread]_keypadVars

ListIdle == \A i \in Slots : key[i].kstate = "IDLE"

Alone(k) == down = {k} /\ ListIdle /\ \A j \in Keys \ {k} : settling[j] > BOUNCE

(* A key pressed alone, with nothing left on the list, is returned if it   *)
(* is held, however the list was used before.                              *)
PressHeard ==
    \A k \in Keys : Alone(k) ~> getKey = k \/ down # {k}

(* What that takes: a scan that returns nothing is the first one after the *)
(* press (settling is the younger age), read the contact while it bounced, *)
(* and left the list as it was for the second scan to return the key.      *)
Scan == \E d \in Durations : CallScans(d)

HeardBySecondScan ==
    [][\A k \in Keys :
          Scan /\ Alone(k)
          => \/ getKey' = k
             \/ settling[k] < startTime /\ settling'[k] <= BOUNCE /\ Alone(k)']_keypadVars

(* No key stays on the list once all are released.  A key that did would   *)
(* keep the first slot, the only one getKey() looks at.                    *)
ListDrains == down = {} ~> ListIdle \/ down # {}

(* Every scan after the last contact has settled open brings every key on  *)
(* the list nearer to leaving it, so that three scans empty the list.      *)
ScansLeft(slot) ==
    CASE slot.kstate = "PRESSED" -> 3
      [] slot.kstate = "HOLD" -> 2
      [] slot.kstate = "RELEASED" -> 1
      [] slot.kstate = "IDLE" -> 0

DrainsInThreeScans ==
    [][Scan /\ down = {} /\ (\A k \in Keys : settling'[k] > BOUNCE)
       => \A i \in Slots : ScansLeft(key'[i]) < ScansLeft(key[i]) \/ key'[i].kstate = "IDLE"]_keypadVars

=============================================================================
