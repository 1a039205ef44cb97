------------------------------ MODULE CheckNum ------------------------------
(***************************************************************************)
(* Keypad entry: checkNum() of the sketch and the globals it shares with   *)
(* its callers.                                                            *)
(*                                                                         *)
(* checkNum() is a polling loop.  Each iteration reads at most one key     *)
(* and the loop goes on while digits are held.  'D' returns the number     *)
(* typed, 'A' and 'B' return the codes 17 and 18 and leave the held digits *)
(* where they are, 'C' drops them, and so does an iteration that finds the *)
(* entry older than ENTRY_TIMEOUT.                                         *)
(*                                                                         *)
(* The loop ends in a function that must return an int and has no return   *)
(* statement there.  That is undefined behaviour: an older compiler        *)
(* returns to the caller (ReturnAtEnd), a newer one drops the loop's exit  *)
(* test and polls on until 'A', 'B' or 'D'.                                *)
(***************************************************************************)
EXTENDS Timers

CONSTANTS
    DigitKeys,      \* the digits a user may press
    MAX_DIGITS,     \* digits an entry may hold (8; the mode menu allows 1)
    ENTRY_TIMEOUT,  \* age at which an entry is dropped (10000 ms)
    ReturnAtEnd     \* what the build makes of the missing return

ASSUME EntryAssumption ==
    /\ DigitKeys \subseteq 0..9
    /\ MAX_DIGITS \in 1..8
    /\ ENTRY_TIMEOUT \in Nat
    /\ ReturnAtEnd \in BOOLEAN

VARIABLES
    stringCharacter,    \* the digits held, as the number toInt() reads
    numberCount,        \* how many digits are held
    entryAge,           \* age of timerDelayVoid, 0 while no digit is held
    numberKeypad,       \* the number or code the callers read
    ackKeypad,          \* 1: the user is at the keypad
    call                \* "polling", or the way the last call returned

entryVars == <<stringCharacter, numberCount, entryAge, numberKeypad, ackKeypad, call>>

SETTING == 17       \* phim A
BACK == 18          \* phim B

EntryTypeOK ==
    /\ stringCharacter \in Nat
    /\ numberCount \in 0..MAX_DIGITS
    /\ entryAge \in 0..(ENTRY_TIMEOUT + 1)
    /\ numberKeypad \in Nat
    /\ ackKeypad \in 0..1
    /\ call \in {"polling", "end", "A", "B", "D"}

EntryInit ==
    /\ stringCharacter = 0
    /\ numberCount = 0
    /\ entryAge = 0
    /\ numberKeypad = 0
    /\ ackKeypad = 0
    /\ call = "end"
-----------------------------------------------------------------------------
(* The age of the entry after d.  The timer of an entry starts with the    *)
(* iteration that reads its first digit and is never restarted.            *)
Aged(d) == Later(entryAge, d, ENTRY_TIMEOUT)

Expired == numberCount > 0 /\ Over(entryAge, ENTRY_TIMEOUT)

(* The test "while(numberCount)" at the end of an iteration.               *)
LoopEnd ==
    call' = IF numberCount' = 0 /\ ReturnAtEnd THEN "end" ELSE "polling"

Held(d) ==
    /\ entryAge' = IF numberCount = 0 THEN 0 ELSE Aged(d)
    /\ UNCHANGED <<stringCharacter, numberCount>>

Dropped == stringCharacter' = 0 /\ numberCount' = 0 /\ entryAge' = 0

(* Variant of AppendDigit: the count is not compared with what there is    *)
(* room for.                                                               *)
AppendDigitAnyCount(k, digitNumber, d) ==
    /\ call = "polling"
    /\ ~Expired
    /\ stringCharacter' = 10 * stringCharacter + k
    /\ numberCount' = numberCount + 1
    /\ entryAge' = Aged(d)
    /\ ackKeypad' = 1
    /\ LoopEnd
    /\ UNCHANGED numberKeypad

(* A digit, where the prompt takes digitNumber of them.                    *)
AppendDigit(k, digitNumber, d) ==
    /\ call = "polling"
    /\ ~Expired
    /\ numberCount < digitNumber
    /\ stringCharacter' = 10 * stringCharacter + k
    /\ numberCount' = numberCount + 1
    /\ entryAge' = Aged(d)
    /\ ackKeypad' = IF numberCount' = 1 THEN 1 ELSE ackKeypad
    /\ LoopEnd
    /\ UNCHANGED numberKeypad

(* Variant of IdleScan: the timer is restarted by every iteration.         *)
IdleScanRestarts(d) ==
    /\ call = "polling"
    /\ ~Expired
    /\ ackKeypad' = IF numberCount = 0 THEN 0 ELSE ackKeypad
    /\ entryAge' = 0
    /\ UNCHANGED <<stringCharacter, numberCount, numberKeypad>>
    /\ LoopEnd

(* Variant of IdleScan: an idle scan leaves ackKeypad as it was.           *)
IdleScanKeepsAck(d) ==
    /\ call = "polling"
    /\ ~Expired
    /\ Held(d)
    /\ LoopEnd
    /\ UNCHANGED <<numberKeypad, ackKeypad>>

(* No key, '*' or '#', or a digit the prompt has no room for.              *)
IdleScan(d) ==
    /\ call = "polling"
    /\ ~Expired
    /\ ackKeypad' = IF numberCount = 0 THEN 0 ELSE ackKeypad
    /\ Held(d)
    /\ LoopEnd
    /\ UNCHANGED numberKeypad

(* The same iteration for an entry that is too old: a digit read by it is  *)
(* lost with the rest, and ackKeypad is not cleared.                       *)
Expire(d) ==
    /\ call = "polling"
    /\ Expired
    /\ Dropped
    /\ LoopEnd
    /\ UNCHANGED <<numberKeypad, ackKeypad>>

(* Variant of Clear: the count is kept, as if only the display were wiped. *)
ClearKeepsCount(d) ==
    /\ call = "polling"
    /\ stringCharacter' = 0
    /\ ackKeypad' = 0
    /\ UNCHANGED <<numberCount, entryAge, numberKeypad>>
    /\ LoopEnd

(* 'C'                                                                     *)
Clear(d) ==
    /\ call = "polling"
    /\ Dropped
    /\ ackKeypad' = 0
    /\ LoopEnd
    /\ UNCHANGED numberKeypad

(* Variant of Submit: the text is kept, only its count is reset.           *)
SubmitKeepsString(d) ==
    /\ call = "polling"
    /\ numberKeypad' = stringCharacter
    /\ numberCount' = 0
    /\ entryAge' = 0
    /\ call' = "D"
    /\ UNCHANGED <<stringCharacter, ackKeypad>>

(* 'D': an empty entry reads as 0.  ackKeypad stays as it is.              *)
Submit(d) ==
    /\ call = "polling"
    /\ numberKeypad' = stringCharacter
    /\ Dropped
    /\ call' = "D"
    /\ UNCHANGED ackKeypad

(* 'A'                                                                     *)
SettingKey(d) ==
    /\ call = "polling"
    /\ numberKeypad' = SETTING
    /\ ackKeypad' = 1
    /\ Held(d)
    /\ call' = "A"

(* 'B'                                                                     *)
BackKey(d) ==
    /\ call = "polling"
    /\ numberKeypad' = BACK
    /\ Held(d)
    /\ call' = "B"
    /\ UNCHANGED ackKeypad

(* An iteration in which the user presses a key, and one in which none     *)
(* that counts is pressed.                                                 *)
Key(digitNumber, d) ==
    \/ \E k \in DigitKeys : AppendDigit(k, digitNumber, d)
    \/ Clear(d)
    \/ Submit(d)
    \/ SettingKey(d)
    \/ BackKey(d)

NoKey(d) == IdleScan(d) \/ Expire(d)

(* The code of a caller between two calls leaves n in numberKeypad, and    *)
(* does nothing else to the entry than let it age.                         *)
Caller(n, again, d) ==
    /\ call # "polling"
    /\ numberKeypad' = n
    /\ call' = IF again THEN "polling" ELSE "end"
    /\ Held(d)
    /\ UNCHANGED ackKeypad

(* A reset: all of this is RAM.                                            *)
EntryPowerUp ==
    /\ stringCharacter' = 0
    /\ numberCount' = 0
    /\ entryAge' = 0
    /\ numberKeypad' = 0
    /\ ackKeypad' = 0
    /\ call' = "end"

Iterate ==
    \E d \in Durations \ {0} :
        NoKey(d) \/ \E digitNumber \in {1, MAX_DIGITS} : Key(digitNumber, d)

CheckNumNext ==
    \/ Iterate
    \/ \E d \in Durations \cup {0}, n \in {0, numberKeypad}, again \in BOOLEAN :
           Caller(n, again, d)
    \/ EntryPowerUp

CheckNumSpec == EntryInit /\ [][CheckNumNext]_entryVars
-----------------------------------------------------------------------------
(* 10^n for the numbers of digits there are.                               *)
Pow10(n) ==
    CASE n = 0 -> 1
      [] n = 1 -> 10
      [] n = 2 -> 100
      [] n = 3 -> 1000
      [] n = 4 -> 10000
      [] n = 5 -> 100000
      [] n = 6 -> 1000000
      [] n = 7 -> 10000000
      [] n = 8 -> 100000000

(* A number a caller may read.                                             *)
NumberFits(n) == n < Pow10(MAX_DIGITS) \/ n \in {SETTING, BACK}

(* The text and the count of digits never part company, on any path that   *)
(* drops or keeps digits, so that the number a caller reads has no more    *)
(* than MAX_DIGITS of them (or is a code): with eight, toInt() cannot      *)
(* overflow and savePassword() is never given a number it refuses.         *)
BufferFits == stringCharacter < Pow10(numberCount) /\ NumberFits(numberKeypad)

(* While digits are held ackKeypad is 1, so the idle time-outs of the      *)
(* callers ("if(!ackKeypad)") never throw out someone who is typing.       *)
PendingAcked == numberCount > 0 => ackKeypad = 1

=============================================================================
