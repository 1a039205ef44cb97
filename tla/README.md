# Smart door lock: a TLA+ model of the firmware

The firmware is an Arduino sketch for an ESP32: a 4x4 keypad on an I2C expander,
a fingerprint sensor on a serial line, a TFT screen, and a motor that draws a bolt
through an H-bridge. The sketch is `src/Keypad_fingerprint_version1/`:
`Keypad_fingerprint_version1.ino` ("the sketch" below), `control_moto.h` and
`save_password.h`. Everything under `src/libraries/` is third-party; of it the
sketch uses `Adafruit_Fingerprint`, `Keypad`, `Keypad_I2C` and `TFT_eSPI`.

## 1. Inventory

There is one thread of control. `setup()` runs once, then `loop()` for ever; an
interrupt-driven part does not exist. What makes the code hard is that this one
thread blocks: `checkNum()` polls the keypad until an entry ends, the menus are
loops nested in `loop()` around `checkNum()`, enrollment waits for a finger, and
messages are shown by busy delays. While it blocks, the motor's sequencer and the
sensor are not served. The parts share state through globals.

| component | state it keeps | operations | what makes it correct |
|---|---|---|---|
| keypad entry, `checkNum()` (sketch 991-1096) | `stringCharacter`, `numberCount`, `timerDelayVoid`, `numberKeypad`, `ackKeypad` | one polling iteration per key: digit, `A` (17), `B` (18), `C`, `D`, none; expiry after 10 s | text and count agree; the number fits; held digits mean a user is present; the call returns |
| door motor, `checkMoto()` (`control_moto.h`) | `motor_status`, `timer_check_motor`, pins `IN1`, `IN2` | request (`motor_status = 1`), one sequencing call | pins fit the phase; the bolt is fully drawn when the drive stops; phases and cycle as announced |
| stored password (`save_password.h`) | `setKeypadPassword`, four bytes of flash | `savePassword()`, `getPassword()` | a reboot reads the password last announced |
| control, `setup()` and `loop()` (sketch 95-562) | where the program is, `timerVoid`, `exitMode`, `checkFinger`, `IDAddFinger` | home, login, menu, modes 1-3, time-outs, messages | no number is taken for an answer twice; only an entry or a finger opens; idle users are sent home; requests are served |
| fingers (sketch 656-987) | the stage of an enrollment, `IDAddFinger`; the sensor's templates (external) | match, enroll, delete, delete all | templates change only by a whole enrollment or a deletion; a template is of a finger presented twice; a match is of the finger just scanned |
| sensor protocol (`Adafruit_Fingerprint`) | the serial buffer; the sensor's image, character buffers and flash (external) | one packet out, one answer in, 1 s time-out | a result is that of the command it is returned for |
| keypad scan (`Keypad`) | the list of active keys, `startTime`, `holdTimer` | `getKey()`: scan, debounce, list | a press is reported once; no key is left on the list |
| screens (`TFT_eSPI`, fonts, icons) | none the control reads | drawing | not modelled |

Interactions: `loop()` calls `checkMoto()` once, then `getFingerprintID()`, then (once
a scan has found no finger) `checkNum()`. A match or the right password stores 1 in
`motor_status`; only the next `loop()` acts on it. The menus read `numberKeypad` and
`ackKeypad` after each `checkNum()` and clear the first on most ways out. Mode 1 sets
`setKeypadPassword` and calls `savePassword()`; `setup()` calls `getPassword()`.

The hazards of this code are listed in `PROJECT.json`, each at its line, with the
properties aimed at it. The hard behaviours are: late polling of the motor; digits
and numbers that survive from one prompt to the next; idle time-outs that depend on
a flag cleared elsewhere; numbers cut to 8 and 16 bits; a password passed through
four bytes with power failing around it; enrollment that waits without a time-out;
and a function that falls off its end.

## 2. Modules

| module | models | notes |
|---|---|---|
| `Timers` | `millis()` and the comparisons with stored times | a timer is its age, kept at limit + 1 once past the limit; all comparisons are `>` |
| `Motor` | `checkMoto()` | all transitions due are taken in one call, as the four `if`s fall through; `bolt` is external |
| `PolledMotor` | `Motor` with `checkMoto()` called at least every `PollGap` | the assumption under which the announced times hold |
| `MotorMillis` | `PolledMotor` reading `millis()`, which wraps, and `timer_check_motor` | instantiates `Motor` with the unsigned difference of the two for the age of the timer |
| `PasswordStore` | `savePassword()`, `getPassword()`, the end of mode 1 | bytes are computed as the code does, modulo 256; `confirmed` is a history variable |
| `CheckNum` | `checkNum()` | one action per outcome of an iteration; `Caller` is what the code between two calls may do |
| `EntryTime` | `CheckNum` with the duration of a call | `callAge` is a history variable, kept at the bound + 1 |
| `SmartLock` | the whole sketch: `setup()`, `loop()`, menus, modes, resets | composes `CheckNum`, `Motor` and `PasswordStore` |
| `SmartLockSession` | `SmartLockCycle` with a user who stops pressing keys, and fairness | liveness |
| `SmartLockCycle` | `SmartLock` with a history variable for a door cycle nobody disturbs | `undisturbed`: no digits held when the drive was started, no key since |
| `FingerDatabase` | what may happen to the stored fingers | abstract; `IDAddFinger` means something during an enrollment only, so that outside one it may become any number (`Refuse`) |
| `SmartLockZero` | `SmartLock` with a history variable for what 'D' submitted | `digitsEntered` tells an entry of 0 from an empty one |
| `Fingerprint` | a command of `Adafruit_Fingerprint` and the sensor behind it | `Exchange` is the packet out and the answer in; a command may be refused, its answer lost, or late, and a late one lost still (`LoseAnswer`) |
| `Enrollment` | `getFingerprintID()`, `getFingerprintEnroll()`, `deleteFingerprint()`, `setup()`'s checks | one action per command; fingers are put down and lifted at any time |
| `KeypadScan` | `getKey()` of `Keypad` with its list | contacts that bounce, calls at irregular times |
| `MCPasswordStore`, `MCSmartLock`, `MCSession`, `MCZero`, `MCEnrollment` | constants for TLC | |
| `MotorProofs`, `PolledProofs`, `StoreProofs`, `EntryProofs`, `EntryTimeProofs`, `SmartLockProofs`, `EnrollmentProofs`, `KeypadProofs` | proofs | |

`CheckNum`, `Motor` and `PasswordStore` are the abstract specifications of the lock's
parts: each says what its part may do whoever calls it and whenever. `SmartLock` is
shown to implement all three (`CheckNumSpec`, `MotorSpec`, `StoreSpec` are checked as
properties of it, and proved). The mapping is the identity: the variables are shared.

Two refinements have a mapping of their own:

* `FingerDatabase` is what the lock and the sensor's commands agree on. `SmartLock`
  implements it with its prompts (`FingersKept`: `stage` is the place it waits at), and
  `Enrollment` with the commands it sends (`DatabaseSpec`: the stage is read off `pc`, the
  templates are the IDs whose flash is not empty). So what `SmartLock` takes for one step,
  `EnrollStores` say, is what seven commands with refusals, lost and late answers come to.
* `MotorMillis` implements `PolledMotor` (`WrapUnseen`): `elapsed`, the age of the timer,
  is a history variable of it that no action reads.

### How `SmartLock` corresponds to the sketch

`pc` says where the thread is. The prompts (`home`, `login`, `menu`, `oldPw`, `newPw`,
`addId`, `delId`) are the loops around `checkNum()`; `place`, `lift` and `again` are
the waits of enrollment; `loop` is the call of `checkMoto()`, `scan` the call of
`getFingerprintID()`, `dispatch` the tests of `chooseMode`; `halt` is `while (1)` in
`setup()`. At a prompt, `call = "polling"` means that `checkNum()` runs, and any other
value how it returned; then exactly one action of the prompt takes the returned
number to the next place, through `Goto`, which says what is left in `numberKeypad`,
how old `timerVoid` is and how long the code took. `promptAge` is the age of the local
`timerVoid`. The order of the tests is the code's: the idle time-out first (only if
`ackKeypad` is 0), then a number of 0 asks again, then the branches.

`IDAddFinger` takes every number entered at the prompt of mode 2, modulo 65536, before the
tests that refuse it (sketch 423, `EnterID`), and keeps it: after a refused 300 it holds 300.
`AddBack`, `AddSetting`, `AddRefused` and `AddAllowed` therefore all write it. `LockTypeOK`
says what the tests are for: while an enrollment is under way it is an ID from 1 to `MAX_ID`,
which no test of the enrollment itself repeats before the template is stored. `Enrollment`
begins after the tests and has it for these IDs only.

### How `Enrollment` and `KeypadScan` correspond to the code

In `Enrollment`, `pc` names the command the sketch sends next. An action is one call of a
library function: the sensor does what the command says and answers `code`, `Exchange`
decides what the caller gets (`got`), and the sketch goes on at the place its `switch`
says. `got` is the first answer in the buffer, whoever it was meant for: the library
neither numbers its packets nor empties the buffer before it writes. An answer that is late may
still be lost before it arrives (`AnswerLost`), at any moment. A command that never
reaches the sensor is a refusal whose answer is lost. A scanned image is the finger it is
of; two prints match if they are of one finger. A reset keeps the sensor's flash and may or
may not keep its RAM. `puts` and `inStep` are history variables.

In `KeypadScan`, `CallTooSoon` and `CallScans` are one call of `getKey()`; what the scan
finds closed is the keys held down, and any of those whose contact still bounces.
`UpdateList` is the whole of `updateList()`: IDLE keys leave their slots, closed keys not
on the list enter the empty ones in the order of the scan, the others take a step of
`nextKeyState()`. `unread` is a history variable: the keys pressed and not reported since.
`CheckNum` takes the keys from there as inputs: a key or none in any iteration.

Globals that no property can tell apart from these (`pressNumber`, `keyRead`,
`verifyPass`, `setNewKeypadPassword`, the drawing position) are left out. `pressNumber`
may stay true when a digit finds no room, but it is read only with a key in hand,
and every key sets it. `*` and `#` do what no key does.

Operators named "Variant of ..." are small changes of the definition that follows them.
Nothing uses them; they are there to confirm that each checked property notices such a
change.

## 3. Runs

| run | shows | distinct states |
|---|---|---|
| `polled_motor` | pins, phase times and `CycleEndsShut` with a bounded gap and a clock that wraps in every phase; `WrapUnseen` | 3 366 |
| `password_store` | a reboot reads what was announced | 380 |
| `entry_time` | text, count and number agree; held digits mean presence; a call returns in bounded time | 5 736 |
| `lock_password` | numbers do not leak between prompts; passwords stay usable; only an entry opens; `StoreSpec` | 379 670 |
| `lock_fingers` | types; the bolt in the whole lock; only an entry admits to the menu or changes the stored fingers; `MotorSpec`, `CheckNumSpec`, `FingersKept` | 363 579 |
| `lock_session` | liveness after the last key, and the number of steps it takes; a door cycle nobody disturbs | 218 912 |
| `keypad_scan` | a press is reported once; a lone press is heard, by the second scan; no key stays on the list, for more than three scans | 162 071 |
| `sensor_commands` | `DatabaseSpec`; what a result is worth while a call is in step | 483 975 |

Four more runs expect a violation. Each checks what a comment, a screen text or the
project's description says, and TLC finds a behaviour of the code that contradicts
it. Section 6 lists them.

### Bounds

Times are scaled: what counts is the order of the limits and that a step can land just
before, on and after each. An iteration of `checkNum()` takes 1 in the lock runs, and
messages 0, 1 or 3; `PolledMotor` and `EntryTime` use steps of two lengths. Entries
hold one to three digits instead of eight. The constants `UINT8_RANGE` and
`UINT16_RANGE` are 256 and 65536 in the firmware. The runs take smaller values so that
a two-digit number wraps, as eight-digit ones do in the firmware: 81 is 18 modulo 63,
20 is 0 modulo 20, and 21 is 1. `DigitKeys` are the digits a user may press; they are
chosen so that 17, 18, the password, the admin password, a right and a wrapped ID and a
wrong number can all be typed. `lock_password` sets the motor's times to 0, since its
properties are about numbers; `lock_fingers` has a bolt that moves. `MaxKeys` bounds
the keys in `SmartLockSession`: ten are enough to reach each mode, time out in it and
choose it again (one-digit passwords: 5 keys reach a mode's first answer).
`lock_session` has a cycle of 9 units in three phases of 3, turns of 2 (`Round`), so that phase 3 lasts
for several turns and is seen ending late by a whole one, a bolt that travels for 3, and messages
as long as the closing drive, so that one message in the middle of a cycle is seen. The
digits of `lock_fingers` choose modes 2 and 3 only; that mode 1 needs an entry too
(`AdminActsOnEntry`) rests on the proof.
`InitialFlash` holds a used device, an all-zero flash and an erased one (0xFF, whose
number, 257575755, nobody can type).

`MotorMillis` has a clock of 14 values where a cycle with its gap takes at most 13: the
smallest range the assumption allows, so that the clock wraps in every phase and the time
stamp of an idle motor has every age. `SEARCH_PAGES` (163 in the library) is 2 with
`MAX_ID` 2 (230): one ID is searched, the other not, as in the firmware. `KeypadScan` has
three keys and two slots, so that the list is full when all are closed (ten slots for sixteen
keys in the library), a bounce as long as the debounce time at most (`KeypadAssumption`), and
calls both closer together and further apart than the debounce and hold times.
`MCEnrollment` has two fingers and two IDs, so that a second finger can be presented for the
first and an ID overwritten; one answer may be late at a time (`MaxLate`), which already
lets a call read another call's answer for as long as it lasts. Fingers are permuted by a
symmetry; that run checks safety properties only.

`DurationsAssumption` and the other `ASSUME`s are evaluated by TLC in every run of a
module that extends theirs.

### Fairness

`FairTimedSpec` assumes that `checkNum()`'s loop goes on without a key (`WF` of an iteration with `NoKey`), and
`SessionSpec` that the program takes a step it can take by itself
(`WF` of `SessionProgram`): the sketch is the only task of its core and its loops busy-wait.
Nothing is assumed of the user, the finger, the sensor's answers or the power: key
presses, `EnrollStep` and `Reset` are not in the fair action, and where a fair step has
several outcomes any may be taken. `lock_session` assumes a build whose `checkNum()`
returns at its end (`ReturnAtEnd`); the run `login_wait` takes the other build. `KeypadSpec`
assumes that `getKey()` is called again and again and that time passes between calls (`WF`): the
sketch polls whenever it waits. Nothing is assumed of the fingers on the keys.

## 4. Properties

Safety of the parts: `OpensFully`, `PinsFollowStatus`, `PhasesTimely`, `CycleEndsShut`,
`FlashHoldsConfirmed`, `BufferFits`, `PendingAcked`, `CallBounded`, `WrapUnseen`. Safety of
the lock: `PasswordUsable`, `NoStaleNumber`, `FingersKept`, `UndisturbedTimely`, and the action
properties `OpensOnlyOnEntry`, `AdminActsOnEntry`, `IdleExitIsClean`, `ReturnsInBound` and
`UndisturbedEndsShut`. Safety of the drivers: `OnePressOneKey`, `HeardBySecondScan`,
`DrainsInThreeScans`; `DatabaseSpec`, `TwicePresented`, `OkMeansDone`, `OpensOnMatch`.
Liveness: `CallReturns`, `ReturnsToLoop`, `RequestServed`, `ChangeReached`, `OpeningEnds`, `KeypadServed`,
`PressHeard`, `ListDrains`.

Three of these are the safety half of a liveness property: they bound the steps it takes, and
fairness only has to say that the steps are taken.

* `ReturnsInBound`, of `ReturnsToLoop`. `StepsLeft` is read off the state: the idle time-out of
  the prompt, the age of held digits, whether `ackKeypad` still has to be cleared and how the
  call returned. With nobody at the keypad each of the program's steps outside `loop()`,
  enrollment and the halt lowers it, from at most `LongestReturn`, which depends on the time-outs
  alone. A timer restarted on the wrong way round a prompt, or an `ackKeypad` that stays, breaks it.
* `HeardBySecondScan`, of `PressHeard`: with an empty list a scan returns the lone key, or it was the
  first after the press, read the contact while it bounced, and left all as it was.
* `DrainsInThreeScans`, of `ListDrains`: once the contacts are open and settled, every scan takes
  each listed key a step further, whatever `holdTimer` says.

`AdminActsOnEntry` is to the menus what `OpensOnlyOnEntry` is to the door: the admin password, the
old and the new password, an ID to enroll and an ID to delete are never numbers left over.

`UndisturbedTimely` and `UndisturbedEndsShut` answer the question `CycleShutsDoor` (section 6) leaves:
when can the announced times be relied on? When no key is pressed from the start of the drive
to the end of the cycle, and no digits were held at its start. Fingers may match again and
restart the cycle. `Round` is the assumption behind it: a scan of the sensor with its message,
followed by one scan of the keypad, takes no longer than the closing drive. In the firmware
the message lasts 0.5 s (sketch 939, 954), the three commands a fraction of a second each, and
the drive 2 s.

Some of them are weaker than one would like, because the code is:

* `NoStaleNumber` excepts the home prompt, where the 18 that left the menu is still in
  `numberKeypad`. It does no harm unless the password is 18 modulo 256, which
  `OpensOnlyOnEntry` therefore excludes (`Distinct`), with the password 0 that an
  all-zero flash gives: an entry that expires leaves `ackKeypad` at 1, and the home
  screen then judges the number left over.
* `CycleEndsShut` needs the polling gap of `PolledMotor`. The lock itself does not keep
  to it while somebody types: see `CycleShutsDoor`, and `UndisturbedEndsShut` for when it does.
* `TwicePresented`, `OkMeansDone` and `OpensOnMatch` speak of a call (or an enrollment) that
  is in step: no command of it was sent while an answer to an earlier one was still to be
  read (`inStep`). After a time-out that was only a late answer, the next call is not in
  step, and without the condition TLC finds all three false. `DatabaseSpec` needs no condition.
* `OpeningEnds` excepts an enrollment that waits for ever: nobody then calls `checkMoto()`.
* `PressHeard` is about a key pressed alone: a key that is pressed while another is in the
  first slot is not returned while it is held, since `getKey()` looks at that slot only.

## 5. Proofs

All theorems hold for every value of the constants that satisfies the named
assumptions: `DurationsAssumption`, `MotorAssumption` (either drive lasts at least the bolt's
travel), `PollGapAssumption`, `StoreAssumption`, `EntryAssumption` (one to eight digits),
`MaxStepAssumption`, `RangeAssumption` (the clock's range exceeds a cycle and a gap),
`KeypadAssumption` (contacts bounce no longer than the debounce time), `FingerprintAssumption`,
`RoundAssumption` (a turn of `loop()` is no longer than the closing drive; used for the undisturbed
cycle only),
`LockAssumption` (every number of `MAX_DIGITS` digits is in
`Passwords`; the admin password is none of the codes; limits and ranges are numbers).

* `MotorSafety`. `OpensFully` is not inductive: one has to know how far the bolt is while the
  drive is on. `MotorIInv` adds that in status 2 the bolt is at `TRAVEL` or has moved at
  least as long as the timer says, and `PinsFollowStatus`.
* `PolledTimely`, `PolledEndsShut`: the same with the gap; in status 4 the bolt has moved
  back for the time since the closing limit, less what the phase started late.
* `RoundTrip`: `Decode(Encode(p)) = p` for every `p` up to `MAX_PASSWORD`, by one division
  lemma applied three times; `FlashConfirmed` follows.
* `EntrySafety`: `EntryIInv` adds that an entry without digits has no age; a digit
  appended keeps the text below the next power of ten.
* `CallDuration`: while digits are held, the entry's age bounds what is left of the call.
* `SmartLockProofs`. All code between two calls of `checkNum()` is shown to have one
  shape, `Handler` (one lemma per menu, one step per action): it moves the entry only as
  `Caller`, the motor only by letting it run or requesting, the store only by
  `ChangePassword` with the number entered, and it keeps a number on four ways only
  (`NumberMoves`). `EntryRefines`, `MotorRefines`, `StoreRefines` follow, so the
  invariants of the parts carry over: `LockIInv` is their conjunction with
  `ControlIInv`, of which `NumberIInv` is the heart. It says at which places a number may
  be left over and what each way of returning says about it. The refinement needs the
  invariant: only because of `BufferFits` is a number saved one of `Passwords`. Away from the home
  prompt `NumberIInv` says that a call that has not returned by a key has nothing to return,
  which is what `AdminActsOnEntry` needs.
  Theorems: `LockAdminActsOnEntry`, `LockImplementsEntry`, `LockImplementsMotor`, `LockImplementsStore`,
  `LockTypes`, `LockPasswordUsable`, `LockNoStaleNumber`, `LockPromises`,
  `LockIdleExitIsClean`, `LockOpensOnlyOnEntry`.

* `LockReturnsInBound`: one lemma per group of actions shows that `StepsLeft` falls
  (`LoopDescends`, `MenuDescends`, `AnswerDescends`, `AskAgainDescends`, `PollDescends`), and `ReturnIInv`
  bounds it. An answer leads to a prompt drawn anew, whose sum is at most `LongestPrompt`;
  asking again, and an idle scan, use up the prompt's timer, the entry's, or `ackKeypad`. It needs
  `ReturnAtEnd`, and from `NumberIInv` which calls come back with a number.
* `LockUndisturbedTimely`, `LockUndisturbedEndsShut`. `TurnIInv` follows one turn of `loop()`: right after
  `checkMoto()` no phase is late (`CheckedInTime`), the sensor and the scan of the keypad add their
  time (`LateLater`), and the scan leaves `ackKeypad` at 0 whatever it was, so that the home screen
  has nothing to judge and no message to show. No other step is possible without a key
  (`TurnSteps`). Nothing is assumed of the state the cycle starts in but that no digits are held. The theorems
  are about `CycleSpec`, which does not bound the keys; the run checks them under `SessionSpec`, which
  does.
* `LockKeepsFingers`: away from enrollment and mode 3 no step touches the stored fingers
  (`ElsewhereUntouched`); the other menus are matched action by action. `EnteredID` bounds what an
  entry leaves in `IDAddFinger`; `LockTypes` needs it too.
* `MillisImplementsPolled`: while a cycle is under way the unsigned difference of clock and
  time stamp is the age of the timer, because the age stays below the range; this is what
  the gap is needed for. In status 0 nothing is said of the difference, and nothing reads it.
* `EnrollmentImplementsDatabase` needs only that an enrollment is for an ID that exists.
  `EnrollmentTwice`, `EnrollmentOkMeansDone` and `EnrollmentOpensOnMatch` rest on
  `OrderIInv`: while in step, which finger the image and each character buffer hold at each
  command, and that the second image is of a finger put down again if it is of the same one
  (`Ordered`). `OwnAnswer` is the lemma that brings the buffer in: with nothing else in it,
  a command gets its own answer or none.
* `KeypadTypes`, `KeypadOnePressOneKey`: a key that `getKey()` has returned and that is still
  down is on the list until a scan after it was released, and a scan finds a settled contact
  as it is; with the bounce shorter than the debounce time a key enters the list once per
  press.

* `KeypadHeardBySecondScan`: a lone key finds the first slot empty (`AloneGetsFirstSlot`), and a settled
  contact is read as it is. `KeypadDrainsInThreeScans` goes through the states of one slot (`SlotDrains`).

Only model-checked: the liveness properties, since the prover has no fairness and no `ENABLED`
(`ReturnsToLoop`, `PressHeard` and `ListDrains` have their safety half proved; `CallReturns` has it in
`CallBounded`), and the properties of section 6, which are false.

## 6. Where the code and its own text part

| run | property | text | code |
|---|---|---|---|
| `cycle_shuts` | `CycleShutsDoor` | control_moto.h:4 | a late `checkMoto()` takes 3 to 4 to 0 at once |
| `zero_deletes_all` | `ZeroDeletesAll` | sketch 467 | the digit 0 and 'D' ask again, and nothing is deleted |
| `login_wait` | `LoginTimesOut` | sketch 213 | no return at the end of `checkNum()`: in a build that drops the exit test the time-out is never reached |
| `enrolled_opens` | `EnrolledRecognised` | Project Description.md:13 | the search covers 163 pages, IDs go up to 230 |

`zero_deletes_all` looks at entries of 0 only: a 'D' with no digit held reads as 0 as well, and nobody
expects it to delete anything. `SmartLockZero` adds the history variable that tells the two apart.

Seen while modelling and visible in the actions, without a run of their own:

* `B` leaves held digits behind (`BackKey`) while the home screen is drawn with an empty box:
  the password a user then reads in the box is refused, with the old digits before it.
* `IDDeleteFinger` keeps a number modulo 65536 before it is tested (`ID`): an eight-digit
  number can delete another template.
* An enrollment waits without a time-out and without `checkMoto()` (`Waits`): an opening drive
  that was on stays on (the exception in `OpeningEnds`).
* A late answer is read for the answer to the next command (`Exchange`): "FINGERPRINT_OK on
  fingerprint match success" (`Adafruit_Fingerprint.cpp`:302) then need not hold.
* "Add Fingerprint Successful!" (sketch 453) and "DELETED!" are shown after a failure too
  (`EnrollFails`, `DeleteAll`, `DeleteOne`).
* The menu's idle timer (sketch 261) is not renewed by keys pressed in the menu (`MenuChosen`
  and `ModeInvalid` keep `promptAge`).
* `checkFinger` is never set back to 1 (`NoFinger`), though the comment at sketch 161
  describes it as the sensor's state.

## 7. Not modelled

* Drawing, fonts, icons, serial logging: no state the control reads. With TFT_eSPI, its
  examples and the pictures they hold as arrays of numbers, this is nearly all of the
  repository's 1.4 million lines; the sketch's own code and the two drivers it depends on are
  modelled whole, so the share of the lines that is mapped is small and cannot grow much.
* Libraries the sketch does not call, and the calls of `Keypad` and `Adafruit_Fingerprint` it
  does not make.
* `Keypad_I2C`: it passes pins to the bus. A failing bus reads as open or closed contacts.
* Ghost keys of a matrix with three keys closed; the quality of a print; the bytes of a
  packet, so that an answer cut in the middle counts as none.
* `keypad_scan` and `entry_time` are not composed: `CheckNum` admits a key or none in every
  iteration, which is more than the driver delivers.
* How `Enrollment` sits inside `SmartLock` beyond `FingerDatabase`: the product of the two
  is too large for TLC, and each is shown to keep to the same specification instead.

## 8. Running it

    tlc -config MotorMillis.cfg MotorMillis.tla    # and so on, see PROJECT.json for the pairs
    tlapm SmartLockProofs.tla
