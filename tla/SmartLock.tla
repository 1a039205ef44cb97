------------------------------ MODULE SmartLock ------------------------------
(***************************************************************************)
(* The whole lock: setup() and loop() of the sketch with the admin menus   *)
(* they nest, composed with keypad entry (CheckNum), the motor sequencer   *)
(* (Motor) and the stored password (PasswordStore).                        *)
(*                                                                         *)
(* The sketch is one thread of control.  pc says where it is: at a prompt  *)
(* the code is a loop around checkNum(), and the actions of that prompt    *)
(* are what the code does with each way the call can return.  Time passes  *)
(* in the iterations of checkNum(), in sensor scans and in the delays that *)
(* show a message; checkMoto() runs once per loop() and nowhere else.      *)
(*                                                                         *)
(* The fingerprint sensor is external: a command answers or fails, and its *)
(* templates change only by a command that succeeds.                       *)
(***************************************************************************)
EXTENDS CheckNum, Motor, PasswordStore

CONSTANTS
    setPasswordAdmin,   \* 99999999
    LOGIN_TIMEOUT,      \* 10000 ms
    MODE_TIMEOUT,       \* 20000 ms
    MAX_ID,             \* the last fingerprint ID allowed (230)
    SEARCH_PAGES,       \* the pages fingerFastSearch() searches (0x00A3)
    UINT8_RANGE,        \* 256: chooseMode keeps a number modulo this
    UINT16_RANGE,       \* 65536: an ID keeps a number modulo this
    PollTimes,          \* times an iteration of checkNum() may take
    ScanTimes,          \* times a sensor command may take
    MessageTimes        \* times a message may be shown

ASSUME LockAssumption ==
    /\ setPasswordAdmin \in Nat \ {0, SETTING, BACK}
    /\ LOGIN_TIMEOUT \in Nat
    /\ MODE_TIMEOUT \in Nat
    /\ LOGIN_TIMEOUT <= MODE_TIMEOUT
    /\ MAX_ID \in Nat
    /\ SEARCH_PAGES \in Nat
    /\ UINT8_RANGE \in Nat /\ UINT8_RANGE > BACK
    /\ UINT16_RANGE \in Nat /\ UINT16_RANGE > BACK
    /\ PollTimes \subseteq Durations \ {0}
    /\ ScanTimes \subseteq Durations \ {0}
    /\ MessageTimes \subseteq Durations
    /\ 0..(Pow10(MAX_DIGITS) - 1) \subseteq Passwords

VARIABLES
    pc,             \* where setup() or loop() is
    promptAge,      \* age of the local timerVoid, 0 where there is none
    exitMode,       \* the global that ends the loops of a mode
    checkFinger,    \* 0 once a scan has found no finger
    IDAddFinger,    \* the number last entered for an ID to enroll, refused or not
    templates       \* external: the IDs the sensor holds

promptVars == <<pc, promptAge>>
sensorVars == <<checkFinger, IDAddFinger, templates>>
vars == <<promptVars, exitMode, sensorVars, entryVars, motorVars, storeVars>>

(* The prompts of the setting mode, each a loop around checkNum() with an  *)
(* idle time-out, and the places where enrollment waits for the finger.    *)
ModePrompts == {"menu", "oldPw", "newPw", "addId", "delId"}
Prompts == {"home", "login"} \cup ModePrompts
Enrolling == {"place", "lift", "again"}
Places == {"setup", "halt", "loop", "scan", "dispatch"} \cup Prompts \cup Enrolling

LockTypeOK ==
    /\ EntryTypeOK
    /\ MotorTypeOK
    /\ StoreTypeOK
    /\ pc \in Places
    /\ promptAge \in 0..(MODE_TIMEOUT + 1)
    /\ exitMode \in BOOLEAN
    /\ checkFinger \in 0..1
    /\ IDAddFinger \in 0..(UINT16_RANGE - 1)
    /\ pc \in Enrolling => IDAddFinger \in 1..MAX_ID
    /\ templates \subseteq 1..MAX_ID

LockInit ==
    /\ EntryInit
    /\ MotorInit
    /\ StoreInit
    /\ pc = "setup"
    /\ promptAge = 0
    /\ exitMode = FALSE
    /\ checkFinger = 1
    /\ IDAddFinger = 0
    /\ templates \in SUBSET (1..MAX_ID)
-----------------------------------------------------------------------------
(* Power is lost, or the board is reset, at any moment.  What survives is  *)
(* the flash, the sensor's templates and the bolt.                         *)
Reset ==
    /\ EntryPowerUp
    /\ MotorPowerUp
    /\ PowerLoss
    /\ pc' = "setup"
    /\ promptAge' = 0
    /\ exitMode' = FALSE
    /\ checkFinger' = 1
    /\ IDAddFinger' = 0
    /\ UNCHANGED templates

(* setup() ends in loop(), or for ever in while(1) when the sensor does    *)
(* not answer.                                                             *)
Setup(found) ==
    /\ pc = "setup"
    /\ pc' = IF found THEN "loop" ELSE "halt"
    /\ GetPassword
    /\ UNCHANGED <<promptAge, exitMode, sensorVars, entryVars, motorVars>>

(* Variant of Goto: the text of the entry is emptied, its count is not.    *)
GotoDropsText(p, n, t, d) ==
    /\ pc' = p
    /\ promptAge' = t
    /\ numberKeypad' = n
    /\ call' = IF p \in Prompts THEN "polling" ELSE "end"
    /\ stringCharacter' = 0
    /\ UNCHANGED <<numberCount, entryAge, ackKeypad>>

(* Code of loop() between two calls of checkNum(): it leaves n in          *)
(* numberKeypad and timerVoid aged t, and goes on at p after d.            *)
Goto(p, n, t, d) ==
    /\ pc' = p
    /\ promptAge' = t
    /\ Caller(n, p \in Prompts, d)

Aging(d) == Later(promptAge, d, MODE_TIMEOUT)

SameMode == UNCHANGED <<exitMode, sensorVars, storeVars>>

(* checkMoto(), at the start of loop().                                    *)
CallCheckMoto ==
    /\ pc = "loop"
    /\ pc' = "scan"
    /\ CheckMoto
    /\ UNCHANGED <<promptAge, exitMode, sensorVars, entryVars, storeVars>>

(* getFingerprintID(), then the test of checkFinger before checkNum().     *)
AfterScan(d) ==
    Goto(IF checkFinger' = 0 THEN "home" ELSE "loop", numberKeypad, 0, d)

(* The search covers the first pages only, so that not every template can  *)
(* match.                                                                  *)
CanMatch == \E id \in templates : id < SEARCH_PAGES

(* Variant of FingerMatched: the opening phase is entered from here.       *)
FingerMatchedOpens(d) ==
    /\ pc = "scan"
    /\ CanMatch
    /\ MotorRuns(2, d)
    /\ SameMode
    /\ AfterScan(d)

(* Variant of FingerMatched: checkFinger says again that a finger is there.*)
FingerMatchedRaises(d) ==
    /\ pc = "scan"
    /\ CanMatch
    /\ RequestOpen(d)
    /\ checkFinger' = 1
    /\ UNCHANGED <<exitMode, IDAddFinger, templates, storeVars>>
    /\ AfterScan(d)

FingerMatched(d) ==
    /\ pc = "scan"
    /\ CanMatch
    /\ RequestOpen(d)
    /\ SameMode
    /\ AfterScan(d)

(* A finger that is not enrolled, or any error of the sensor.              *)
FingerRefused(d) ==
    /\ pc = "scan"
    /\ MotorRuns(motor_status, d)
    /\ SameMode
    /\ AfterScan(d)

NoFinger(d) ==
    /\ pc = "scan"
    /\ checkFinger' = 0
    /\ MotorRuns(motor_status, d)
    /\ AfterScan(d)
    /\ UNCHANGED <<exitMode, IDAddFinger, templates, storeVars>>
-----------------------------------------------------------------------------
(* One iteration of checkNum(), at any prompt.                             *)
DigitNumber == IF pc = "menu" THEN 1 ELSE MAX_DIGITS

DuringPoll(d) ==
    /\ promptAge' = IF pc = "home" THEN 0 ELSE Aging(d)
    /\ MotorRuns(motor_status, d)
    /\ UNCHANGED <<pc, exitMode, sensorVars, storeVars>>

PressKey(d) == Key(DigitNumber, d) /\ DuringPoll(d)

PollNoKey(d) == NoKey(d) /\ DuringPoll(d)
-----------------------------------------------------------------------------
(* The home screen.                                                        *)
AtHome == pc = "home" /\ call # "polling" /\ ackKeypad = 1

(* Variant of HomeIdle: loop() is left only for a user at the keypad.      *)
HomeIdleStays ==
    /\ pc = "home" /\ call # "polling" /\ ackKeypad = 0
    /\ Goto("home", numberKeypad, 0, 0)
    /\ SameMode
    /\ UNCHANGED motorVars

HomeIdle ==
    /\ pc = "home" /\ call # "polling" /\ ackKeypad = 0
    /\ Goto("loop", numberKeypad, 0, 0)
    /\ SameMode
    /\ UNCHANGED motorVars

(* Variant of HomeOpen: the number that opened is not cleared.             *)
HomeOpenKeepsNumber(d) ==
    /\ AtHome
    /\ numberKeypad = setKeypadPassword
    /\ RequestOpen(d)
    /\ Goto("loop", numberKeypad, 0, d)
    /\ SameMode

HomeOpen(d) ==
    /\ AtHome
    /\ numberKeypad = setKeypadPassword
    /\ RequestOpen(d)
    /\ Goto("loop", 0, 0, d)
    /\ SameMode

HomeFailed(d) ==
    /\ AtHome
    /\ numberKeypad \notin {setKeypadPassword, SETTING, BACK}
    /\ MotorRuns(motor_status, d)
    /\ Goto("loop", 0, 0, d)
    /\ SameMode

HomeBack ==
    /\ AtHome
    /\ numberKeypad = BACK /\ numberKeypad # setKeypadPassword
    /\ Goto("loop", 0, 0, 0)
    /\ SameMode
    /\ UNCHANGED motorVars

(* Variant of HomeSetting: the code 17 is left for the login to read.      *)
HomeSettingKeepsCode ==
    /\ AtHome
    /\ numberKeypad = SETTING /\ numberKeypad # setKeypadPassword
    /\ Goto("login", numberKeypad, 0, 0)
    /\ SameMode
    /\ UNCHANGED motorVars

HomeSetting ==
    /\ AtHome
    /\ numberKeypad = SETTING /\ numberKeypad # setKeypadPassword
    /\ Goto("login", 0, 0, 0)
    /\ SameMode
    /\ UNCHANGED motorVars
-----------------------------------------------------------------------------
(* Variant of TimedOut: the user's presence is not asked for.              *)
TimedOutAnyway(limit) == Over(promptAge, limit)

(* What the loops around checkNum() have in common: first the time-out,    *)
(* taken only while ackKeypad is 0; then a number of 0 asks again.         *)
TimedOut(limit) == ackKeypad = 0 /\ Over(promptAge, limit)

Limit == IF pc = "login" THEN LOGIN_TIMEOUT ELSE MODE_TIMEOUT

Returned(p) == pc = p /\ call # "polling"

Answered(p) == Returned(p) /\ ~TimedOut(Limit) /\ numberKeypad # 0

(* Variant of AskAgain: every iteration restarts the timer of the prompt.  *)
AskAgainRestarts ==
    /\ \E p \in {"login"} \cup ModePrompts : Returned(p)
    /\ ~TimedOut(Limit)
    /\ numberKeypad = 0
    /\ Goto(pc, 0, 0, 0)
    /\ SameMode
    /\ UNCHANGED motorVars

AskAgain ==
    /\ \E p \in {"login"} \cup ModePrompts : Returned(p)
    /\ ~TimedOut(Limit)
    /\ numberKeypad = 0
    /\ Goto(pc, 0, promptAge, 0)
    /\ SameMode
    /\ UNCHANGED motorVars

LeaveOnTimeOut ==
    /\ \E p \in {"login", "menu"} : Returned(p)
    /\ TimedOut(Limit)
    /\ Goto("loop", 0, 0, 0)
    /\ SameMode
    /\ UNCHANGED motorVars

(* The time-outs inside a mode leave loop() with exitMode true.            *)
LeaveModeOnTimeOut ==
    /\ \E p \in ModePrompts \ {"menu"} : Returned(p)
    /\ TimedOut(Limit)
    /\ Goto("loop", 0, 0, 0)
    /\ exitMode' = TRUE
    /\ UNCHANGED <<sensorVars, storeVars, motorVars>>

(* A prompt is drawn anew: number 0, timer now, after a message.           *)
Prompt(p, d) ==
    /\ Goto(p, 0, 0, d)
    /\ MotorRuns(motor_status, d)

(* The admin login.  timerVoid is read before the message is shown.        *)
LoginBack ==
    /\ Answered("login") /\ numberKeypad = BACK
    /\ Goto("loop", 0, 0, 0)
    /\ SameMode
    /\ UNCHANGED motorVars

LoginSetting == Answered("login") /\ numberKeypad = SETTING /\ Prompt("login", 0) /\ SameMode

LoginWrong(d) ==
    /\ Answered("login")
    /\ numberKeypad \notin {BACK, SETTING, setPasswordAdmin}
    /\ Goto("login", 0, Later(0, d, MODE_TIMEOUT), d)
    /\ MotorRuns(motor_status, d)
    /\ SameMode

LoginOk ==
    /\ Answered("login") /\ numberKeypad = setPasswordAdmin
    /\ Prompt("menu", 0)
    /\ SameMode
-----------------------------------------------------------------------------
(* The mode menu.  Coming back to it from a mode does not restart its      *)
(* timer; only a mode's own prompts do.                                    *)
MenuChosen ==
    /\ Answered("menu")
    /\ Goto("dispatch", numberKeypad, promptAge, 0)
    /\ SameMode
    /\ UNCHANGED motorVars

chooseMode == numberKeypad % UINT8_RANGE

Dispatch(m) == pc = "dispatch" /\ chooseMode = m

ModeInvalid(d) ==
    /\ pc = "dispatch" /\ chooseMode \notin {1, 2, 3, SETTING, BACK}
    /\ Goto("menu", 0, Aging(d), d)
    /\ MotorRuns(motor_status, d)
    /\ SameMode

ModeSetting ==
    /\ Dispatch(SETTING)
    /\ Goto("menu", 0, promptAge, 0)
    /\ SameMode
    /\ UNCHANGED motorVars

(* The one way out that leaves the number as it is.                        *)
ModeBack ==
    /\ Dispatch(BACK)
    /\ Goto("loop", numberKeypad, 0, 0)
    /\ SameMode
    /\ UNCHANGED motorVars

(* Variant of SkipChange: the reset of exitMode after mode 1 is missing.   *)
SkipChangeForEver ==
    /\ Dispatch(1) /\ exitMode
    /\ UNCHANGED vars

(* An exitMode left true by a time-out skips mode 1 once: the menu is at   *)
(* once left again with the same number.                                   *)
SkipChange ==
    /\ Dispatch(1) /\ exitMode
    /\ exitMode' = FALSE
    /\ UNCHANGED <<promptVars, sensorVars, entryVars, motorVars, storeVars>>

ChooseChange == Dispatch(1) /\ ~exitMode /\ Prompt("oldPw", 0) /\ SameMode

(* Variant of ChooseAdd: the 2 that chose the mode stays in numberKeypad.  *)
ChooseAddKeepsNumber ==
    /\ Dispatch(2)
    /\ Goto("addId", numberKeypad, 0, 0)
    /\ exitMode' = FALSE
    /\ UNCHANGED <<sensorVars, storeVars, motorVars>>

ChooseAdd ==
    /\ Dispatch(2)
    /\ Prompt("addId", 0)
    /\ exitMode' = FALSE
    /\ UNCHANGED <<sensorVars, storeVars>>

ChooseDelete ==
    /\ Dispatch(3)
    /\ Prompt("delId", 0)
    /\ exitMode' = FALSE
    /\ UNCHANGED <<sensorVars, storeVars>>

BackToMenu(p, number) ==
    /\ Answered(p) /\ number = BACK
    /\ Goto("menu", 0, promptAge, 0)
    /\ exitMode' = FALSE
    /\ UNCHANGED <<checkFinger, templates, storeVars, motorVars>>
-----------------------------------------------------------------------------
(* Mode 1: change the password.                                            *)
OldBack == BackToMenu("oldPw", numberKeypad) /\ UNCHANGED IDAddFinger

OldSetting == Answered("oldPw") /\ numberKeypad = SETTING /\ Prompt("oldPw", 0) /\ SameMode

OldWrong(d) ==
    /\ Answered("oldPw")
    /\ numberKeypad \notin {BACK, SETTING, setKeypadPassword}
    /\ Prompt("oldPw", d)
    /\ SameMode

OldRight ==
    /\ Answered("oldPw")
    /\ numberKeypad \notin {BACK, SETTING} /\ numberKeypad = setKeypadPassword
    /\ Prompt("newPw", 0)
    /\ SameMode

(* 'A' asks again without restarting the timer.                            *)
NewSetting ==
    /\ Answered("newPw") /\ numberKeypad = SETTING
    /\ Goto("newPw", 0, promptAge, 0)
    /\ SameMode
    /\ UNCHANGED motorVars

(* 'B' goes back to the old password only.                                 *)
NewBack == Answered("newPw") /\ numberKeypad = BACK /\ Prompt("oldPw", 0) /\ SameMode

(* Variant of NewPassword: the number is not compared with the codes.      *)
NewPasswordAnyCode(committed, d) ==
    /\ Answered("newPw")
    /\ ChangePassword(numberKeypad, committed)
    /\ IF Saved(numberKeypad, committed) THEN Prompt("oldPw", d) ELSE Prompt("newPw", 0)
    /\ UNCHANGED <<exitMode, sensorVars>>

(* Variant of NewPassword: the result of savePassword() is ignored.        *)
NewPasswordIgnoresResult(committed, d) ==
    /\ Answered("newPw")
    /\ numberKeypad \notin {SETTING, BACK}
    /\ setKeypadPassword' = numberKeypad
    /\ flash' = IF committed THEN Encode(numberKeypad) ELSE flash
    /\ confirmed' = numberKeypad
    /\ Prompt("oldPw", d)
    /\ UNCHANGED <<exitMode, sensorVars>>

NewPassword(committed, d) ==
    /\ Answered("newPw")
    /\ numberKeypad \notin {SETTING, BACK}
    /\ ChangePassword(numberKeypad, committed)
    /\ IF Saved(numberKeypad, committed) THEN Prompt("oldPw", d) ELSE Prompt("newPw", 0)
    /\ UNCHANGED <<exitMode, sensorVars>>
-----------------------------------------------------------------------------
(* Mode 2: enroll a finger.                                                *)
ID == numberKeypad % UINT16_RANGE

(* The number is kept in IDAddFinger before it is tested.                  *)
EnterID ==
    /\ IDAddFinger' = ID
    /\ UNCHANGED <<exitMode, checkFinger, templates, storeVars>>

AddBack == BackToMenu("addId", ID) /\ IDAddFinger' = ID

AddSetting == Answered("addId") /\ ID = SETTING /\ Prompt("addId", 0) /\ EnterID

AddRefused(d) ==
    /\ Answered("addId")
    /\ ID = 0 \/ ID > MAX_ID
    /\ ID \notin {SETTING, BACK}
    /\ Prompt("addId", d)
    /\ EnterID

(* Variant of AddAllowed: an ID is accepted whatever its size.             *)
AddAllowedAnyID(d) ==
    /\ Answered("addId")
    /\ ID \notin {0, SETTING, BACK}
    /\ Goto("place", 0, 0, d)
    /\ MotorRuns(motor_status, d)
    /\ EnterID

AddAllowed(d) ==
    /\ Answered("addId")
    /\ ID \in 1..MAX_ID \ {SETTING, BACK}
    /\ Goto("place", 0, 0, d)
    /\ MotorRuns(motor_status, d)
    /\ EnterID

(* getFingerprintEnroll(): three waits for the finger, none of them timed. *)
Waits(d) ==
    /\ pc \in Enrolling
    /\ Goto(pc, 0, 0, d)
    /\ MotorRuns(motor_status, d)
    /\ SameMode

(* Variant of ImageTaken: the finger is not asked to be lifted.            *)
ImageTakenNoLift(d) ==
    /\ pc = "place"
    /\ Goto("again", 0, 0, d)
    /\ MotorRuns(motor_status, d)
    /\ SameMode

ImageTaken(d) ==
    /\ pc = "place"
    /\ Goto("lift", 0, 0, d)
    /\ MotorRuns(motor_status, d)
    /\ SameMode

FingerLifted(d) ==
    /\ pc = "lift"
    /\ Goto("again", 0, 0, d)
    /\ MotorRuns(motor_status, d)
    /\ SameMode

(* The caller ignores the result: the end of every enrollment shows        *)
(* "Add Fingerprint Successful!" and asks for the next ID.                 *)
EnrollFails(d) == pc \in {"place", "again"} /\ Prompt("addId", d) /\ SameMode

EnrollStores(d) ==
    /\ pc = "again"
    /\ templates' = templates \cup {IDAddFinger}
    /\ Prompt("addId", d)
    /\ UNCHANGED <<exitMode, checkFinger, IDAddFinger, storeVars>>
-----------------------------------------------------------------------------
(* Mode 3: delete a finger.                                                *)
DeleteBack == BackToMenu("delId", ID) /\ UNCHANGED IDAddFinger

DeleteSetting == Answered("delId") /\ ID = SETTING /\ Prompt("delId", 0) /\ SameMode

DeleteRefused(d) ==
    /\ Answered("delId")
    /\ ID > MAX_ID /\ ID \notin {SETTING, BACK}
    /\ Prompt("delId", d)
    /\ SameMode

(* emptyDatabase(): "DELETED!" is shown whatever the sensor answers.       *)
DeleteAll(ok, d) ==
    /\ Answered("delId")
    /\ ID = 0
    /\ templates' = IF ok THEN {} ELSE templates
    /\ Prompt("delId", d)
    /\ UNCHANGED <<exitMode, checkFinger, IDAddFinger, storeVars>>

DeleteOne(ok, d) ==
    /\ Answered("delId")
    /\ ID \in 1..MAX_ID \ {SETTING, BACK}
    /\ templates' = IF ok THEN templates \ {ID} ELSE templates
    /\ Prompt("delId", d)
    /\ UNCHANGED <<exitMode, checkFinger, IDAddFinger, storeVars>>
-----------------------------------------------------------------------------
LoopStep ==
    \/ CallCheckMoto
    \/ \E d \in ScanTimes : FingerMatched(d) \/ FingerRefused(d) \/ NoFinger(d)
    \/ HomeIdle \/ HomeBack \/ HomeSetting
    \/ \E d \in MessageTimes : HomeOpen(d) \/ HomeFailed(d)

LoginStep ==
    \/ AskAgain \/ LeaveOnTimeOut \/ LeaveModeOnTimeOut
    \/ LoginBack \/ LoginSetting \/ LoginOk
    \/ \E d \in MessageTimes : LoginWrong(d)

MenuStep ==
    \/ MenuChosen \/ ModeSetting \/ ModeBack
    \/ SkipChange \/ ChooseChange \/ ChooseAdd \/ ChooseDelete
    \/ \E d \in MessageTimes : ModeInvalid(d)

ChangeStep ==
    \/ OldBack \/ OldSetting \/ OldRight \/ NewSetting \/ NewBack
    \/ \E d \in MessageTimes : OldWrong(d)
    \/ \E d \in MessageTimes, committed \in BOOLEAN : NewPassword(committed, d)

AddStep ==
    \/ AddBack \/ AddSetting
    \/ \E d \in MessageTimes : AddRefused(d) \/ AddAllowed(d)
    \/ \E d \in ScanTimes : Waits(d)

(* What an enrollment does once the finger does what the screen asks for.  *)
EnrollStep ==
    \E d \in ScanTimes :
        ImageTaken(d) \/ FingerLifted(d) \/ EnrollFails(d) \/ EnrollStores(d)

DeleteStep ==
    \/ DeleteBack \/ DeleteSetting
    \/ \E d \in MessageTimes : DeleteRefused(d)
    \/ \E d \in MessageTimes, ok \in BOOLEAN : DeleteAll(ok, d) \/ DeleteOne(ok, d)

(* What the program does by itself, with a finger, and with a key pressed. *)
Program ==
    \/ \E found \in BOOLEAN : Setup(found)
    \/ \E d \in PollTimes : PollNoKey(d)
    \/ LoopStep \/ LoginStep \/ MenuStep \/ ChangeStep \/ AddStep \/ DeleteStep

UserKey == \E d \in PollTimes : PressKey(d)

LockNext == Program \/ EnrollStep \/ UserKey \/ Reset

LockSpec == LockInit /\ [][LockNext]_vars
-----------------------------------------------------------------------------
FactoryPasswords == {Decode(bytes) : bytes \in InitialFlash}

(* Whatever is entered as a new password, by whatever route, the keypad    *)
(* can enter it again: it is not a code of 'A' or 'B', not 0 and not       *)
(* longer than eight digits.  Only a flash no password was ever saved to   *)
(* can hold another number.                                                *)
PasswordUsable ==
    pc # "setup" =>
        \/ setKeypadPassword \in FactoryPasswords
        \/ setKeypadPassword \in 1..MAX_PASSWORD /\ setKeypadPassword \notin {SETTING, BACK}

(* A prompt never starts with the number of an earlier one: it would take  *)
(* it for an answer nobody gave.  Home is the exception, where the number  *)
(* that left the menu, or a 'B', stays.                                    *)
NoStaleNumber ==
    call = "polling" =>
        \/ numberKeypad = 0
        \/ pc = "home" /\ numberKeypad % UINT8_RANGE = BACK

(* The keypad opens the door only for a number just entered with 'D', not  *)
(* for one left over when an entry times out.  It holds for every password *)
(* but the erased one (0) and those the menu takes for 'B'.                *)
Distinct(password) == password \notin {0, SETTING} /\ password % UINT8_RANGE # BACK

OpensOnlyOnEntry ==
    [][(\E d \in MessageTimes : HomeOpen(d)) /\ Distinct(setKeypadPassword) => call = "D"]_vars

(* The same inside the menus: nothing the admin can do is done for a       *)
(* number left over from another prompt, or because of 'A' or 'B'.         *)
AdminActs ==
    \/ LoginOk \/ OldRight
    \/ \E d \in MessageTimes, done \in BOOLEAN :
           NewPassword(done, d) \/ AddAllowed(d) \/ DeleteAll(done, d) \/ DeleteOne(done, d)

AdminActsOnEntry == [][AdminActs => call = "D"]_vars

(* An idle exit never takes digits along: they would come first in the     *)
(* next number typed at the home screen.                                   *)
IdleExitIsClean ==
    [][LeaveOnTimeOut \/ LeaveModeOnTimeOut => numberCount = 0]_vars

(* How many steps of its own the program takes at most before it is back   *)
(* in loop(): at a prompt until the digits held expire and the idle        *)
(* time-out is seen, and before that through the answer already given.     *)
Away == pc \notin {"loop", "halt"} \cup Enrolling

EntryLeft == IF numberCount = 0 THEN 0 ELSE ENTRY_TIMEOUT + 2 - entryAge

CallLeft == IF call = "polling" THEN 2 ELSE IF TimedOut(Limit) THEN 1 ELSE 3

PromptLeft == 2 * ((MODE_TIMEOUT + 1 - promptAge) + EntryLeft + ackKeypad) + CallLeft

LongestPrompt == 2 * (MODE_TIMEOUT + ENTRY_TIMEOUT + 4) + 3

LongestReturn == LongestPrompt + ENTRY_TIMEOUT + 5

StepsLeft ==
    CASE pc = "setup" -> 1
      [] pc = "scan" -> LongestReturn
      [] pc = "home" -> LongestPrompt + 1 + EntryLeft + (IF call = "polling" THEN 1 ELSE 0)
      [] pc = "dispatch" -> LongestPrompt + (IF exitMode THEN 2 ELSE 1)
      [] pc \in Prompts \ {"home"} /\ numberKeypad # 0 -> LongestPrompt + 3
      [] OTHER -> PromptLeft

(* With nobody at the keypad no prompt keeps the program, whatever is left *)
(* in ackKeypad, the digits and exitMode: every step it takes away from    *)
(* loop() leaves fewer to take, out of a number the time-outs bound.  It   *)
(* needs a build whose checkNum() returns.                                 *)
ReturnsInBound ==
    [][ReturnAtEnd /\ Program /\ Away
       => StepsLeft \in 1..LongestReturn /\ (Away' => StepsLeft' < StepsLeft)]_vars

(* The lock changes the stored fingers only as FingerDatabase says: by a   *)
(* whole enrollment for the ID it was begun with, or by a deletion outside *)
(* one.  Numbers refused as IDs come into IDAddFinger between enrollments, *)
(* and never into one.                                                     *)
Stage == IF pc \in Enrolling THEN pc ELSE "none"

Database == INSTANCE FingerDatabase WITH stage <- Stage

FingersKept == Database!DatabaseSpec
-----------------------------------------------------------------------------
(* What the repository's own text says and the code does not do.  The run  *)
(* named in the README shows it violated.                                  *)

(* control_moto.h:4, "3 Close 2s": a cycle that ends has moved the bolt    *)
(* back from where it was open.                                            *)
CycleShutsDoor ==
    [][CallCheckMoto /\ motor_status # 0 /\ motor_status' = 0 => bolt' < TRAVEL \/ TRAVEL = 0]_vars

=============================================================================
