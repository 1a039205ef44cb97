-------------------------- MODULE SmartLockProofs --------------------------
(***************************************************************************)
(* Proofs about the composed lock, for every value of the constants.  All  *)
(* the code between two calls of checkNum() has one shape, Handler; what   *)
(* that shape means for the keypad entry, the motor and the stored         *)
(* password is that the lock implements their specifications, so that      *)
(* their theorems hold of it.                                              *)
(***************************************************************************)
EXTENDS SmartLockCycle, EntryProofs, MotorProofs, StoreProofs

(* The numbers home and loop() may keep: see NoStaleNumber.                *)
Leftover(n) == n = 0 \/ n % UINT8_RANGE = BACK

Usable(password) ==
    \/ password \in FactoryPasswords
    \/ password \in Nat \ {0, SETTING, BACK} /\ password <= MAX_PASSWORD

ControlTypeOK ==
    /\ pc \in Places
    /\ promptAge \in 0..(MODE_TIMEOUT + 1)
    /\ exitMode \in BOOLEAN
    /\ checkFinger \in 0..1
    /\ IDAddFinger \in 0..(UINT16_RANGE - 1)
    /\ templates \subseteq 1..MAX_ID
    /\ pc \in Enrolling => IDAddFinger \in 1..MAX_ID

(* Where a number may be left over, and what a call's end says of it.      *)
NumberIInv ==
    /\ call = "polling" => pc \in Prompts
    /\ call \in {"polling", "end"} /\ pc \in Prompts \ {"home"} => numberKeypad = 0
    /\ call \in {"polling", "end"} /\ pc = "home" => Leftover(numberKeypad)
    /\ pc \in {"setup", "halt", "loop", "scan"} => Leftover(numberKeypad)
    /\ pc \in {"setup", "halt", "loop", "scan", "dispatch"} => call = "end"
    /\ call = "A" => numberKeypad = SETTING /\ ackKeypad = 1
    /\ call = "B" => numberKeypad = BACK
    /\ call = "D" /\ ackKeypad = 0 => numberKeypad = 0

PasswordIInv == Usable(confirmed) /\ (pc # "setup" => Usable(setKeypadPassword))

ControlIInv == ControlTypeOK /\ NumberIInv /\ PasswordIInv

LockIInv == EntryIInv /\ MotorIInv /\ StoreIInv /\ ControlIInv
-----------------------------------------------------------------------------
(* The shape of the code between two calls.                                *)
EntryMoves == \E d \in Durations \cup {0} : Caller(numberKeypad', pc' \in Prompts, d)

MotorMoves ==
    \/ UNCHANGED motorVars
    \/ \E d \in Durations \cup {0} : MotorRuns(motor_status, d) \/ RequestOpen(d)

StoreMoves ==
    \/ UNCHANGED storeVars
    \/ /\ numberKeypad \notin {0, SETTING, BACK}
       /\ \E committed \in BOOLEAN : ChangePassword(numberKeypad, committed)

(* A number is cleared, or kept on the four ways that keep it.             *)
NumberMoves ==
    \/ numberKeypad' = 0
    \/ /\ numberKeypad' = numberKeypad
       /\ \/ pc = "scan" /\ pc' \in {"home", "loop"}
          \/ pc = "home" /\ pc' = "loop" /\ ackKeypad = 0
          \/ pc = "menu" /\ pc' = "dispatch"
          \/ pc = "dispatch" /\ pc' = "loop" /\ numberKeypad % UINT8_RANGE = BACK

Handler ==
    /\ pc # "setup" /\ pc' # "setup"
    /\ ControlTypeOK'
    /\ EntryMoves
    /\ MotorMoves
    /\ StoreMoves
    /\ NumberMoves

LEMMA GotoMoves ==
    ASSUME NEW p, NEW n, NEW t, NEW d \in Durations \cup {0}, Goto(p, n, t, d)
    PROVE  pc' = p /\ promptAge' = t /\ numberKeypad' = n /\ EntryMoves
BY DEF Goto, EntryMoves, Caller

LEMMA PromptMoves ==
    ASSUME NEW p, NEW d \in Durations \cup {0}, Prompt(p, d)
    PROVE  pc' = p /\ promptAge' = 0 /\ numberKeypad' = 0 /\ EntryMoves /\ MotorMoves
<1>1. Goto(p, 0, 0, d) /\ MotorRuns(motor_status, d)
  BY DEF Prompt
<1>2. QED
  BY <1>1, GotoMoves DEF MotorMoves

(* Ages of a prompt's timer.                                               *)
LEMMA PromptAges ==
    ASSUME ControlTypeOK, NEW d \in Durations \cup {0}
    PROVE  /\ 0 \in 0..(MODE_TIMEOUT + 1)
           /\ Aging(d) \in 0..(MODE_TIMEOUT + 1)
           /\ Later(0, d, MODE_TIMEOUT) \in 0..(MODE_TIMEOUT + 1)
BY LockAssumption, DurationsAssumption, SMT DEF ControlTypeOK, Aging, Later

LEMMA Times ==
    /\ PollTimes \subseteq Durations \cup {0}
    /\ ScanTimes \subseteq Durations \cup {0}
    /\ MessageTimes \subseteq Durations \cup {0}
    /\ 0 \in Durations \cup {0}
BY LockAssumption
-----------------------------------------------------------------------------
LEMMA LoopHandler ==
    ASSUME LockIInv, LoopStep, ~CallCheckMoto
    PROVE  Handler
<1> USE PromptAges, Times DEF LockIInv, ControlIInv, ControlTypeOK, SameMode, storeVars,
        sensorVars, Places, Prompts, ModePrompts, Enrolling, StoreMoves, NumberMoves
<1>1. ASSUME NEW d \in ScanTimes, FingerMatched(d)
      PROVE  Handler
  BY <1>1, GotoMoves DEF FingerMatched, AfterScan, Handler, MotorMoves
<1>2. ASSUME NEW d \in ScanTimes, FingerRefused(d)
      PROVE  Handler
  BY <1>2, GotoMoves DEF FingerRefused, AfterScan, Handler, MotorMoves
<1>3. ASSUME NEW d \in ScanTimes, NoFinger(d)
      PROVE  Handler
  BY <1>3, GotoMoves DEF NoFinger, AfterScan, Handler, MotorMoves
<1>4. CASE HomeIdle
  BY <1>4, GotoMoves DEF HomeIdle, Handler, MotorMoves
<1>5. CASE HomeBack
  BY <1>5, GotoMoves DEF HomeBack, AtHome, Handler, MotorMoves
<1>6. CASE HomeSetting
  BY <1>6, GotoMoves DEF HomeSetting, AtHome, Handler, MotorMoves
<1>7. ASSUME NEW d \in MessageTimes, HomeOpen(d)
      PROVE  Handler
  BY <1>7, GotoMoves DEF HomeOpen, AtHome, Handler, MotorMoves
<1>8. ASSUME NEW d \in MessageTimes, HomeFailed(d)
      PROVE  Handler
  BY <1>8, GotoMoves DEF HomeFailed, AtHome, Handler, MotorMoves
<1>9. QED
  BY <1>1, <1>2, <1>3, <1>4, <1>5, <1>6, <1>7, <1>8 DEF LoopStep

LEMMA LoginHandler ==
    ASSUME LockIInv, LoginStep
    PROVE  Handler
<1> USE PromptAges, Times DEF LockIInv, ControlIInv, ControlTypeOK, SameMode, storeVars,
        sensorVars, Places, Prompts, ModePrompts, Enrolling, StoreMoves, NumberMoves
<1>1. CASE AskAgain
  BY <1>1, GotoMoves DEF AskAgain, Returned, MotorMoves, Handler
<1>2. CASE LeaveOnTimeOut
  BY <1>2, GotoMoves DEF LeaveOnTimeOut, Returned, MotorMoves, Handler
<1>3. CASE LeaveModeOnTimeOut
  BY <1>3, GotoMoves DEF LeaveModeOnTimeOut, Returned, MotorMoves, Handler
<1>4. CASE LoginBack
  BY <1>4, GotoMoves DEF LoginBack, Answered, Returned, MotorMoves, Handler
<1>5. CASE LoginSetting
  BY <1>5, PromptMoves DEF LoginSetting, Answered, Returned, Handler
<1>6. CASE LoginOk
  BY <1>6, PromptMoves DEF LoginOk, Answered, Returned, Handler
<1>7. ASSUME NEW d \in MessageTimes, LoginWrong(d)
      PROVE  Handler
  BY <1>7, GotoMoves DEF LoginWrong, Answered, Returned, MotorMoves, Handler
<1>8. QED
  BY <1>1, <1>2, <1>3, <1>4, <1>5, <1>6, <1>7 DEF LoginStep

LEMMA MenuHandler ==
    ASSUME LockIInv, MenuStep, ~SkipChange
    PROVE  Handler
<1> USE PromptAges, Times DEF LockIInv, ControlIInv, ControlTypeOK, SameMode, storeVars,
        sensorVars, Places, Prompts, ModePrompts, Enrolling, StoreMoves, NumberMoves
<1>1. CASE MenuChosen
  BY <1>1, GotoMoves DEF MenuChosen, Answered, Returned, MotorMoves, Handler
<1>2. CASE ModeSetting
  BY <1>2, GotoMoves DEF ModeSetting, Dispatch, MotorMoves, Handler
<1>3. CASE ModeBack
  BY <1>3, GotoMoves DEF ModeBack, Dispatch, chooseMode, MotorMoves, Handler
<1>4. CASE ChooseChange
  BY <1>4, PromptMoves DEF ChooseChange, Dispatch, Handler
<1>5. CASE ChooseAdd
  <2>1. exitMode' \in BOOLEAN
    BY <1>5, Zenon DEF ChooseAdd
  <2>2. QED
    BY <1>5, <2>1, PromptMoves DEF ChooseAdd, Dispatch, Handler
<1>6. CASE ChooseDelete
  <2>1. exitMode' \in BOOLEAN
    BY <1>6, Zenon DEF ChooseDelete
  <2>2. QED
    BY <1>6, <2>1, PromptMoves DEF ChooseDelete, Dispatch, Handler
<1>7. ASSUME NEW d \in MessageTimes, ModeInvalid(d)
      PROVE  Handler
  BY <1>7, GotoMoves DEF ModeInvalid, MotorMoves, Handler
<1>8. QED
  BY <1>1, <1>2, <1>3, <1>4, <1>5, <1>6, <1>7 DEF MenuStep

LEMMA ChangeHandler ==
    ASSUME LockIInv, ChangeStep
    PROVE  Handler
<1> USE PromptAges, Times DEF LockIInv, ControlIInv, ControlTypeOK, SameMode, storeVars,
        sensorVars, Places, Prompts, ModePrompts, Enrolling, StoreMoves, NumberMoves
<1>1. CASE OldBack
  <2>1. exitMode' \in BOOLEAN
    BY <1>1, Zenon DEF OldBack, BackToMenu
  <2>2. QED
    BY <1>1, <2>1, GotoMoves DEF OldBack, BackToMenu, Answered, Returned, MotorMoves, Handler
<1>2. CASE OldSetting
  BY <1>2, PromptMoves DEF OldSetting, Answered, Returned, Handler
<1>3. CASE OldRight
  BY <1>3, PromptMoves DEF OldRight, Answered, Returned, Handler
<1>4. CASE NewSetting
  BY <1>4, GotoMoves DEF NewSetting, Answered, Returned, MotorMoves, Handler
<1>5. CASE NewBack
  BY <1>5, PromptMoves DEF NewBack, Answered, Returned, Handler
<1>6. ASSUME NEW d \in MessageTimes, OldWrong(d)
      PROVE  Handler
  BY <1>6, PromptMoves DEF OldWrong, Answered, Returned, Handler
<1>7. ASSUME NEW d \in MessageTimes, NEW committed \in BOOLEAN, NewPassword(committed, d)
      PROVE  Handler
  BY <1>7, PromptMoves DEF NewPassword, Answered, Returned, Handler
<1>8. QED
  BY <1>1, <1>2, <1>3, <1>4, <1>5, <1>6, <1>7 DEF ChangeStep

(* A number entered for an ID fits its variable.                           *)
LEMMA EnteredID ==
    ASSUME LockIInv
    PROVE  ID \in 0..(UINT16_RANGE - 1) /\ ID \in Nat
<1>1. numberKeypad \in Nat /\ UINT16_RANGE \in Nat \ {0}
  BY LockAssumption DEF BACK, LockIInv, EntryIInv, EntryTypeOK
<1>2. QED
  BY <1>1, SMT DEF ID

LEMMA AddHandler ==
    ASSUME LockIInv, AddStep \/ EnrollStep
    PROVE  Handler
<1> USE PromptAges, Times DEF LockIInv, ControlIInv, ControlTypeOK, SameMode, storeVars,
        sensorVars, Places, Prompts, ModePrompts, Enrolling, StoreMoves, NumberMoves
<1>1. CASE AddBack
  <2>1. exitMode' \in BOOLEAN
    BY <1>1, Zenon DEF AddBack, BackToMenu
  <2>2. QED
    BY <1>1, <2>1, EnteredID, GotoMoves
       DEF AddBack, BackToMenu, Answered, Returned, MotorMoves, Handler
<1>2. CASE AddSetting
  BY <1>2, EnteredID, PromptMoves DEF AddSetting, EnterID, Answered, Returned, Handler
<1>3. ASSUME NEW d \in MessageTimes, AddRefused(d)
      PROVE  Handler
  BY <1>3, EnteredID, PromptMoves DEF AddRefused, EnterID, Answered, Returned, Handler
<1>4. ASSUME NEW d \in MessageTimes, AddAllowed(d)
      PROVE  Handler
  BY <1>4, EnteredID, GotoMoves DEF AddAllowed, EnterID, Answered, Returned, MotorMoves, Handler
<1>5. ASSUME NEW d \in ScanTimes, Waits(d)
      PROVE  Handler
  BY <1>5, GotoMoves DEF Waits, MotorMoves, Handler
<1>6. ASSUME NEW d \in ScanTimes, ImageTaken(d)
      PROVE  Handler
  BY <1>6, GotoMoves DEF ImageTaken, MotorMoves, Handler
<1>7. ASSUME NEW d \in ScanTimes, FingerLifted(d)
      PROVE  Handler
  BY <1>7, GotoMoves DEF FingerLifted, MotorMoves, Handler
<1>8. ASSUME NEW d \in ScanTimes, EnrollFails(d)
      PROVE  Handler
  BY <1>8, PromptMoves DEF EnrollFails, Handler
<1>9. ASSUME NEW d \in ScanTimes, EnrollStores(d)
      PROVE  Handler
  BY <1>9, PromptMoves DEF EnrollStores, Handler
<1>10. QED
  BY <1>1, <1>2, <1>3, <1>4, <1>5, <1>6, <1>7, <1>8, <1>9 DEF AddStep, EnrollStep

LEMMA DeleteHandler ==
    ASSUME LockIInv, DeleteStep
    PROVE  Handler
<1> USE PromptAges, Times DEF LockIInv, ControlIInv, ControlTypeOK, SameMode, storeVars,
        sensorVars, Places, Prompts, ModePrompts, Enrolling, StoreMoves, NumberMoves
<1>1. CASE DeleteBack
  <2>1. exitMode' \in BOOLEAN
    BY <1>1, Zenon DEF DeleteBack, BackToMenu
  <2>2. QED
    BY <1>1, <2>1, GotoMoves DEF DeleteBack, BackToMenu, Answered, Returned, MotorMoves, Handler
<1>2. CASE DeleteSetting
  BY <1>2, PromptMoves DEF DeleteSetting, Answered, Returned, Handler
<1>3. ASSUME NEW d \in MessageTimes, DeleteRefused(d)
      PROVE  Handler
  BY <1>3, PromptMoves DEF DeleteRefused, Answered, Returned, Handler
<1>4. ASSUME NEW d \in MessageTimes, NEW ok \in BOOLEAN, DeleteAll(ok, d)
      PROVE  Handler
  BY <1>4, PromptMoves DEF DeleteAll, Answered, Returned, Handler
<1>5. ASSUME NEW d \in MessageTimes, NEW ok \in BOOLEAN, DeleteOne(ok, d)
      PROVE  Handler
  BY <1>5, PromptMoves DEF DeleteOne, Answered, Returned, Handler
<1>6. QED
  BY <1>1, <1>2, <1>3, <1>4, <1>5 DEF DeleteStep
-----------------------------------------------------------------------------
(* The steps that are not handlers.                                        *)
Polling == \E d \in PollTimes : PressKey(d) \/ PollNoKey(d)

Starting == Reset \/ \E found \in BOOLEAN : Setup(found)

LEMMA StepCases ==
    ASSUME LockIInv, [LockNext]_vars
    PROVE  Handler \/ Polling \/ Starting \/ CallCheckMoto \/ SkipChange \/ UNCHANGED vars
BY LoopHandler, LoginHandler, MenuHandler, ChangeHandler, AddHandler, DeleteHandler
   DEF LockNext, Program, UserKey, Polling, Starting

(* Each component takes a step of its own specification, or none.          *)
LEMMA EntryRefines ==
    ASSUME LockIInv, [LockNext]_vars
    PROVE  [CheckNumNext]_entryVars
<1>1. CASE Handler
  <2>1. numberKeypad' \in {0, numberKeypad}
    BY <1>1 DEF Handler, NumberMoves
  <2>2. PICK d \in Durations \cup {0} : Caller(numberKeypad', pc' \in Prompts, d)
    BY <1>1 DEF Handler, EntryMoves
  <2>3. (pc' \in Prompts) \in BOOLEAN
    OBVIOUS
  <2>4. \E again \in BOOLEAN : Caller(numberKeypad', again, d)
    BY <2>2, <2>3
  <2>5. QED
    BY <2>1, <2>4 DEF CheckNumNext
<1>2. CASE Polling
  <2>1. PICK d \in PollTimes : PressKey(d) \/ PollNoKey(d)
    BY <1>2 DEF Polling
  <2>2. d \in Durations \ {0}
    BY LockAssumption
  <2>3. CASE Key(DigitNumber, d)
    <3>1. DigitNumber \in {1, MAX_DIGITS}
      BY DEF DigitNumber
    <3>2. QED
      BY <2>2, <2>3, <3>1 DEF CheckNumNext, Iterate
  <2>4. CASE NoKey(d)
    BY <2>2, <2>4 DEF CheckNumNext, Iterate
  <2>5. QED
    BY <2>1, <2>3, <2>4 DEF PressKey, PollNoKey
<1>3. CASE Starting
  BY <1>3 DEF Starting, Reset, Setup, CheckNumNext
<1>4. CASE CallCheckMoto \/ SkipChange \/ UNCHANGED vars
  BY <1>4 DEF CallCheckMoto, SkipChange, vars
<1>5. QED
  BY <1>1, <1>2, <1>3, <1>4, StepCases

LEMMA MotorRefines ==
    ASSUME LockIInv, [LockNext]_vars
    PROVE  [MotorNext]_motorVars
<1>1. CASE Handler
  BY <1>1 DEF Handler, MotorMoves, MotorNext
<1>2. CASE Polling
  BY <1>2, Times DEF Polling, PressKey, PollNoKey, DuringPoll, MotorNext
<1>3. CASE Starting
  BY <1>3 DEF Starting, Reset, Setup, MotorNext
<1>4. CASE CallCheckMoto \/ SkipChange \/ UNCHANGED vars
  BY <1>4 DEF CallCheckMoto, SkipChange, vars, MotorNext
<1>5. QED
  BY <1>1, <1>2, <1>3, <1>4, StepCases

(* A number the keypad can have produced is one of Passwords.              *)
LEMMA TypedIsPassword ==
    ASSUME EntryIInv, numberKeypad \notin {0, SETTING, BACK}
    PROVE  numberKeypad \in Passwords /\ Usable(numberKeypad)
<1>1. numberKeypad \in Nat /\ numberKeypad < Pow10(MAX_DIGITS)
  BY DEF EntryIInv, EntryTypeOK, BufferFits, NumberFits
<1>2. MAX_DIGITS \in 0..8 /\ 8 \in 0..8
  BY EntryAssumption, SMT
<1>3. Pow10(MAX_DIGITS) <= Pow10(8) /\ Pow10(MAX_DIGITS) \in Nat
  BY <1>2, Pow10Monotone, SMT
<1>4. Pow10(8) = 100000000
  BY SMT DEF Pow10
<1>5. numberKeypad <= MAX_PASSWORD
  BY <1>1, <1>3, <1>4, SMT DEF MAX_PASSWORD
<1>6. numberKeypad \in 0..(Pow10(MAX_DIGITS) - 1)
  BY <1>1, <1>3, SMT
<1>7. numberKeypad \in Passwords
  BY <1>6, LockAssumption, Zenon
<1>8. QED
  BY <1>1, <1>5, <1>7, Zenon DEF Usable

LEMMA StoreRefines ==
    ASSUME LockIInv, [LockNext]_vars
    PROVE  [StoreNext]_storeVars
<1>1. CASE Handler
  <2>1. CASE UNCHANGED storeVars
    BY <2>1
  <2>2. CASE \E committed \in BOOLEAN : ChangePassword(numberKeypad, committed)
             /\ numberKeypad \notin {0, SETTING, BACK}
    BY <2>2, TypedIsPassword, Zenon DEF LockIInv, StoreNext
  <2>3. QED
    BY <1>1, <2>1, <2>2, Zenon DEF Handler, StoreMoves
<1>2. CASE Polling
  BY <1>2 DEF Polling, PressKey, PollNoKey, DuringPoll
<1>3. CASE Starting
  BY <1>3 DEF Starting, Reset, Setup, StoreNext
<1>4. CASE CallCheckMoto \/ SkipChange \/ UNCHANGED vars
  BY <1>4 DEF CallCheckMoto, SkipChange, vars
<1>5. QED
  BY <1>1, <1>2, <1>3, <1>4, StepCases
-----------------------------------------------------------------------------
LEMMA ControlTypeStep ==
    ASSUME LockIInv, [LockNext]_vars
    PROVE  ControlTypeOK'
<1> USE DEF ControlTypeOK, LockIInv, ControlIInv, sensorVars, promptVars
<1>1. CASE Handler
  BY <1>1 DEF Handler
<1>2. CASE Polling
  <2>1. promptAge' \in 0..(MODE_TIMEOUT + 1)
    BY <1>2, PromptAges, Times DEF Polling, PressKey, PollNoKey, DuringPoll
  <2>2. QED
    BY <1>2, <2>1 DEF Polling, PressKey, PollNoKey, DuringPoll
<1>3. CASE Starting
  <2>1. exitMode' \in BOOLEAN
    BY <1>3, Zenon DEF Starting, Reset, Setup
  <2>2. CASE Reset
    <3>1. 0 \in 0..(MODE_TIMEOUT + 1) /\ 1 \in 0..1 /\ 0 \in 0..(UINT16_RANGE - 1)
      BY LockAssumption, SMT DEF BACK
    <3>2. QED
      BY <2>1, <2>2, <3>1 DEF Reset, Places, Enrolling
  <2>3. CASE \E found \in BOOLEAN : Setup(found)
    BY <2>1, <2>3 DEF Setup, Places, Enrolling
  <2>4. QED
    BY <1>3, <2>2, <2>3 DEF Starting
<1>4. CASE CallCheckMoto
  BY <1>4 DEF CallCheckMoto, Places, Enrolling
<1>5. CASE SkipChange
  <2>1. exitMode' \in BOOLEAN
    BY <1>5, Zenon DEF SkipChange
  <2>2. QED
    BY <1>5, <2>1 DEF SkipChange
<1>6. CASE UNCHANGED vars
  BY <1>6 DEF vars
<1>7. QED
  BY <1>1, <1>2, <1>3, <1>4, <1>5, <1>6, StepCases

(* After a call that ends with the user away, the number is a leftover.    *)
LEMMA IdleLeftover ==
    ASSUME LockIInv, pc = "home", call # "polling", ackKeypad = 0
    PROVE  Leftover(numberKeypad)
<1>1. call \in {"end", "A", "B", "D"}
  BY DEF LockIInv, EntryIInv, EntryTypeOK
<1>2. BACK % UINT8_RANGE = BACK
  BY LockAssumption, SMT DEF BACK
<1>3. QED
  BY <1>1, <1>2 DEF LockIInv, ControlIInv, NumberIInv, Leftover

LEMMA HandlerNumber ==
    ASSUME LockIInv, Handler
    PROVE  NumberIInv'
<1> USE DEF LockIInv, ControlIInv, Handler
<1>1. call # "polling" /\ call' = IF pc' \in Prompts THEN "polling" ELSE "end"
  BY DEF EntryMoves, Caller
<1>2. CASE numberKeypad' = 0
  BY <1>1, <1>2 DEF NumberIInv, Leftover, Prompts, ModePrompts
<1>3. CASE /\ numberKeypad' = numberKeypad
           /\ pc' \in {"home", "loop"}
           /\ Leftover(numberKeypad)
  BY <1>1, <1>3 DEF NumberIInv, Leftover, Prompts, ModePrompts
<1>4. CASE numberKeypad' = numberKeypad /\ pc' = "dispatch"
  BY <1>1, <1>4 DEF NumberIInv, Leftover, Prompts, ModePrompts
<1>5. QED
  BY <1>1, <1>2, <1>3, <1>4, IdleLeftover DEF NumberMoves, NumberIInv, Leftover

LEMMA PollingNumber ==
    ASSUME LockIInv, Polling
    PROVE  NumberIInv'
<1>1. PICK d \in PollTimes : PressKey(d) \/ PollNoKey(d)
  BY DEF Polling
<1>2. pc' = pc
  BY <1>1 DEF PressKey, PollNoKey, DuringPoll
<1>3. call = "polling"
  BY <1>1 DEF PressKey, PollNoKey, Key, NoKey, AppendDigit, Clear, Submit, SettingKey, BackKey,
      IdleScan, Expire
<1>4. pc \in Prompts
  BY <1>3 DEF LockIInv, ControlIInv, NumberIInv
<1> USE <1>2, <1>3, <1>4 DEF LockIInv, ControlIInv, NumberIInv, Prompts, ModePrompts
<1>5. CASE numberKeypad' = numberKeypad /\ call' \in {"polling", "end"}
  BY <1>5 DEF Leftover
<1>6. CASE Submit(d)
  <2>1. ackKeypad' = 0 => numberKeypad' = 0
    <3>1. ackKeypad = 0 => numberCount = 0
      BY DEF EntryIInv, EntryTypeOK, PendingAcked
    <3>2. numberCount = 0 => stringCharacter = 0
      BY SMT DEF EntryIInv, EntryTypeOK, BufferFits, Pow10
    <3>3. QED
      BY <1>6, <3>1, <3>2 DEF Submit
  <2>2. QED
    BY <1>6, <2>1 DEF Submit
<1>7. CASE SettingKey(d)
  BY <1>7 DEF SettingKey
<1>8. CASE BackKey(d)
  BY <1>8 DEF BackKey
<1>9. QED
  BY <1>1, <1>5, <1>6, <1>7, <1>8
     DEF PressKey, PollNoKey, Key, NoKey, AppendDigit, Clear, IdleScan, Expire, LoopEnd

LEMMA NumberStep ==
    ASSUME LockIInv, [LockNext]_vars
    PROVE  NumberIInv'
<1>1. CASE Handler
  BY <1>1, HandlerNumber
<1>2. CASE Polling
  BY <1>2, PollingNumber
<1> USE DEF LockIInv, ControlIInv, NumberIInv, Leftover, Prompts, ModePrompts
<1>3. CASE Reset
  BY <1>3 DEF Reset, EntryPowerUp
<1>4. ASSUME NEW found \in BOOLEAN, Setup(found)
      PROVE  NumberIInv'
  BY <1>4 DEF Setup, entryVars
<1>5. CASE CallCheckMoto
  BY <1>5 DEF CallCheckMoto, entryVars
<1>6. CASE SkipChange
  BY <1>6 DEF SkipChange, entryVars, promptVars
<1>7. CASE UNCHANGED vars
  BY <1>7 DEF vars, entryVars, promptVars
<1>8. QED
  BY <1>1, <1>2, <1>3, <1>4, <1>5, <1>6, <1>7, StepCases DEF Starting

LEMMA PasswordStep ==
    ASSUME LockIInv, [LockNext]_vars
    PROVE  PasswordIInv'
<1> USE DEF LockIInv, ControlIInv, PasswordIInv
<1>1. ASSUME UNCHANGED storeVars, pc # "setup"
      PROVE  PasswordIInv'
  BY <1>1 DEF storeVars, Usable, FactoryPasswords
<1>2. CASE Handler
  <2>1. ASSUME numberKeypad \notin {0, SETTING, BACK}, NEW committed \in BOOLEAN,
               ChangePassword(numberKeypad, committed)
        PROVE  PasswordIInv'
    <3>1. Usable(numberKeypad)
      BY <2>1, TypedIsPassword
    <3>2. setKeypadPassword' = numberKeypad /\ confirmed' \in {numberKeypad, confirmed}
      BY <2>1 DEF ChangePassword
    <3>3. QED
      BY <3>1, <3>2 DEF Usable, FactoryPasswords
  <2>2. QED
    BY <1>1, <1>2, <2>1 DEF Handler, StoreMoves
<1>3. CASE Polling
  <2>1. pc # "setup"
    BY <1>3 DEF Polling, PressKey, PollNoKey, Key, NoKey, AppendDigit, Clear, Submit,
        SettingKey, BackKey, IdleScan, Expire, NumberIInv, Prompts, ModePrompts
  <2>2. QED
    BY <1>1, <1>3, <2>1 DEF Polling, PressKey, PollNoKey, DuringPoll
<1>4. CASE Reset
  BY <1>4 DEF Reset, PowerLoss, Usable, FactoryPasswords
<1>5. ASSUME NEW found \in BOOLEAN, Setup(found)
      PROVE  PasswordIInv'
  BY <1>5 DEF Setup, GetPassword, StoreIInv, FlashHoldsConfirmed, Usable, FactoryPasswords
<1>6. CASE CallCheckMoto \/ SkipChange
  BY <1>1, <1>6 DEF CallCheckMoto, SkipChange, Dispatch
<1>7. CASE UNCHANGED vars
  BY <1>7 DEF vars, storeVars, promptVars, Usable, FactoryPasswords
<1>8. QED
  BY <1>2, <1>3, <1>4, <1>5, <1>6, <1>7, StepCases DEF Starting
-----------------------------------------------------------------------------
LEMMA LockInitIInv == LockInit => LockIInv
<1> SUFFICES ASSUME LockInit PROVE LockIInv
  OBVIOUS
<1>1. EntryIInv /\ MotorIInv /\ StoreIInv
  BY EntryInitIInv, MotorInitIInv, StoreInitIInv DEF LockInit
<1>2. exitMode \in BOOLEAN
  BY Zenon DEF LockInit
<1>3. ControlTypeOK
  BY <1>2, LockAssumption DEF BACK, LockInit, ControlTypeOK, Places, Enrolling
<1>4. NumberIInv
  BY DEF LockInit, EntryInit, NumberIInv, Leftover
<1>5. PasswordIInv
  BY DEF LockInit, StoreInit, PasswordIInv, Usable, FactoryPasswords
<1>6. QED
  BY <1>1, <1>3, <1>4, <1>5 DEF LockIInv, ControlIInv

LEMMA LockStepIInv ==
    ASSUME LockIInv, [LockNext]_vars
    PROVE  LockIInv'
<1>1. EntryIInv'
  BY EntryRefines, EntryStepIInv DEF LockIInv
<1>2. MotorIInv'
  BY MotorRefines, MotorStepIInv DEF LockIInv
<1>3. StoreIInv'
  BY StoreRefines, StoreStepIInv DEF LockIInv
<1>4. QED
  BY <1>1, <1>2, <1>3, ControlTypeStep, NumberStep, PasswordStep DEF LockIInv, ControlIInv

LEMMA LockInvariant == LockSpec => []LockIInv
<1>1. LockIInv /\ [LockNext]_vars => LockIInv'
  BY LockStepIInv
<1>2. QED
  BY <1>1, LockInitIInv, PTL DEF LockSpec

(* The lock implements the specification of keypad entry: loop(), its      *)
(* menus and the enrollment use checkNum() only as CheckNum says.          *)
THEOREM LockImplementsEntry == LockSpec => CheckNumSpec
<1>1. LockInit => EntryInit
  BY DEF LockInit
<1>2. LockIInv /\ [LockNext]_vars => [CheckNumNext]_entryVars
  BY EntryRefines
<1>3. QED
  BY <1>1, <1>2, LockInvariant, PTL DEF LockSpec, CheckNumSpec

(* It implements the specification of the motor, whatever delays and       *)
(* prompts come between two calls of checkMoto().                          *)
THEOREM LockImplementsMotor == LockSpec => MotorSpec
<1>1. LockInit => MotorInit
  BY DEF LockInit
<1>2. LockIInv /\ [LockNext]_vars => [MotorNext]_motorVars
  BY MotorRefines
<1>3. QED
  BY <1>1, <1>2, LockInvariant, PTL DEF LockSpec, MotorSpec

(* It implements the specification of the stored password: what it saves   *)
(* is always a number savePassword() accepts.                              *)
THEOREM LockImplementsStore == LockSpec => StoreSpec
<1>1. LockInit => StoreInit
  BY DEF LockInit
<1>2. LockIInv /\ [LockNext]_vars => [StoreNext]_storeVars
  BY StoreRefines
<1>3. QED
  BY <1>1, <1>2, LockInvariant, PTL DEF LockSpec, StoreSpec

(* Types of the whole lock.                                                *)
THEOREM LockTypes == LockSpec => []LockTypeOK
<1>1. LockIInv => LockTypeOK
  BY DEF LockIInv, EntryIInv, MotorIInv, StoreIInv, ControlIInv, ControlTypeOK, LockTypeOK
<1>2. QED
  BY <1>1, LockInvariant, PTL

(* The password is always one the keypad can enter, or the factory's.      *)
THEOREM LockPasswordUsable == LockSpec => []PasswordUsable
<1>1. LockIInv => PasswordUsable
  <2>1. ASSUME NEW p \in Nat, NEW m \in Nat, p # 0, p <= m
        PROVE  p \in 1..m
    BY <2>1, SMT
  <2>2. MAX_PASSWORD \in Nat
    BY SMT DEF MAX_PASSWORD
  <2>3. ASSUME NEW p \in Nat \ {0, SETTING, BACK}, p <= MAX_PASSWORD
        PROVE  p \in 1..MAX_PASSWORD /\ p \notin {SETTING, BACK}
    BY <2>1, <2>2, <2>3, Zenon
  <2>4. QED
    BY <2>3, Zenon DEF LockIInv, ControlIInv, PasswordIInv, Usable, PasswordUsable
<1>2. QED
  BY <1>1, LockInvariant, PTL

(* No prompt takes the number of an earlier one for an answer.             *)
THEOREM LockNoStaleNumber == LockSpec => []NoStaleNumber
<1>1. LockIInv => NoStaleNumber
  BY DEF LockIInv, ControlIInv, NumberIInv, Leftover, NoStaleNumber
<1>2. QED
  BY <1>1, LockInvariant, PTL

(* What the components promise holds in the lock: a stopped opening drive  *)
(* has drawn the bolt back, and a reboot reads the confirmed password.     *)
THEOREM LockPromises == LockSpec => [](OpensFully /\ FlashHoldsConfirmed)
<1>1. LockIInv => OpensFully /\ FlashHoldsConfirmed
  BY DEF LockIInv, MotorIInv, StoreIInv
<1>2. QED
  BY <1>1, LockInvariant, PTL

(* An idle exit takes no digits along to the next number typed.            *)
THEOREM LockIdleExitIsClean == LockSpec => IdleExitIsClean
<1>1. LockIInv /\ [LockNext]_vars
      => [LeaveOnTimeOut \/ LeaveModeOnTimeOut => numberCount = 0]_vars
  BY SMT DEF LockIInv, EntryIInv, EntryTypeOK, PendingAcked, LeaveOnTimeOut, LeaveModeOnTimeOut, TimedOut
<1>2. QED
  BY <1>1, LockInvariant, PTL DEF LockSpec, IdleExitIsClean

(* The keypad opens the door only for a number just entered with 'D'.      *)
THEOREM LockOpensOnlyOnEntry == LockSpec => OpensOnlyOnEntry
<1>1. ASSUME LockIInv, NEW d \in MessageTimes, HomeOpen(d), Distinct(setKeypadPassword)
      PROVE  call = "D"
  <2>1. numberKeypad \notin {0, SETTING} /\ numberKeypad % UINT8_RANGE # BACK /\ numberKeypad # BACK
    <3>1. BACK % UINT8_RANGE = BACK
      BY LockAssumption, SMT DEF BACK
    <3>2. QED
      BY <1>1, <3>1 DEF HomeOpen, AtHome, Distinct
  <2>2. call \in {"end", "A", "B", "D"}
    BY <1>1 DEF HomeOpen, AtHome, LockIInv, EntryIInv, EntryTypeOK
  <2>3. QED
    BY <1>1, <2>1, <2>2 DEF HomeOpen, AtHome, LockIInv, ControlIInv, NumberIInv, Leftover
<1>2. LockIInv /\ [LockNext]_vars
      => [(\E d \in MessageTimes : HomeOpen(d)) /\ Distinct(setKeypadPassword) => call = "D"]_vars
  BY <1>1
<1>3. QED
  BY <1>2, LockInvariant, PTL DEF LockSpec, OpensOnlyOnEntry

(* Nothing of the admin's menus is done for a number nobody just entered.  *)
THEOREM LockAdminActsOnEntry == LockSpec => AdminActsOnEntry
<1>1. ASSUME LockIInv, NEW p \in {"login", "oldPw", "newPw", "addId", "delId"}, Answered(p),
             numberKeypad \notin {SETTING, BACK}
      PROVE  call = "D"
  <2>1. call \in {"end", "A", "B", "D"} /\ numberKeypad # 0 /\ pc = p
    BY <1>1 DEF Answered, Returned, LockIInv, EntryIInv, EntryTypeOK
  <2>2. QED
    BY <1>1, <2>1 DEF LockIInv, ControlIInv, NumberIInv, Prompts, ModePrompts
<1>2. ID \notin {SETTING, BACK} => numberKeypad \notin {SETTING, BACK}
  BY LockAssumption, SMT DEF ID, SETTING, BACK
<1>3. 0 \notin {SETTING, BACK}
  BY SMT DEF SETTING, BACK
<1>4. ASSUME LockIInv, AdminActs
      PROVE  call = "D"
  <2>1. CASE LoginOk
    BY <1>1, <1>4, <2>1, LockAssumption DEF LoginOk
  <2>2. CASE OldRight
    BY <1>1, <1>4, <2>2 DEF OldRight
  <2>3. ASSUME NEW d \in MessageTimes, NEW done \in BOOLEAN, NewPassword(done, d)
        PROVE  call = "D"
    BY <1>1, <1>4, <2>3 DEF NewPassword
  <2>4. ASSUME NEW d \in MessageTimes, AddAllowed(d)
        PROVE  call = "D"
    BY <1>1, <1>2, <1>4, <2>4 DEF AddAllowed
  <2>5. ASSUME NEW d \in MessageTimes, NEW done \in BOOLEAN, DeleteAll(done, d) \/ DeleteOne(done, d)
        PROVE  call = "D"
    BY <1>1, <1>2, <1>3, <1>4, <2>5 DEF DeleteAll, DeleteOne
  <2>6. QED
    BY <1>4, <2>1, <2>2, <2>3, <2>4, <2>5 DEF AdminActs
<1>5. LockIInv /\ [LockNext]_vars => [AdminActs => call = "D"]_vars
  BY <1>4
<1>6. QED
  BY <1>5, LockInvariant, PTL DEF LockSpec, AdminActsOnEntry
-----------------------------------------------------------------------------
(* The lock keeps to FingerDatabase: away from enrollment and from mode 3  *)
(* no step touches the stored fingers or the ID.                           *)
Untouched == Stage' = Stage /\ IDAddFinger' = IDAddFinger /\ templates' = templates

LEMMA ElsewhereUntouched ==
    ASSUME \/ LoopStep \/ LoginStep \/ MenuStep \/ ChangeStep
           \/ Polling \/ \E found \in BOOLEAN : Setup(found)
    PROVE  Untouched
<1> USE DEF Stage, Enrolling, Untouched, SameMode, sensorVars, Goto, Prompt
<1>1. CASE LoopStep
  BY <1>1 DEF LoopStep, CallCheckMoto, FingerMatched, FingerRefused, NoFinger, AfterScan, HomeIdle,
     HomeBack, HomeSetting, HomeOpen, HomeFailed, AtHome
<1>2. CASE LoginStep
  BY <1>2 DEF LoginStep, AskAgain, LeaveOnTimeOut, LeaveModeOnTimeOut, LoginBack, LoginSetting,
     LoginOk, LoginWrong, Answered, Returned, ModePrompts
<1>3. CASE MenuStep
  BY <1>3 DEF MenuStep, MenuChosen, ModeSetting, ModeBack, SkipChange, ChooseChange, ChooseAdd,
     ChooseDelete, ModeInvalid, Dispatch, Answered, Returned, promptVars
<1>4. CASE ChangeStep
  BY <1>4 DEF ChangeStep, OldBack, OldSetting, OldRight, NewSetting, NewBack, OldWrong,
     NewPassword, BackToMenu, Answered, Returned
<1>5. CASE Polling
  BY <1>5 DEF Polling, PressKey, PollNoKey, DuringPoll
<1>6. ASSUME NEW found \in BOOLEAN, Setup(found)
      PROVE  Untouched
  BY <1>6 DEF Setup
<1>7. QED
  BY <1>1, <1>2, <1>3, <1>4, <1>5, <1>6

LEMMA AddKeepsFingers ==
    ASSUME LockIInv, AddStep
    PROVE  Untouched \/ Database!Begin \/ Database!Refuse
<1> USE DEF Stage, Enrolling, Untouched, SameMode, EnterID, sensorVars, Goto, Prompt
<1>1. ASSUME NEW d \in MessageTimes, AddAllowed(d)
      PROVE  Database!Begin
  BY <1>1 DEF AddAllowed, Answered, Returned, Database!Begin
<1>2. ASSUME AddBack \/ AddSetting \/ \E d \in MessageTimes : AddRefused(d)
      PROVE  Database!Refuse
  BY <1>2, EnteredID DEF AddBack, AddSetting, AddRefused, BackToMenu, Answered, Returned,
     Database!Refuse
<1>3. ASSUME \E d \in ScanTimes : Waits(d)
      PROVE  Untouched
  BY <1>3 DEF Waits
<1>4. QED
  BY <1>1, <1>2, <1>3 DEF AddStep

LEMMA EnrollKeepsFingers ==
    ASSUME LockIInv, EnrollStep
    PROVE  Database!Proceed \/ Database!Fail \/ Database!Store
<1> USE DEF Stage, Enrolling, SameMode, sensorVars, Goto, Prompt
<1>1. PICK d \in ScanTimes :
        ImageTaken(d) \/ FingerLifted(d) \/ EnrollFails(d) \/ EnrollStores(d)
  BY DEF EnrollStep
<1>2. CASE ImageTaken(d) \/ FingerLifted(d)
  BY <1>2 DEF ImageTaken, FingerLifted, Database!Proceed
<1>3. CASE EnrollFails(d)
  BY <1>3 DEF EnrollFails, Database!Fail
<1>4. CASE EnrollStores(d)
  BY <1>4 DEF EnrollStores, Database!Store
<1>5. QED
  BY <1>1, <1>2, <1>3, <1>4

LEMMA DeleteKeepsFingers ==
    ASSUME LockIInv, DeleteStep
    PROVE  Untouched \/ Database!Delete
<1> USE DEF Stage, Enrolling, Untouched, SameMode, sensorVars, Goto, Prompt
<1>1. ASSUME NEW d \in MessageTimes, NEW ok \in BOOLEAN, DeleteAll(ok, d)
      PROVE  Untouched \/ Database!Delete
  <2>1. /\ Stage = "none" /\ Stage' = "none" /\ IDAddFinger' = IDAddFinger
        /\ templates' \in {{}, templates}
    BY <1>1 DEF DeleteAll, Answered, Returned
  <2>2. CASE MAX_ID = 0
    <3>1. 1..MAX_ID = {}
      BY <2>2, SMT
    <3>2. templates = {}
      BY <3>1 DEF LockIInv, ControlIInv, ControlTypeOK
    <3>3. QED
      BY <2>1, <3>2
  <2>3. CASE MAX_ID # 0
    <3>1. 1 \in 1..MAX_ID
      BY <2>3, LockAssumption, SMT
    <3>2. QED
      BY <2>1, <3>1 DEF Database!Delete
  <2>4. QED
    BY <2>2, <2>3
<1>2. ASSUME NEW d \in MessageTimes, NEW ok \in BOOLEAN, DeleteOne(ok, d)
      PROVE  Untouched \/ Database!Delete
  BY <1>2 DEF DeleteOne, Answered, Returned, Database!Delete
<1>3. ASSUME DeleteBack \/ DeleteSetting \/ \E d \in MessageTimes : DeleteRefused(d)
      PROVE  Untouched
  BY <1>3 DEF DeleteBack, DeleteSetting, DeleteRefused, BackToMenu, Answered, Returned
<1>4. QED
  BY <1>1, <1>2, <1>3 DEF DeleteStep

LEMMA FingersRefine ==
    ASSUME LockIInv, [LockNext]_vars
    PROVE  [Database!DatabaseNext]_(Database!databaseVars)
<1>1. ASSUME Untouched
      PROVE  UNCHANGED Database!databaseVars
  BY <1>1 DEF Untouched, Database!databaseVars
<1>2. CASE Reset
  BY <1>2 DEF Reset, Database!DatabaseNext, Database!DatabaseReset, Stage, Enrolling
<1>3. CASE UNCHANGED vars
  BY <1>1, <1>3 DEF vars, promptVars, sensorVars, Untouched, Stage
<1>4. QED
  BY <1>1, <1>2, <1>3, ElsewhereUntouched, AddKeepsFingers, EnrollKeepsFingers,
     DeleteKeepsFingers, Times
     DEF LockNext, Program, UserKey, Polling, Database!DatabaseNext

(* The menus change the stored fingers only as FingerDatabase says, which  *)
(* the commands of an enrollment are proved to implement as well.          *)
THEOREM LockKeepsFingers == LockSpec => FingersKept
<1>1. LockInit => Database!DatabaseInit
  BY DEF LockInit, Database!DatabaseInit, Stage, Enrolling
<1>2. LockIInv /\ [LockNext]_vars => [Database!DatabaseNext]_(Database!databaseVars)
  BY FingersRefine
<1>3. QED
  BY <1>1, <1>2, LockInvariant, PTL DEF LockSpec, FingersKept, Database!DatabaseSpec
-----------------------------------------------------------------------------
(* The way back to loop().  StepsLeft, place by place.                     *)
InPrompt == pc \in Prompts \ {"home"}

StepsAt ==
    /\ pc = "setup" => StepsLeft = 1
    /\ pc = "scan" => StepsLeft = LongestReturn
    /\ pc = "home" /\ call = "polling" => StepsLeft = LongestPrompt + 1 + EntryLeft + 1
    /\ pc = "home" /\ call # "polling" => StepsLeft = LongestPrompt + 1 + EntryLeft + 0
    /\ pc = "dispatch" /\ exitMode => StepsLeft = LongestPrompt + 2
    /\ pc = "dispatch" /\ ~exitMode => StepsLeft = LongestPrompt + 1
    /\ InPrompt /\ numberKeypad # 0 => StepsLeft = LongestPrompt + 3
    /\ InPrompt /\ numberKeypad = 0 => StepsLeft = PromptLeft

LEMMA StepsCases == StepsAt
<1>1. "setup" \notin Prompts /\ "scan" \notin Prompts /\ "dispatch" \notin Prompts
  BY DEF Prompts, ModePrompts
<1>2. (pc = "setup" => StepsLeft = 1) /\ (pc = "scan" => StepsLeft = LongestReturn)
  BY <1>1, Zenon DEF StepsLeft
<1>3. /\ pc = "home" /\ call = "polling" => StepsLeft = LongestPrompt + 1 + EntryLeft + 1
      /\ pc = "home" /\ call # "polling" => StepsLeft = LongestPrompt + 1 + EntryLeft + 0
  BY Zenon DEF StepsLeft
<1>4. /\ pc = "dispatch" /\ exitMode => StepsLeft = LongestPrompt + 2
      /\ pc = "dispatch" /\ ~exitMode => StepsLeft = LongestPrompt + 1
  BY <1>1, Zenon DEF StepsLeft
<1>5. /\ InPrompt /\ numberKeypad # 0 => StepsLeft = LongestPrompt + 3
      /\ InPrompt /\ numberKeypad = 0 => StepsLeft = PromptLeft
  BY <1>1, Zenon DEF StepsLeft, InPrompt
<1>6. QED
  BY <1>2, <1>3, <1>4, <1>5, Zenon DEF StepsAt

(* What is left is bounded, everywhere away from loop().                   *)
ReturnIInv ==
    /\ StepsAt
    /\ EntryLeft \in 0..(ENTRY_TIMEOUT + 2)
    /\ PromptLeft \in 1..LongestPrompt
    /\ Away => StepsLeft \in 1..LongestReturn

LEMMA LimitsNat ==
    /\ ENTRY_TIMEOUT \in Nat /\ MODE_TIMEOUT \in Nat /\ Limit \in Nat /\ Limit <= MODE_TIMEOUT
    /\ LongestPrompt \in Nat /\ LongestReturn = LongestPrompt + ENTRY_TIMEOUT + 5
BY EntryAssumption, LockAssumption, SMT DEF Limit, LongestPrompt, LongestReturn

LEMMA LimitsInt ==
    LongestPrompt \in Int /\ ENTRY_TIMEOUT \in Int
BY LimitsNat, SMT

LEMMA ReturnBounds == LockIInv => ReturnIInv
<1> SUFFICES ASSUME LockIInv PROVE ReturnIInv
  OBVIOUS
<1>1. /\ entryAge \in 0..(ENTRY_TIMEOUT + 1) /\ numberCount \in Nat /\ ackKeypad \in 0..1
      /\ promptAge \in 0..(MODE_TIMEOUT + 1) /\ pc \in Places
  BY EntryAssumption, SMT DEF LockIInv, EntryIInv, EntryTypeOK, ControlIInv, ControlTypeOK
<1>2. EntryLeft \in 0..(ENTRY_TIMEOUT + 2)
  BY <1>1, LimitsNat, SMT DEF EntryLeft
<1>3. PromptLeft \in 1..LongestPrompt
  <2>1. CallLeft \in 1..3
    BY DEF CallLeft
  <2>2. QED
    BY <1>1, <1>2, <2>1, LimitsNat, SMT DEF PromptLeft, LongestPrompt
<1>4. Away => StepsLeft \in 1..LongestReturn
  <2>1. SUFFICES ASSUME Away
                 PROVE  StepsLeft \in 1..LongestReturn
    OBVIOUS
  <2>2. pc \in {"setup", "scan", "home", "dispatch"} \/ InPrompt
    BY <1>1, <2>1 DEF Away, Places, InPrompt, Prompts
  <2>3. QED
    BY <1>2, <1>3, <2>2, StepsCases, LimitsNat, SMT DEF StepsAt
<1>5. QED
  BY <1>2, <1>3, <1>4, StepsCases DEF ReturnIInv

(* The sums at home: those of a scan, of a call and of its end.            *)
LEMMA HomeSums ==
    ASSUME NEW l \in Int, NEW t \in Int, NEW e \in Int, NEW f \in Int
    PROVE  /\ e <= t + 2 => l + 1 + e + 1 < l + t + 5 /\ l + 1 + e + 0 < l + t + 5
           /\ f <= e => l + 1 + f + 0 < l + 1 + e + 1
           /\ f < e => l + 1 + f + 1 < l + 1 + e + 1
BY SMT

(* A prompt without an answer is nearer to loop() than all that comes      *)
(* before it.                                                              *)
Unanswered == InPrompt /\ numberKeypad = 0

LEMMA UnansweredLeast ==
    ASSUME ReturnIInv', Unanswered', StepsLeft \in Int, StepsLeft > LongestPrompt
    PROVE  StepsLeft' < StepsLeft
BY LimitsNat, SMT DEF ReturnIInv, StepsAt, Unanswered

(* An answer already given leads to a prompt without one, or out.          *)
LEMMA AnswerLeads ==
    ASSUME LoginStep \/ ChangeStep \/ AddStep \/ DeleteStep, Away, ~AskAgain
    PROVE  ~Away' \/ (InPrompt /\ numberKeypad # 0 /\ Unanswered')
<1> USE DEF Goto, Caller, Prompt, Away, Enrolling, Unanswered, InPrompt, Prompts, ModePrompts,
        Answered, Returned, BackToMenu
<1>1. CASE LoginStep
  BY <1>1 DEF LoginStep, LeaveOnTimeOut, LeaveModeOnTimeOut, LoginBack, LoginSetting, LoginOk,
     LoginWrong
<1>2. CASE ChangeStep
  BY <1>2 DEF ChangeStep, OldBack, OldSetting, OldRight, NewSetting, NewBack, OldWrong, NewPassword
<1>3. CASE AddStep
  BY <1>3 DEF AddStep, AddBack, AddSetting, AddRefused, AddAllowed, Waits
<1>4. CASE DeleteStep
  BY <1>4 DEF DeleteStep, DeleteBack, DeleteSetting, DeleteRefused, DeleteAll, DeleteOne
<1>5. QED
  BY <1>1, <1>2, <1>3, <1>4

LEMMA AnswerDescends ==
    ASSUME ReturnIInv, ReturnIInv', LoginStep \/ ChangeStep \/ AddStep \/ DeleteStep, Away, ~AskAgain
    PROVE  Away' => StepsLeft' < StepsLeft
<1>1. ASSUME InPrompt, numberKeypad # 0, Unanswered'
      PROVE  StepsLeft' < StepsLeft
  <2>1. StepsLeft = LongestPrompt + 3
    BY <1>1 DEF ReturnIInv, StepsAt
  <2>2. QED
    BY <1>1, <2>1, UnansweredLeast, LimitsNat, SMT
<1>2. QED
  BY <1>1, AnswerLeads

LEMMA MenuDescends ==
    ASSUME ReturnIInv, ReturnIInv', MenuStep, Away
    PROVE  Away' => StepsLeft' < StepsLeft
<1>1. CASE MenuChosen
  <2>1. InPrompt /\ numberKeypad # 0 /\ pc' = "dispatch"
    BY <1>1 DEF MenuChosen, Answered, Returned, Goto, InPrompt, Prompts, ModePrompts
  <2>2. QED
    BY <2>1, LimitsNat, SMT DEF ReturnIInv, StepsAt
<1>2. CASE SkipChange
  <2>1. pc = "dispatch" /\ pc' = "dispatch" /\ exitMode /\ ~exitMode'
    BY <1>2, Zenon DEF SkipChange, Dispatch, promptVars
  <2>2. QED
    BY <2>1, LimitsNat, SMT DEF ReturnIInv, StepsAt
<1>3. CASE ~MenuChosen /\ ~SkipChange
  <2>1. pc = "dispatch" /\ (~Away' \/ Unanswered')
    BY <1>3 DEF MenuStep, ModeSetting, ModeBack, ChooseChange, ChooseAdd, ChooseDelete, ModeInvalid,
       Dispatch, Goto, Caller, Prompt, Away, Unanswered, InPrompt, Prompts, ModePrompts
  <2>2. StepsLeft \in {LongestPrompt + 1, LongestPrompt + 2}
    BY <2>1 DEF ReturnIInv, StepsAt
  <2>3. QED
    BY <2>1, <2>2, UnansweredLeast, LimitsNat, SMT
<1>4. QED
  BY <1>1, <1>2, <1>3

LEMMA LoopDescends ==
    ASSUME ReturnIInv, ReturnIInv', LoopStep, Away
    PROVE  Away' => StepsLeft' < StepsLeft
<1>1. ASSUME NEW d \in ScanTimes, FingerMatched(d) \/ FingerRefused(d) \/ NoFinger(d)
      PROVE  Away' => StepsLeft' < StepsLeft
  <2>1. pc = "scan" /\ pc' \in {"home", "loop"}
    BY <1>1 DEF FingerMatched, FingerRefused, NoFinger, AfterScan, Goto
  <2>2. CASE pc' = "home"
    <3>1. StepsLeft = LongestPrompt + ENTRY_TIMEOUT + 5
      BY <2>1, LimitsNat DEF ReturnIInv, StepsAt
    <3>2. StepsLeft' \in {LongestPrompt + 1 + EntryLeft' + 1, LongestPrompt + 1 + EntryLeft' + 0}
      BY <2>2 DEF ReturnIInv, StepsAt
    <3>3. EntryLeft' \in Int /\ EntryLeft' <= ENTRY_TIMEOUT + 2
      BY LimitsNat, SMT DEF ReturnIInv
    <3>4. QED
      BY <3>1, <3>2, <3>3, LimitsInt, HomeSums, Zenon
  <2>3. QED
    BY <2>1, <2>2 DEF Away
<1>2. CASE HomeIdle \/ HomeBack \/ HomeSetting \/ \E d \in MessageTimes : HomeOpen(d) \/ HomeFailed(d)
  <2>1. pc = "home" /\ (~Away' \/ Unanswered')
    BY <1>2 DEF HomeIdle, HomeBack, HomeSetting, HomeOpen, HomeFailed, AtHome, Goto, Caller, Away,
       Unanswered, InPrompt, Prompts
  <2>2. StepsLeft \in {LongestPrompt + 1 + EntryLeft + 1, LongestPrompt + 1 + EntryLeft + 0}
    BY <2>1 DEF ReturnIInv, StepsAt
  <2>3. StepsLeft \in Int /\ StepsLeft > LongestPrompt
    BY <2>2, LimitsNat, SMT DEF ReturnIInv
  <2>4. QED
    BY <2>1, <2>3, UnansweredLeast
<1>3. CASE CallCheckMoto
  BY <1>3 DEF CallCheckMoto, Away
<1>4. QED
  BY <1>1, <1>2, <1>3 DEF LoopStep

(* AskAgain starts a call, the only step away from loop() that makes no    *)
(* headway but for CallLeft.                                               *)
LEMMA AskAgainDescends ==
    ASSUME LockIInv, ReturnIInv, ReturnIInv', AskAgain
    PROVE  StepsLeft' < StepsLeft
<1>1. /\ pc' = pc /\ InPrompt /\ promptAge' = promptAge /\ ackKeypad' = ackKeypad
      /\ numberKeypad = 0 /\ numberKeypad' = 0
      /\ call # "polling" /\ call' = "polling" /\ ~TimedOut(Limit)
      /\ Held(0)
  BY DEF AskAgain, Returned, Goto, Caller, InPrompt, Prompts, ModePrompts
<1>2. EntryLeft' = EntryLeft
  <2>1. entryAge \in 0..(ENTRY_TIMEOUT + 1) /\ numberCount' = numberCount
    BY <1>1 DEF Held, LockIInv, EntryIInv, EntryTypeOK
  <2>2. numberCount # 0 => entryAge' = entryAge
    BY <1>1, <2>1, LimitsNat, SMT DEF Held, Aged, Later
  <2>3. QED
    BY <2>1, <2>2 DEF EntryLeft
<1>3. CallLeft = 3 /\ CallLeft' = 2
  BY <1>1 DEF CallLeft
<1>4. promptAge \in Int /\ ackKeypad \in Int /\ EntryLeft \in Int
  BY LimitsNat, SMT DEF LockIInv, EntryIInv, EntryTypeOK, ControlIInv, ControlTypeOK, ReturnIInv
<1>5. PromptLeft' < PromptLeft
  BY <1>1, <1>2, <1>3, <1>4, LimitsNat, SMT DEF PromptLeft
<1>6. QED
  BY <1>1, <1>5 DEF ReturnIInv, StepsAt, InPrompt

(* An iteration without a key ends the call, or uses up the entry.         *)
LEMMA PollUsesEntry ==
    ASSUME LockIInv, ReturnAtEnd, NEW d \in PollTimes, NoKey(d)
    PROVE  /\ call = "polling" /\ call' \in {"polling", "end"} /\ numberKeypad' = numberKeypad
           /\ \/ EntryLeft = 0 /\ EntryLeft' = 0 /\ call' = "end" /\ ackKeypad' = 0
              \/ EntryLeft' < EntryLeft /\ ackKeypad' = ackKeypad
<1>1. d \in Nat \ {0} /\ entryAge \in 0..(ENTRY_TIMEOUT + 1) /\ numberCount \in Nat
  BY LockAssumption, DurationsAssumption, EntryAssumption, SMT DEF LockIInv, EntryIInv, EntryTypeOK
<1>2. CASE IdleScan(d) /\ numberCount = 0
  BY <1>2 DEF IdleScan, Held, EntryLeft, LoopEnd
<1>3. CASE IdleScan(d) /\ numberCount # 0
  <2>1. entryAge <= ENTRY_TIMEOUT
    BY <1>1, <1>3, LimitsNat, SMT DEF IdleScan, Expired, Over
  <2>2. entryAge' = Later(entryAge, d, ENTRY_TIMEOUT) /\ numberCount' = numberCount
    BY <1>3 DEF IdleScan, Held, Aged
  <2>3. EntryLeft' < EntryLeft
    BY <1>1, <1>3, <2>1, <2>2, LimitsNat, SMT DEF EntryLeft, Later
  <2>4. QED
    BY <1>3, <2>3 DEF IdleScan, LoopEnd
<1>4. CASE Expire(d)
  <2>1. EntryLeft' = 0 /\ EntryLeft > 0
    BY <1>1, <1>4, LimitsNat, SMT DEF Expire, Expired, Dropped, EntryLeft
  <2>2. QED
    BY <1>4, <2>1 DEF Expire, LoopEnd
<1>5. QED
  BY <1>2, <1>3, <1>4 DEF NoKey

LEMMA PollDescends ==
    ASSUME LockIInv, ReturnIInv, ReturnIInv', ReturnAtEnd, NEW d \in PollTimes, PollNoKey(d)
    PROVE  StepsLeft' < StepsLeft
<1>1. NoKey(d) /\ pc' = pc /\ DuringPoll(d)
  BY DEF PollNoKey, DuringPoll
<1>2. /\ call = "polling" /\ call' \in {"polling", "end"} /\ numberKeypad' = numberKeypad
      /\ \/ EntryLeft = 0 /\ EntryLeft' = 0 /\ call' = "end" /\ ackKeypad' = 0
         \/ EntryLeft' < EntryLeft /\ ackKeypad' = ackKeypad
  BY <1>1, PollUsesEntry
<1>3. EntryLeft \in Int /\ EntryLeft' \in Int
  BY LimitsNat, SMT DEF ReturnIInv
<1>4. CASE pc = "home"
  <2>1. StepsLeft = LongestPrompt + 1 + EntryLeft + 1
    BY <1>2, <1>4 DEF ReturnIInv, StepsAt
  <2>2. CASE call' = "end"
    <3>1. StepsLeft' = LongestPrompt + 1 + EntryLeft' + 0
      BY <1>1, <1>4, <2>2 DEF ReturnIInv, StepsAt
    <3>2. EntryLeft' <= EntryLeft
      BY <1>2, <1>3, SMT
    <3>3. QED
      BY <1>3, <2>1, <3>1, <3>2, LimitsInt, HomeSums, Zenon
  <2>3. CASE call' = "polling"
    <3>1. StepsLeft' = LongestPrompt + 1 + EntryLeft' + 1
      BY <1>1, <1>4, <2>3 DEF ReturnIInv, StepsAt
    <3>2. QED
      BY <1>2, <1>3, <2>1, <2>3, <3>1, LimitsInt, HomeSums, Zenon
  <2>4. QED
    BY <1>2, <2>2, <2>3
<1>5. CASE pc # "home"
  <2>1. InPrompt /\ InPrompt' /\ numberKeypad = 0 /\ numberKeypad' = 0
    BY <1>1, <1>2, <1>5 DEF LockIInv, ControlIInv, NumberIInv, InPrompt
  <2>2. StepsLeft = PromptLeft /\ StepsLeft' = PromptLeft'
    BY <2>1 DEF ReturnIInv, StepsAt
  <2>3. promptAge \in 0..(MODE_TIMEOUT + 1) /\ ackKeypad \in 0..1 /\ d \in Nat \ {0}
    BY LockAssumption, DurationsAssumption DEF LockIInv, EntryIInv, EntryTypeOK, ControlIInv, ControlTypeOK
  <2>4. promptAge' = Later(promptAge, d, MODE_TIMEOUT)
    BY <1>1, <1>5 DEF DuringPoll, Aging
  <2>5. /\ promptAge' \in Int /\ promptAge' >= promptAge
        /\ promptAge' <= MODE_TIMEOUT => promptAge' > promptAge
    BY <2>3, <2>4, LimitsNat, SMT DEF Later
  <2>6. CallLeft = 2 /\ CallLeft' \in 1..3
    BY <1>2, SMT DEF CallLeft
  <2>7. ackKeypad' = 0 /\ call' = "end" => CallLeft' = 1 \/ promptAge' <= MODE_TIMEOUT
    <3>1. Limit' = Limit
      BY <1>1 DEF Limit
    <3>2. ~(promptAge' > Limit') => promptAge' <= MODE_TIMEOUT
      BY <2>5, <3>1, LimitsNat, SMT
    <3>3. QED
      BY <3>2 DEF CallLeft, TimedOut, Over
  <2>8. PromptLeft' < PromptLeft
    BY <1>2, <1>3, <2>3, <2>5, <2>6, <2>7, LimitsNat, SMT DEF PromptLeft
  <2>9. QED
    BY <2>2, <2>8
<1>6. QED
  BY <1>4, <1>5

LEMMA ProgramDescends ==
    ASSUME LockIInv, ReturnIInv, ReturnIInv', ReturnAtEnd, Program, Away
    PROVE  Away' => StepsLeft' < StepsLeft
<1>1. ASSUME NEW found \in BOOLEAN, Setup(found)
      PROVE  ~Away'
  BY <1>1 DEF Setup, Away
<1>2. ASSUME NEW d \in PollTimes, PollNoKey(d)
      PROVE  StepsLeft' < StepsLeft
  BY <1>2, PollDescends
<1>3. QED
  BY <1>1, <1>2, LoopDescends, MenuDescends, AnswerDescends, AskAgainDescends DEF Program

(* Whatever state the last key leaves the lock in, it is back in loop()    *)
(* within LongestReturn steps of its own, or waits for a finger to enroll. *)
THEOREM LockReturnsInBound == LockSpec => ReturnsInBound
<1>1. LockIInv /\ ReturnIInv /\ ReturnIInv' /\ [LockNext]_vars
      => [ReturnAtEnd /\ Program /\ Away
          => StepsLeft \in 1..LongestReturn /\ (Away' => StepsLeft' < StepsLeft)]_vars
  BY ProgramDescends DEF ReturnIInv
<1>2. LockIInv => ReturnIInv
  BY ReturnBounds
<1>3. QED
  BY <1>1, <1>2, LockInvariant, PTL DEF LockSpec, ReturnsInBound
-----------------------------------------------------------------------------
(* The undisturbed cycle.  At the last call of checkMoto() every phase was *)
(* within its time, so it is over by no more than the time s since; and a  *)
(* bolt on its way back is at most as far out as its phase has time left.  *)
Late(s) ==
    /\ motor_status = 2 => elapsed <= OPEN_AT + s
    /\ motor_status = 3 => elapsed <= CLOSE_AT + s
    /\ motor_status = 4 => bolt = 0 \/ bolt + elapsed <= TRAVEL + CLOSE_AT + Round

(* With no digits held, a turn of loop() goes from the sensor to one scan  *)
(* of the keypad and back: the scan clears ackKeypad, whatever it was.     *)
TurnIInv ==
    /\ numberCount = 0
    /\ \/ pc = "scan" /\ Late(0)
       \/ pc = "home" /\ call = "polling" /\ \E s \in ScanTimes : Late(s)
       \/ pc = "home" /\ call # "polling" /\ ackKeypad = 0 /\ Late(Round)
       \/ pc = "loop" /\ Late(Round)

CycleIInv == LockIInv /\ (ReturnAtEnd /\ undisturbed => TurnIInv)

LEMMA LimitsOfPhases ==
    /\ OPEN_AT \in Nat /\ CLOSE_AT \in Nat /\ CYCLE \in Nat /\ TRAVEL \in Nat /\ Round \in Nat
    /\ OPEN_AT <= CLOSE_AT /\ CLOSE_AT <= CYCLE
    /\ CYCLE = CLOSE_AT + TIME_CLOSE_MOTOR
    /\ Round <= TIME_CLOSE_MOTOR /\ TRAVEL <= TIME_CLOSE_MOTOR /\ TIME_CLOSE_MOTOR \in Nat
BY MotorAssumption, RoundAssumption DEF OPEN_AT, CLOSE_AT, CYCLE

(* A call of checkMoto() no later than Round leaves no phase late.         *)
LEMMA CheckedInTime ==
    ASSUME MotorIInv, CheckMoto, motor_status # 1 => Late(Round)
    PROVE  Late(0)'
<1> USE LimitsOfPhases
<1>1. CASE StartOpening
  BY <1>1 DEF StartOpening, Late
<1>2. CASE Sequence
  BY <1>2 DEF Sequence, NextStatus, Over, Late, MotorIInv, MotorTypeOK
<1>3. QED
  BY <1>1, <1>2 DEF CheckMoto

LEMMA LeftToClose ==
    ASSUME NEW b \in Nat, NEW c \in Nat, NEW e \in Nat, NEW f \in Nat, NEW d \in Nat, NEW t \in Nat,
           b = 0 \/ b + e <= t, c = 0 \/ c = b - d, f <= e + d
    PROVE  c = 0 \/ c + f <= t
OBVIOUS

(* While the program is elsewhere, lateness grows with time.               *)
LEMMA LateLater ==
    ASSUME MotorIInv, NEW s \in Nat, NEW d \in Nat, NEW status \in {motor_status, 1},
           Late(s), MotorRuns(status, d)
    PROVE  Late(s + d)'
<1> USE LimitsOfPhases
<1>1. elapsed' <= elapsed + d /\ elapsed' \in Nat /\ elapsed \in Nat
  BY DEF MotorRuns, Later, MotorIInv, MotorTypeOK
<1>2. motor_status' = 2 => elapsed' <= OPEN_AT + (s + d)
  BY <1>1 DEF MotorRuns, Late
<1>3. motor_status' = 3 => elapsed' <= CLOSE_AT + (s + d)
  BY <1>1 DEF MotorRuns, Late
<1>4. ASSUME motor_status' = 4
      PROVE  bolt' = 0 \/ bolt' + elapsed' <= TRAVEL + CLOSE_AT + Round
  <2>1. motor_status = 4 /\ in1 = 0 /\ in2 = 1
    BY <1>4 DEF MotorRuns, MotorIInv, PinsFollowStatus
  <2>2. bolt' = 0 \/ bolt' = bolt - d
    BY <2>1, DrivenType DEF MotorRuns, MotorIInv, MotorTypeOK
  <2>3. bolt \in Nat /\ (bolt = 0 \/ bolt + elapsed <= TRAVEL + CLOSE_AT + Round)
    BY <2>1 DEF Late, MotorIInv, MotorTypeOK
  <2>4. bolt' \in Nat
    BY MotorRunsIInv DEF MotorIInv, MotorTypeOK
  <2>5. TRAVEL + CLOSE_AT + Round \in Nat
    OBVIOUS
  <2>6. QED
    BY <1>1, <2>2, <2>3, <2>4, <2>5, LeftToClose
<1>5. QED
  BY <1>2, <1>3, <1>4 DEF Late

LEMMA LateWithin ==
    ASSUME NEW s \in Nat, s <= Round
    PROVE  /\ MotorTypeOK /\ Late(s) => Late(Round)
           /\ MotorTypeOK' /\ Late(s)' => Late(Round)'
<1> USE LimitsOfPhases, MotorAssumption DEF OPEN_AT, CLOSE_AT, CYCLE, Late, MotorTypeOK
<1>1. MotorTypeOK /\ Late(s) => Late(Round)
  OBVIOUS
<1>2. ASSUME MotorTypeOK', Late(s)'
      PROVE  Late(Round)'
  <2>1. elapsed' \in Int /\ motor_status' \in Int
    BY <1>2
  <2>2. motor_status' = 2 => elapsed' <= OPEN_AT + Round
    BY <1>2, <2>1
  <2>3. motor_status' = 3 => elapsed' <= CLOSE_AT + Round
    BY <1>2, <2>1
  <2>4. QED
    BY <1>2, <2>2, <2>3
<1>3. QED
  BY <1>1, <1>2

(* Only checkMoto() starts the opening drive.                              *)
LEMMA OnlyCheckStarts ==
    ASSUME LockIInv, [LockNext]_vars, motor_status = 1, motor_status' = 2
    PROVE  CallCheckMoto
<1>1. CASE Handler
  BY <1>1 DEF Handler, MotorMoves, MotorRuns, RequestOpen, motorVars
<1>2. CASE Polling
  BY <1>2 DEF Polling, PressKey, PollNoKey, DuringPoll, MotorRuns
<1>3. CASE Starting
  BY <1>3 DEF Starting, Reset, Setup, MotorPowerUp, motorVars
<1>4. CASE SkipChange \/ UNCHANGED vars
  BY <1>4 DEF SkipChange, vars, motorVars
<1>5. QED
  BY <1>1, <1>2, <1>3, <1>4, StepCases

(* The steps of a turn.                                                    *)
LEMMA TurnChecks ==
    ASSUME LockIInv, CallCheckMoto, motor_status # 1 => TurnIInv, numberCount = 0
    PROVE  TurnIInv'
<1>1. motor_status # 1 => Late(Round)
  BY DEF CallCheckMoto, TurnIInv
<1>2. Late(0)'
  BY <1>1, CheckedInTime DEF CallCheckMoto, LockIInv
<1>3. QED
  BY <1>2 DEF CallCheckMoto, entryVars, TurnIInv

LEMMA TurnScans ==
    ASSUME LockIInv, LockIInv', TurnIInv, NEW d \in ScanTimes,
           FingerMatched(d) \/ FingerRefused(d) \/ NoFinger(d)
    PROVE  TurnIInv'
<1>1. d \in Nat /\ d <= Round
  BY LockAssumption, DurationsAssumption, RoundAssumption
<1>2. pc = "scan" /\ Late(0) /\ numberCount = 0
  BY DEF FingerMatched, FingerRefused, NoFinger, TurnIInv
<1>3. PICK status \in {motor_status, 1} : MotorRuns(status, d)
  BY DEF FingerMatched, FingerRefused, NoFinger, RequestOpen
<1>4. Late(0 + d)'
  BY <1>1, <1>2, <1>3, LateLater DEF LockIInv
<1>5. Late(d)'
  BY <1>1, <1>4
<1>6. Late(Round)'
  BY <1>1, <1>5, LateWithin DEF LockIInv, MotorIInv
<1>7. AfterScan(d)
  BY DEF FingerMatched, FingerRefused, NoFinger
<1>8. (pc' = "loop" \/ (pc' = "home" /\ call' = "polling")) /\ numberCount' = 0
  BY <1>2, <1>7 DEF AfterScan, Goto, Caller, Held, Prompts
<1>9. QED
  BY <1>5, <1>6, <1>8 DEF TurnIInv

LEMMA TurnPolls ==
    ASSUME LockIInv, LockIInv', ReturnAtEnd, TurnIInv, NEW d \in PollTimes, PollNoKey(d)
    PROVE  TurnIInv'
<1>1. pc = "home" /\ call = "polling" /\ numberCount = 0
  BY DEF PollNoKey, NoKey, IdleScan, Expire, TurnIInv, LockIInv, ControlIInv, NumberIInv, Prompts, ModePrompts
<1>2. PICK s \in ScanTimes : Late(s)
  BY <1>1 DEF TurnIInv
<1>3. d \in Nat /\ s \in Nat /\ s + d <= Round
  BY LockAssumption, DurationsAssumption, RoundAssumption
<1>4. Late(s + d)'
  BY <1>2, <1>3, LateLater DEF PollNoKey, DuringPoll, LockIInv
<1>5. Late(Round)'
  BY <1>3, <1>4, LateWithin DEF LockIInv, MotorIInv
<1>6. IdleScan(d)
  BY <1>1 DEF PollNoKey, NoKey, Expire, Expired
<1>7. pc' = "home" /\ numberCount' = 0 /\ ackKeypad' = 0 /\ call' = "end"
  BY <1>1, <1>6 DEF IdleScan, Held, LoopEnd, PollNoKey, DuringPoll
<1>8. QED
  BY <1>5, <1>7 DEF TurnIInv

LEMMA TurnIdles ==
    ASSUME LockIInv, TurnIInv, HomeIdle
    PROVE  TurnIInv'
<1>1. Late(Round) /\ numberCount = 0
  BY DEF HomeIdle, TurnIInv
<1>2. pc' = "loop" /\ numberCount' = numberCount /\ UNCHANGED motorVars
  BY DEF HomeIdle, Goto, Caller, Held
<1>3. QED
  BY <1>1, <1>2 DEF TurnIInv, Late, motorVars

(* Without a key there is no other step.                                   *)
LEMMA TurnSteps ==
    ASSUME LockIInv, LockIInv', ReturnAtEnd, TurnIInv, Program \/ EnrollStep, ~CallCheckMoto
    PROVE  TurnIInv'
<1>1. pc \in {"loop", "scan", "home"} /\ (pc = "home" /\ call # "polling" => ackKeypad = 0)
  BY DEF TurnIInv
<1>2. ~EnrollStep
  BY <1>1 DEF EnrollStep, ImageTaken, FingerLifted, EnrollFails, EnrollStores
<1>3. ~\E found \in BOOLEAN : Setup(found)
  BY <1>1 DEF Setup
<1>4. ~LoginStep
  BY <1>1 DEF LoginStep, AskAgain, LeaveOnTimeOut, LeaveModeOnTimeOut, LoginBack, LoginSetting,
     LoginOk, LoginWrong, Answered, Returned, ModePrompts
<1>5. ~MenuStep
  BY <1>1 DEF MenuStep, MenuChosen, ModeSetting, ModeBack, SkipChange, ChooseChange, ChooseAdd,
     ChooseDelete, ModeInvalid, Dispatch, Answered, Returned
<1>6. ~ChangeStep
  BY <1>1 DEF ChangeStep, OldBack, OldSetting, OldRight, NewSetting, NewBack, OldWrong,
     NewPassword, BackToMenu, Answered, Returned
<1>7. ~AddStep
  BY <1>1 DEF AddStep, AddBack, AddSetting, AddRefused, AddAllowed, Waits, BackToMenu,
     Answered, Returned, Enrolling
<1>8. ~DeleteStep
  BY <1>1 DEF DeleteStep, DeleteBack, DeleteSetting, DeleteRefused, DeleteAll, DeleteOne,
     BackToMenu, Answered, Returned
<1>9. CASE \E d \in PollTimes : PollNoKey(d)
  BY <1>9, TurnPolls
<1>10. CASE LoopStep
  <2>1. ~(HomeBack \/ HomeSetting \/ \E d \in MessageTimes : HomeOpen(d) \/ HomeFailed(d))
    BY <1>1 DEF HomeBack, HomeSetting, HomeOpen, HomeFailed, AtHome
  <2>2. QED
    BY <1>10, <2>1, TurnScans, TurnIdles DEF LoopStep
<1>11. QED
  BY <1>2, <1>3, <1>4, <1>5, <1>6, <1>7, <1>8, <1>9, <1>10 DEF Program

LEMMA CycleStepIInv ==
    ASSUME CycleIInv, [CycleNext]_cycleVars
    PROVE  CycleIInv'
<1>1. [LockNext]_vars /\ LockIInv
  BY DEF CycleNext, LockNext, cycleVars, CycleIInv
<1>2. LockIInv'
  BY <1>1, LockStepIInv
<1>3. SUFFICES ASSUME ReturnAtEnd, undisturbed'
               PROVE  TurnIInv'
  BY <1>2 DEF CycleIInv
<1>4. CASE (Program \/ EnrollStep) /\ Runs /\ motor_status = 1 /\ motor_status' = 2
  BY <1>1, <1>3, <1>4, OnlyCheckStarts, TurnChecks DEF Runs
<1>5. CASE (Program \/ EnrollStep) /\ Runs /\ ~(motor_status = 1 /\ motor_status' = 2)
  <2>1. TurnIInv
    BY <1>3, <1>5 DEF Runs, CycleIInv
  <2>2. numberCount = 0
    BY <2>1 DEF TurnIInv
  <2>3. QED
    BY <1>1, <1>2, <1>3, <1>5, <2>1, <2>2, TurnChecks, TurnSteps
<1>6. CASE UNCHANGED cycleVars
  BY <1>3, <1>6 DEF cycleVars, vars, promptVars, motorVars, entryVars, CycleIInv, TurnIInv, Late
<1>7. QED
  BY <1>3, <1>4, <1>5, <1>6 DEF CycleNext, Disturbed

LEMMA CycleInvariant == CycleSpec => []CycleIInv
<1>1. CycleInit => CycleIInv
  BY LockInitIInv DEF CycleInit, CycleIInv
<1>2. CycleIInv /\ [CycleNext]_cycleVars => CycleIInv'
  BY CycleStepIInv
<1>3. QED
  BY <1>1, <1>2, PTL DEF CycleSpec

(* With nobody at the keypad the announced times are kept up to a turn of  *)
(* loop(), whatever fingers come.                                          *)
THEOREM LockUndisturbedTimely == CycleSpec => []UndisturbedTimely
<1>1. CycleIInv => UndisturbedTimely
  <2>1. SUFFICES ASSUME CycleIInv, ReturnAtEnd, undisturbed
                 PROVE  Late(Round)
    BY DEF UndisturbedTimely, Late
  <2>2. TurnIInv /\ MotorTypeOK
    BY <2>1 DEF CycleIInv, LockIInv, MotorIInv
  <2>3. 0 \in Nat /\ 0 <= Round /\ \A s \in ScanTimes : s \in Nat /\ s <= Round
    BY LockAssumption, DurationsAssumption, RoundAssumption
  <2>4. QED
    BY <2>2, <2>3, LateWithin DEF TurnIInv
<1>2. QED
  BY <1>1, CycleInvariant, PTL

(* An undisturbed cycle ends with the bolt shut, up to a turn of loop().   *)
THEOREM LockUndisturbedEndsShut == CycleSpec => UndisturbedEndsShut
<1>1. CycleIInv /\ [CycleNext]_cycleVars
      => [ReturnAtEnd /\ undisturbed /\ CallCheckMoto /\ motor_status # 0 /\ motor_status' = 0
          => bolt' <= Round]_cycleVars
  <2>1. SUFFICES ASSUME CycleIInv, ReturnAtEnd, undisturbed, CallCheckMoto,
                        motor_status # 0, motor_status' = 0
                 PROVE  bolt' <= Round
    OBVIOUS
  <2>2. Late(Round) /\ MotorIInv
    BY <2>1 DEF CycleIInv, TurnIInv, LockIInv, CallCheckMoto
  <2>3. Sequence
    BY <2>1 DEF CallCheckMoto, CheckMoto, StartOpening
  <2>4. elapsed > CYCLE /\ bolt' = bolt
    BY <2>1, <2>3 DEF Sequence, NextStatus, Over
  <2>5. motor_status = 4
    BY <2>1, <2>2, <2>3, <2>4, LimitsOfPhases
       DEF Sequence, NextStatus, Over, Late, MotorIInv, MotorTypeOK
  <2>6. QED
    BY <2>2, <2>4, <2>5, LimitsOfPhases DEF Late, MotorIInv, MotorTypeOK
<1>2. QED
  BY <1>1, CycleInvariant, PTL DEF CycleSpec, UndisturbedEndsShut

=============================================================================
