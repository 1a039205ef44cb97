----------------------------- MODULE Enrollment -----------------------------
(***************************************************************************)
(* What the sketch does with the fingerprint sensor, command by command:   *)
(* setup()'s check that it is there, getFingerprintID(),                   *)
(* getFingerprintEnroll() and deleteFingerprint() with emptyDatabase().    *)
(* People put fingers on the glass and lift them at any time.              *)
(*                                                                         *)
(* Between two calls of getFingerprintID() the menu may start any of the   *)
(* others; how it gets there, motor_status and checkFinger are SmartLock's.*)
(***************************************************************************)
EXTENDS Fingerprint

VARIABLES
    pc,             \* the command to be sent next, or "loop" between calls
    q,              \* what the last command returned
    IDAddFinger,    \* the ID being enrolled; the refused ones do not get here
    puts,           \* history: how often each finger was put down for this
                    \* enrollment, up to 2
    inStep          \* history: no command of this call or enrollment was sent
                    \* with an answer to an earlier one outstanding

vars == <<glass, linkVars, pc, q, IDAddFinger, puts, inStep>>

Searching == {"idTz", "idSearch"}
Enrolling == {"place", "tz1", "lift", "again", "tz2", "model", "store"}
Places == {"setup", "count", "halt", "loop"} \cup Searching \cup Enrolling

EnrollmentTypeOK ==
    /\ SensorTypeOK
    /\ pc \in Places
    /\ q \in Codes \cup {NoAnswer}
    /\ IDAddFinger \in 0..MAX_ID
    /\ puts \in [Fingers -> 0..2]
    /\ inStep \in BOOLEAN

EnrollmentInit ==
    /\ SensorInit
    /\ pc = "setup"
    /\ q = "OK"
    /\ IDAddFinger = 0
    /\ puts = [f \in Fingers |-> 0]
    /\ inStep = TRUE
-----------------------------------------------------------------------------
(* External: the user at the glass.                                        *)
PutFinger(f) ==
    /\ glass = None
    /\ glass' = f
    /\ puts' = IF pc \in Enrolling /\ puts[f] < 2 THEN [puts EXCEPT ![f] = @ + 1] ELSE puts
    /\ UNCHANGED <<linkVars, pc, q, IDAddFinger, inStep>>

LiftFinger ==
    /\ glass # None
    /\ glass' = None
    /\ UNCHANGED <<linkVars, pc, q, IDAddFinger, puts, inStep>>

(* External: the serial line.                                              *)
AnswerLost ==
    /\ LoseAnswer
    /\ UNCHANGED <<glass, pc, q, IDAddFinger, puts, inStep>>

(* A reset in the middle of anything.                                      *)
Reset ==
    /\ SensorPowerUp
    /\ pc' = "setup"
    /\ q' = "OK"
    /\ IDAddFinger' = 0
    /\ inStep' = TRUE
    /\ UNCHANGED <<glass, puts>>
-----------------------------------------------------------------------------
(* A command came back with got, and the sketch goes on at next.           *)
Returns(code, got, next) ==
    /\ Exchange(code, got)
    /\ q' = got
    /\ pc' = next
    /\ inStep' = (answers = <<>> /\ (pc = "loop" \/ inStep))
    /\ UNCHANGED <<glass, IDAddFinger, puts>>

(* setup(): for ever in while(1) unless the sensor answers at once.        *)
Verify(code, got) ==
    /\ pc = "setup"
    /\ VerifyPassword(code)
    /\ Returns(code, got, IF got = "OK" THEN "count" ELSE "halt")

(* getTemplateCount(), whose result only decides what is printed.          *)
Count(code, got) ==
    /\ pc = "count"
    /\ TemplateCount(code)
    /\ Returns(code, got, "loop")

(* getFingerprintID(): any result but FINGERPRINT_OK ends it.              *)
IdImage(code, got) ==
    /\ pc = "loop"
    /\ GetImage(code)
    /\ Returns(code, got, IF got = "OK" THEN "idTz" ELSE "loop")

(* Variant of IdTz: the result of image2Tz() is not looked at.             *)
IdTzIgnored(code, got) ==
    /\ pc = "idTz"
    /\ Image2Tz(1, code)
    /\ Returns(code, got, "idSearch")

IdTz(code, got) ==
    /\ pc = "idTz"
    /\ Image2Tz(1, code)
    /\ Returns(code, got, IF got = "OK" THEN "idSearch" ELSE "loop")

(* A match asks for the door to be opened.                                 *)
IdSearch(code, got) ==
    /\ pc = "idSearch"
    /\ FingerFastSearch(code)
    /\ Returns(code, got, "loop")
-----------------------------------------------------------------------------
(* The menu starts an enrollment.                                          *)
BeginEnroll(id) ==
    /\ pc = "loop"
    /\ pc' = "place"
    /\ IDAddFinger' = id
    /\ puts' = [f \in Fingers |-> IF f = glass THEN 1 ELSE 0]
    /\ inStep' = TRUE
    /\ UNCHANGED <<glass, linkVars, q>>

(* getFingerprintEnroll(): waits for a finger, with no time-out.           *)
Place(code, got) ==
    /\ pc = "place"
    /\ GetImage(code)
    /\ Returns(code, got, IF got = "OK" THEN "tz1" ELSE "place")

(* Variant of Tz1: the finger is not asked to be lifted.                   *)
Tz1NoLift(code, got) ==
    /\ pc = "tz1"
    /\ Image2Tz(1, code)
    /\ Returns(code, got, IF got = "OK" THEN "again" ELSE "loop")

Tz1(code, got) ==
    /\ pc = "tz1"
    /\ Image2Tz(1, code)
    /\ Returns(code, got, IF got = "OK" THEN "lift" ELSE "loop")

(* Variant of Lift: anything but an image counts as a lifted finger.       *)
LiftNoImage(code, got) ==
    /\ pc = "lift"
    /\ GetImage(code)
    /\ Returns(code, got, IF got # "OK" THEN "again" ELSE "lift")

(* Only FINGERPRINT_NOFINGER ends the wait for the finger to be lifted.    *)
Lift(code, got) ==
    /\ pc = "lift"
    /\ GetImage(code)
    /\ Returns(code, got, IF got = "NOFINGER" THEN "again" ELSE "lift")

Again(code, got) ==
    /\ pc = "again"
    /\ GetImage(code)
    /\ Returns(code, got, IF got = "OK" THEN "tz2" ELSE "again")

Tz2(code, got) ==
    /\ pc = "tz2"
    /\ Image2Tz(2, code)
    /\ Returns(code, got, IF got = "OK" THEN "model" ELSE "loop")

(* Variant of Model: the result of createModel() is not looked at.         *)
ModelAnyway(code, got) ==
    /\ pc = "model"
    /\ CreateModel(code)
    /\ Returns(code, got, "store")

Model(code, got) ==
    /\ pc = "model"
    /\ CreateModel(code)
    /\ Returns(code, got, IF got = "OK" THEN "store" ELSE "loop")

Store(code, got) ==
    /\ pc = "store"
    /\ StoreModel(IDAddFinger, code)
    /\ Returns(code, got, "loop")
-----------------------------------------------------------------------------
(* The menu deletes one template, or all.                                  *)
DeleteFingerprint(id, code, got) ==
    /\ pc = "loop"
    /\ DeleteModel(id, code)
    /\ Returns(code, got, "loop")

DeleteAll(code, got) ==
    /\ pc = "loop"
    /\ EmptyDatabase(code)
    /\ Returns(code, got, "loop")

Command ==
    \E code \in Codes, got \in Codes \cup {NoAnswer} :
        \/ Verify(code, got) \/ Count(code, got)
        \/ IdImage(code, got) \/ IdTz(code, got) \/ IdSearch(code, got)
        \/ Place(code, got) \/ Tz1(code, got) \/ Lift(code, got)
        \/ Again(code, got) \/ Tz2(code, got) \/ Model(code, got) \/ Store(code, got)
        \/ \E id \in IDs : DeleteFingerprint(id, code, got)
        \/ DeleteAll(code, got)

User == LiftFinger \/ \E f \in Fingers : PutFinger(f)

EnrollmentNext == Command \/ User \/ AnswerLost \/ Reset \/ \E id \in IDs : BeginEnroll(id)

EnrollmentSpec == EnrollmentInit /\ [][EnrollmentNext]_vars
-----------------------------------------------------------------------------
Stage ==
    CASE pc \in {"place", "tz1"} -> "place"
      [] pc = "lift" -> "lift"
      [] pc \in {"again", "tz2", "model", "store"} -> "again"
      [] OTHER -> "none"

Enrolled == {id \in IDs : flash[id] # None}

Database == INSTANCE FingerDatabase WITH stage <- Stage, templates <- Enrolled

(* The commands change the templates only as FingerDatabase allows, also   *)
(* when answers are lost after the sensor has done what it was told, or    *)
(* come late and are read for the answers to other commands.               *)
DatabaseSpec == Database!DatabaseSpec

(* What the results are worth is promised of a call or an enrollment that  *)
(* is in step: one that found nothing in the serial buffer to read for an  *)
(* answer of its own.  Of any other call nothing is promised.              *)

(* A template is stored only of a finger that was put down for this        *)
(* enrollment twice, with nothing on the glass in between: the two images  *)
(* compared are not one (getFingerprintEnroll, "Remove finger").           *)
TwicePresented ==
    [][pc = "store" /\ flash' # flash /\ inStep' => puts[flash'[IDAddFinger]] = 2]_vars

(* FINGERPRINT_OK of storeModel() and deleteModel() means that the sensor  *)
(* has done it.  (The converse does not hold: a lost answer is an error.)  *)
OkMeansDone ==
    [][inStep' =>
         /\ pc = "store" /\ pc' = "loop" /\ q' = "OK" =>
              flash'[IDAddFinger] = charBuffer[1] /\ charBuffer[1] # None
         /\ \A id \in IDs :
              (\E code \in Codes : DeleteFingerprint(id, code, "OK")) => flash'[id] = None]_vars

MatchReported == pc = "idSearch" /\ pc' = "loop" /\ q' = "OK"

(* The door opens only for a finger that is enrolled: the finger of the    *)
(* latest image, not one whose features an earlier scan left behind.       *)
OpensOnMatch == [][MatchReported /\ inStep' => Holds(image, IDs)]_vars
-----------------------------------------------------------------------------
(* What the repository's own text says and the code does not do.           *)

(* "Project Description.md":13, "When entering the correct fingerprint or  *)
(* password, the door lock will be unlocked": a search that finds nothing  *)
(* was made with a finger that is not enrolled.                            *)
EnrolledRecognised ==
    [][pc = "idSearch" /\ pc' = "loop" /\ q' = "NOTFOUND" /\ inStep' => ~Holds(image, IDs)]_vars

=============================================================================
