-------------------------- MODULE EnrollmentProofs --------------------------
(***************************************************************************)
(* Proofs about the commands to the sensor, for any number of fingers and  *)
(* IDs and any bound on late answers.                                      *)
(***************************************************************************)
EXTENDS Enrollment, SequenceTheorems, TLAPS

USE FingerprintAssumption

EnrollmentIInv ==
    /\ EnrollmentTypeOK
    /\ pc \in Enrolling => IDAddFinger \in IDs

LEMMA EnrollmentInitIInv == EnrollmentInit => EnrollmentIInv
BY DEF EnrollmentInit, SensorInit, EnrollmentIInv, EnrollmentTypeOK, SensorTypeOK, Places,
   Enrolling, Searching, MaybeFinger, Codes

(* Reading one answer for every one that arrives, the buffer never grows   *)
(* past its bound.                                                         *)
LEMMA ExchangeType ==
    ASSUME SensorTypeOK, NEW code \in Codes, NEW got, Exchange(code, got)
    PROVE  /\ answers' \in Seq(Codes)
           /\ Len(answers') <= MaxLate
<1>1. PICK sent \in {<<>>, <<code>>} :
        LET arriving == answers \o sent
        IN  \/ /\ arriving # <<>>
               /\ got = Head(arriving)
               /\ answers' = Tail(arriving)
            \/ /\ got = NoAnswer
               /\ answers' = arriving
               /\ Len(arriving) <= MaxLate
  BY DEF Exchange
<1>2. answers \in Seq(Codes) /\ Len(answers) <= MaxLate /\ MaxLate \in Nat
  BY DEF SensorTypeOK
<1>3. sent \in Seq(Codes) /\ Len(sent) <= 1
  <2>1. CASE sent = <<>>
    BY <2>1, EmptySeq
  <2>2. CASE sent = <<code>>
    BY <2>2
  <2>3. QED
    BY <2>1, <2>2
<1> DEFINE arriving == answers \o sent
<1>4. arriving \in Seq(Codes) /\ Len(arriving) = Len(answers) + Len(sent)
  BY <1>2, <1>3, ConcatProperties
<1> HIDE DEF arriving
<1>5. CASE arriving # <<>> /\ answers' = Tail(arriving)
  <2>1. Tail(arriving) \in Seq(Codes) /\ Len(Tail(arriving)) = Len(arriving) - 1
    BY <1>4, <1>5, HeadTailProperties
  <2>2. Len(answers) \in Nat /\ Len(sent) \in Nat
    BY <1>2, <1>3
  <2>3. QED
    BY <1>2, <1>3, <1>4, <1>5, <2>1, <2>2
<1>6. CASE answers' = arriving /\ Len(arriving) <= MaxLate
  BY <1>4, <1>6
<1>7. QED
  BY <1>1, <1>5, <1>6 DEF arriving

(* No command leaves the sensor with anything but fingers.                 *)
LEMMA CommandTypes ==
    ASSUME SensorTypeOK, UNCHANGED glass, NEW code \in Codes, NEW got, Exchange(code, got),
           \/ GetImage(code) \/ CreateModel(code) \/ EmptyDatabase(code)
           \/ FingerFastSearch(code) \/ VerifyPassword(code) \/ TemplateCount(code)
           \/ \E slot \in 1..2 : Image2Tz(slot, code)
           \/ \E id \in IDs : StoreModel(id, code) \/ DeleteModel(id, code)
    PROVE  SensorTypeOK'
<1> USE DEF SensorTypeOK, Refused, sensorVars
<1>1. /\ answers' \in Seq(Codes)
      /\ Len(answers') <= MaxLate
  BY ExchangeType
<1>2. image' \in MaybeFinger
  BY DEF GetImage, CreateModel, EmptyDatabase, FingerFastSearch, VerifyPassword,
     TemplateCount, Image2Tz,
     StoreModel, DeleteModel
<1>3. charBuffer' \in [1..2 -> MaybeFinger]
  BY DEF GetImage, CreateModel, EmptyDatabase, FingerFastSearch, VerifyPassword,
     TemplateCount, Image2Tz,
     StoreModel, DeleteModel
<1>4. flash' \in [IDs -> MaybeFinger]
  <2>1. charBuffer[1] \in MaybeFinger /\ None \in MaybeFinger
    BY DEF MaybeFinger
  <2>2. QED
    BY <2>1 DEF GetImage, CreateModel, EmptyDatabase, FingerFastSearch, VerifyPassword,
       TemplateCount, Image2Tz, StoreModel, DeleteModel
<1>5. QED
  BY <1>1, <1>2, <1>3, <1>4

(* One answer fewer is a sequence of answers still.                        *)
LEMMA LossType ==
    ASSUME SensorTypeOK, LoseAnswer, UNCHANGED glass
    PROVE  SensorTypeOK'
<1>1. PICK n \in 1..Len(answers) :
        answers' = SubSeq(answers, 1, n - 1) \o SubSeq(answers, n + 1, Len(answers))
  BY DEF LoseAnswer
<1> DEFINE before == SubSeq(answers, 1, n - 1)
           after == SubSeq(answers, n + 1, Len(answers))
<1>2. answers \in Seq(Codes) /\ Len(answers) \in Nat /\ n \in Int
  BY <1>1, LenProperties DEF SensorTypeOK
<1>3. before \in Seq(Codes) /\ Len(before) = n - 1
  <2>1. \A i \in 1..(n - 1) : answers[i] \in Codes
    BY <1>2, SMT
  <2>2. QED
    BY <1>2, <2>1, SubSeqProperties, n - 1 \in Int, SMT
<1>4. after \in Seq(Codes) /\ Len(after) = Len(answers) - n
  <2>1. \A i \in (n + 1)..Len(answers) : answers[i] \in Codes
    BY <1>2, SMT
  <2>2. QED
    BY <1>2, <2>1, SubSeqProperties, n + 1 \in Int, SMT
<1>5. answers' \in Seq(Codes) /\ Len(answers') = Len(answers) - 1
  <2>1. answers' = before \o after
    BY <1>1
  <2> HIDE DEF before, after
  <2>2. before \o after \in Seq(Codes) /\ Len(before \o after) = Len(before) + Len(after)
    BY <1>3, <1>4, ConcatProperties
  <2>3. Len(before) + Len(after) = Len(answers) - 1
    BY <1>2, <1>3, <1>4, SMT
  <2>4. QED
    BY <2>1, <2>2, <2>3
<1>6. Len(answers') <= MaxLate
  BY <1>2, <1>5, FingerprintAssumption, SMT DEF SensorTypeOK
<1>7. QED
  BY <1>5, <1>6 DEF LoseAnswer, SensorTypeOK, sensorVars

LEMMA ReturnsType ==
    ASSUME EnrollmentIInv, NEW code \in Codes, NEW got \in Codes \cup {NoAnswer},
           NEW next \in Places, Returns(code, got, next), SensorTypeOK',
           next \in Enrolling => pc \in Enrolling
    PROVE  EnrollmentIInv'
BY DEF EnrollmentIInv, EnrollmentTypeOK, Returns

LEMMA EnrollmentStepIInv ==
    ASSUME EnrollmentIInv, [EnrollmentNext]_vars
    PROVE  EnrollmentIInv'
<1>1. ASSUME NEW code \in Codes, NEW got \in Codes \cup {NoAnswer},
             \/ Verify(code, got) \/ Count(code, got)
             \/ IdImage(code, got) \/ IdTz(code, got) \/ IdSearch(code, got)
             \/ DeleteAll(code, got)
             \/ \E id \in IDs : DeleteFingerprint(id, code, got)
      PROVE  EnrollmentIInv'
  <2>1. PICK next \in Places \ Enrolling : Returns(code, got, next)
    BY <1>1 DEF Verify, Count, IdImage, IdTz, IdSearch, DeleteAll, DeleteFingerprint, Places,
       Searching, Enrolling
  <2>2. SensorTypeOK'
    BY <1>1, <2>1, CommandTypes DEF Verify, Count, IdImage, IdTz, IdSearch, DeleteAll,
       DeleteFingerprint, Returns, EnrollmentIInv, EnrollmentTypeOK
  <2>3. QED
    BY <2>1, <2>2, ReturnsType
<1>2. ASSUME NEW code \in Codes, NEW got \in Codes \cup {NoAnswer},
             \/ Place(code, got) \/ Tz1(code, got) \/ Lift(code, got)
             \/ Again(code, got) \/ Tz2(code, got) \/ Model(code, got) \/ Store(code, got)
      PROVE  EnrollmentIInv'
  <2>1. PICK next \in Places : Returns(code, got, next)
    BY <1>2 DEF Place, Tz1, Lift, Again, Tz2, Model, Store, Places, Searching, Enrolling
  <2>2. pc \in Enrolling /\ IDAddFinger \in IDs
    BY <1>2 DEF Place, Tz1, Lift, Again, Tz2, Model, Store, Enrolling, EnrollmentIInv
  <2>3. SensorTypeOK'
    BY <1>2, <2>1, <2>2, CommandTypes DEF Place, Tz1, Lift, Again, Tz2, Model, Store, Returns,
       EnrollmentIInv, EnrollmentTypeOK
  <2>4. QED
    BY <2>1, <2>2, <2>3, ReturnsType
<1>3. CASE User
  <2>1. SensorTypeOK'
    BY <1>3 DEF User, LiftFinger, PutFinger, SensorTypeOK, MaybeFinger, linkVars, sensorVars,
       EnrollmentIInv, EnrollmentTypeOK
  <2>2. puts' \in [Fingers -> 0..2]
    BY <1>3 DEF User, LiftFinger, PutFinger, EnrollmentIInv, EnrollmentTypeOK
  <2>3. QED
    BY <1>3, <2>1, <2>2 DEF User, LiftFinger, PutFinger, EnrollmentIInv, EnrollmentTypeOK
<1>4. CASE Reset
  <2>1. SensorTypeOK'
    BY <1>4 DEF Reset, SensorPowerUp, SensorTypeOK, MaybeFinger, EnrollmentIInv, EnrollmentTypeOK
  <2>2. QED
    BY <1>4, <2>1 DEF Reset, EnrollmentIInv, EnrollmentTypeOK, Places, Searching, Enrolling, Codes
<1>5. ASSUME NEW id \in IDs, BeginEnroll(id)
      PROVE  EnrollmentIInv'
  <2>1. SensorTypeOK'
    BY <1>5 DEF BeginEnroll, SensorTypeOK, linkVars, sensorVars, EnrollmentIInv, EnrollmentTypeOK
  <2>2. QED
    BY <1>5, <2>1 DEF BeginEnroll, EnrollmentIInv, EnrollmentTypeOK, Places, Searching, Enrolling,
       IDs
<1>6. CASE UNCHANGED vars
  BY <1>6 DEF vars, linkVars, sensorVars, EnrollmentIInv, EnrollmentTypeOK, SensorTypeOK
<1>7. CASE AnswerLost
  <2>1. SensorTypeOK'
    BY <1>7, LossType DEF AnswerLost, EnrollmentIInv, EnrollmentTypeOK
  <2>2. QED
    BY <1>7, <2>1 DEF AnswerLost, EnrollmentIInv, EnrollmentTypeOK
<1>8. QED
  BY <1>1, <1>2, <1>3, <1>4, <1>5, <1>6, <1>7 DEF EnrollmentNext, Command

(* The buffer of answers keeps its bound, and an enrollment is for an ID   *)
(* that exists.                                                            *)
THEOREM EnrollmentTypes == EnrollmentSpec => []EnrollmentTypeOK
<1>1. EnrollmentInit => EnrollmentIInv
  BY EnrollmentInitIInv
<1>2. EnrollmentIInv /\ [EnrollmentNext]_vars => EnrollmentIInv'
  BY EnrollmentStepIInv
<1>3. EnrollmentIInv => EnrollmentTypeOK
  BY DEF EnrollmentIInv
<1>4. QED
  BY <1>1, <1>2, <1>3, PTL DEF EnrollmentSpec
-----------------------------------------------------------------------------
(* Enrollment implements FingerDatabase.                                   *)
LEMMA InitRefines == EnrollmentInit => Database!DatabaseInit
BY DEF EnrollmentInit, SensorInit, Database!DatabaseInit, Stage, Enrolled, IDs

(* Commands that leave the flash and the stage alone.                      *)
LEMMA SensorRefines ==
    ASSUME flash' = flash, Stage' = Stage, IDAddFinger' = IDAddFinger
    PROVE  UNCHANGED Database!databaseVars
BY DEF Database!databaseVars, Enrolled

LEMMA StepRefines ==
    ASSUME EnrollmentIInv, [EnrollmentNext]_vars
    PROVE  [Database!DatabaseNext]_(Database!databaseVars)
<1> USE DEF Stage, Database!databaseVars
<1>1. ASSUME NEW code \in Codes, NEW got \in Codes \cup {NoAnswer},
             \/ Verify(code, got) \/ Count(code, got)
             \/ IdImage(code, got) \/ IdTz(code, got) \/ IdSearch(code, got)
      PROVE  UNCHANGED Database!databaseVars
  <2>1. flash' = flash /\ IDAddFinger' = IDAddFinger
    BY <1>1 DEF Verify, Count, IdImage, IdTz, IdSearch, Returns, VerifyPassword,
       TemplateCount, GetImage,
       Image2Tz, FingerFastSearch, Refused, sensorVars
  <2>2. Stage' = Stage
    BY <1>1 DEF Verify, Count, IdImage, IdTz, IdSearch, Returns
  <2>3. QED
    BY <2>1, <2>2, SensorRefines
<1>2. ASSUME NEW code \in Codes, NEW got \in Codes \cup {NoAnswer},
             \/ Place(code, got) \/ Tz1(code, got) \/ Lift(code, got)
             \/ Again(code, got) \/ Tz2(code, got) \/ Model(code, got)
      PROVE  [Database!Proceed \/ Database!Fail]_(Database!databaseVars)
  <2>1. flash' = flash /\ Enrolled' = Enrolled /\ IDAddFinger' = IDAddFinger
    BY <1>2 DEF Place, Tz1, Lift, Again, Tz2, Model, Returns, GetImage, Image2Tz, CreateModel,
       Refused, sensorVars, Enrolled
  <2>2. QED
    BY <1>2, <2>1 DEF Place, Tz1, Lift, Again, Tz2, Model, Returns, Database!Proceed, Database!Fail
<1>3. ASSUME NEW code \in Codes, NEW got \in Codes \cup {NoAnswer}, Store(code, got)
      PROVE  Database!Store \/ Database!Fail
  <2>1. pc = "store" /\ pc' = "loop" /\ IDAddFinger' = IDAddFinger /\ IDAddFinger \in IDs
    BY <1>3 DEF Store, Returns, EnrollmentIInv, Enrolling
  <2>2. CASE flash' = flash
    BY <2>1, <2>2 DEF Database!Fail, Enrolled
  <2>3. CASE charBuffer[1] # None /\ flash' = [flash EXCEPT ![IDAddFinger] = charBuffer[1]]
    <3>1. Enrolled' = Enrolled \cup {IDAddFinger}
      BY <2>1, <2>3 DEF Enrolled, EnrollmentIInv, EnrollmentTypeOK, SensorTypeOK
    <3>2. QED
      BY <2>1, <3>1 DEF Database!Store
  <2>4. QED
    BY <1>3, <2>2, <2>3 DEF Store, StoreModel, Refused, sensorVars
<1>4. ASSUME NEW code \in Codes, NEW got \in Codes \cup {NoAnswer},
             DeleteAll(code, got) \/ \E id \in IDs : DeleteFingerprint(id, code, got)
      PROVE  [Database!Delete]_(Database!databaseVars)
  <2>1. pc = "loop" /\ pc' = "loop" /\ IDAddFinger' = IDAddFinger
    BY <1>4 DEF DeleteAll, DeleteFingerprint, Returns
  <2>2. CASE flash' = flash
    BY <2>1, <2>2 DEF Enrolled
  <2>3. ASSUME NEW id \in IDs, flash' = [flash EXCEPT ![id] = None]
        PROVE  Database!Delete
    <3>1. Enrolled' = Enrolled \ {id}
      BY <2>3 DEF Enrolled, EnrollmentIInv, EnrollmentTypeOK, SensorTypeOK
    <3>2. QED
      BY <2>1, <3>1 DEF Database!Delete, IDs
  <2>4. ASSUME flash' = [id \in IDs |-> None]
        PROVE  [Database!Delete]_(Database!databaseVars)
    <3>1. Enrolled' = {}
      BY <2>4 DEF Enrolled
    <3>2. CASE IDs = {}
      BY <2>1, <3>1, <3>2 DEF Enrolled
    <3>3. CASE IDs # {}
      BY <2>1, <3>1, <3>3 DEF Database!Delete, IDs
    <3>4. QED
      BY <3>2, <3>3
  <2>5. QED
    BY <1>4, <2>2, <2>3, <2>4 DEF DeleteAll, DeleteFingerprint, EmptyDatabase, DeleteModel,
       Refused, sensorVars
<1>5. CASE User
  <2>1. flash' = flash /\ pc' = pc /\ IDAddFinger' = IDAddFinger
    BY <1>5 DEF User, LiftFinger, PutFinger, linkVars, sensorVars
  <2>2. QED
    BY <2>1, SensorRefines
<1>6. ASSUME Reset
      PROVE  Database!DatabaseReset
  <2>1. flash' = flash /\ pc' = "setup" /\ IDAddFinger' = 0
    BY <1>6 DEF Reset, SensorPowerUp
  <2>2. Enrolled' = Enrolled /\ Stage' = "none"
    BY <2>1 DEF Enrolled
  <2>3. QED
    BY <2>1, <2>2 DEF Database!DatabaseReset
<1>7. ASSUME NEW id \in IDs, BeginEnroll(id)
      PROVE  Database!Begin
  BY <1>7 DEF BeginEnroll, linkVars, sensorVars, Database!Begin, Enrolled, IDs
<1>8. CASE UNCHANGED vars
  BY <1>8 DEF vars, linkVars, sensorVars, Enrolled
<1>9. CASE AnswerLost
  BY <1>9, SensorRefines DEF AnswerLost, LoseAnswer, sensorVars
<1>10. QED
  BY <1>1, <1>2, <1>3, <1>4, <1>5, <1>6, <1>7, <1>8, <1>9
     DEF EnrollmentNext, Command, Database!DatabaseNext

(* Whatever answers are lost or late, the templates change only by an      *)
(* enrollment that went through its stages, and by deletions.              *)
THEOREM EnrollmentImplementsDatabase == EnrollmentSpec => DatabaseSpec
<1>1. EnrollmentInit => EnrollmentIInv /\ Database!DatabaseInit
  BY EnrollmentInitIInv, InitRefines
<1>2. EnrollmentIInv /\ [EnrollmentNext]_vars => EnrollmentIInv'
  BY EnrollmentStepIInv
<1>3. EnrollmentIInv /\ [EnrollmentNext]_vars => [Database!DatabaseNext]_(Database!databaseVars)
  BY StepRefines
<1>4. QED
  BY <1>1, <1>2, <1>3, PTL DEF EnrollmentSpec, DatabaseSpec, Database!DatabaseSpec

-----------------------------------------------------------------------------
(* While a call is in step, its results are those of its own commands.     *)
(* What makes the theorems inductive is which finger each buffer holds at  *)
(* each command, and how often that finger was put down.                   *)
PutTwice(f) == puts[f] = 2

Ordered ==
    /\ pc \in Enrolling /\ glass # None => puts[glass] >= 1
    /\ pc = "tz1" => image \in Fingers /\ puts[image] >= 1
    /\ pc \in {"lift", "again", "tz2", "model", "store"} =>
         charBuffer[1] \in Fingers /\ puts[charBuffer[1]] >= 1
    /\ pc = "again" /\ glass = charBuffer[1] => PutTwice(charBuffer[1])
    /\ pc = "tz2" /\ image = charBuffer[1] => PutTwice(charBuffer[1])
    /\ pc = "model" /\ charBuffer[2] = charBuffer[1] => PutTwice(charBuffer[1])
    /\ pc = "store" => PutTwice(charBuffer[1])
    /\ pc = "idSearch" => charBuffer[1] = image

OrderIInv == EnrollmentIInv /\ (inStep => Ordered)

(* With nothing else in the buffer, an answer is the answer to the command *)
(* just sent.                                                              *)
LEMMA OwnAnswer ==
    ASSUME answers = <<>>, NEW code \in Codes, NEW got, Exchange(code, got)
    PROVE  got \in {code, NoAnswer}
<1>1. PICK sent \in {<<>>, <<code>>} :
        LET arriving == answers \o sent
        IN  \/ arriving # <<>> /\ got = Head(arriving)
            \/ got = NoAnswer
  BY DEF Exchange
<1>2. answers \o <<>> = <<>> /\ answers \o <<code>> = <<code>>
  BY EmptySeq, ConcatEmptySeq
<1>3. Head(<<code>>) = code
  OBVIOUS
<1>4. QED
  BY <1>1, <1>2, <1>3

LEMMA InStepReturns ==
    ASSUME OrderIInv, NEW code \in Codes, NEW got, NEW next, Returns(code, got, next), inStep'
    PROVE  /\ got \in {code, NoAnswer} /\ pc' = next /\ q' = got
           /\ glass' = glass /\ puts' = puts /\ IDAddFinger' = IDAddFinger
           /\ pc # "loop" => Ordered
<1>1. answers = <<>> /\ (pc = "loop" \/ inStep)
  BY DEF Returns
<1>2. QED
  BY <1>1, OwnAnswer DEF Returns, OrderIInv

LEMMA OrderInit == EnrollmentInit => OrderIInv
BY EnrollmentInitIInv DEF EnrollmentInit, SensorInit, OrderIInv, Ordered, Enrolling

LEMMA OrderStep ==
    ASSUME OrderIInv, [EnrollmentNext]_vars
    PROVE  OrderIInv'
<1> SUFFICES ASSUME inStep' PROVE Ordered'
  BY EnrollmentStepIInv DEF OrderIInv
<1> USE DEF PutTwice
<1>1. EnrollmentIInv
  BY DEF OrderIInv
<1>2. ASSUME NEW code \in Codes, NEW got \in Codes \cup {NoAnswer},
             \/ Verify(code, got) \/ Count(code, got)
             \/ IdImage(code, got) \/ IdSearch(code, got)
             \/ DeleteAll(code, got)
             \/ \E id \in IDs : DeleteFingerprint(id, code, got)
      PROVE  Ordered'
  <2>1. pc' \in {"count", "halt", "loop", "idTz"}
    BY InStepReturns, <1>2 DEF Verify, Count, IdImage, IdSearch, DeleteAll, DeleteFingerprint
  <2>2. QED
    BY <2>1 DEF Ordered, Enrolling
<1>3. ASSUME NEW code \in Codes, NEW got \in Codes \cup {NoAnswer}, IdTz(code, got)
      PROVE  Ordered'
  <2>1. /\ pc' \in {"idSearch", "loop"}
        /\ pc' = "idSearch" => code = "OK"
    BY InStepReturns, <1>3 DEF IdTz, NoAnswer
  <2>2. code = "OK" => charBuffer'[1] = image'
    BY <1>3, <1>1 DEF IdTz, Image2Tz, Refused, EnrollmentIInv, EnrollmentTypeOK, SensorTypeOK
  <2>3. QED
    BY <2>1, <2>2 DEF Ordered, Enrolling
<1>4. ASSUME NEW code \in Codes, NEW got \in Codes \cup {NoAnswer}, Place(code, got)
      PROVE  Ordered'
  <2>1. /\ glass' = glass /\ puts' = puts /\ Ordered
        /\ pc' \in {"tz1", "place"} /\ pc = "place"
        /\ pc' = "tz1" => code = "OK"
    BY InStepReturns, <1>4 DEF Place, NoAnswer
  <2>2. code = "OK" => image' = glass /\ glass \in Fingers
    BY <1>4, <1>1 DEF Place, GetImage, Refused, EnrollmentIInv, EnrollmentTypeOK, SensorTypeOK,
       MaybeFinger
  <2>3. QED
    BY <2>1, <2>2 DEF Ordered, Enrolling
<1>5. ASSUME NEW code \in Codes, NEW got \in Codes \cup {NoAnswer}, Tz1(code, got)
      PROVE  Ordered'
  <2>1. /\ glass' = glass /\ puts' = puts /\ Ordered
        /\ pc' \in {"lift", "loop"} /\ pc = "tz1"
        /\ pc' = "lift" => code = "OK"
    BY InStepReturns, <1>5 DEF Tz1, NoAnswer
  <2>2. code = "OK" => charBuffer'[1] = image
    BY <1>5, <1>1 DEF Tz1, Image2Tz, Refused, EnrollmentIInv, EnrollmentTypeOK, SensorTypeOK
  <2>3. QED
    BY <2>1, <2>2 DEF Ordered, Enrolling
<1>6. ASSUME NEW code \in Codes, NEW got \in Codes \cup {NoAnswer}, Lift(code, got)
      PROVE  Ordered'
  <2>1. /\ glass' = glass /\ puts' = puts /\ Ordered
        /\ pc' \in {"again", "lift"} /\ pc = "lift"
        /\ pc' = "again" => code = "NOFINGER"
    BY InStepReturns, <1>6 DEF Lift, NoAnswer
  <2>2. /\ charBuffer' = charBuffer
        /\ code = "NOFINGER" => glass = None
    BY <1>6, <1>1 DEF Lift, GetImage, Refused, sensorVars
  <2>3. QED
    BY <2>1, <2>2 DEF Ordered, Enrolling
<1>7. ASSUME NEW code \in Codes, NEW got \in Codes \cup {NoAnswer}, Again(code, got)
      PROVE  Ordered'
  <2>1. /\ glass' = glass /\ puts' = puts /\ Ordered
        /\ pc' \in {"tz2", "again"} /\ pc = "again"
        /\ pc' = "tz2" => code = "OK"
    BY InStepReturns, <1>7 DEF Again, NoAnswer
  <2>2. /\ charBuffer' = charBuffer
        /\ code = "OK" => image' = glass
    BY <1>7, <1>1 DEF Again, GetImage, Refused, sensorVars
  <2>3. QED
    BY <2>1, <2>2 DEF Ordered, Enrolling
<1>8. ASSUME NEW code \in Codes, NEW got \in Codes \cup {NoAnswer}, Tz2(code, got)
      PROVE  Ordered'
  <2>1. /\ glass' = glass /\ puts' = puts /\ Ordered
        /\ pc' \in {"model", "loop"} /\ pc = "tz2"
        /\ pc' = "model" => code = "OK"
    BY InStepReturns, <1>8 DEF Tz2, NoAnswer
  <2>2. code = "OK" => charBuffer'[2] = image /\ charBuffer'[1] = charBuffer[1]
    BY <1>8, <1>1 DEF Tz2, Image2Tz, Refused, EnrollmentIInv, EnrollmentTypeOK, SensorTypeOK
  <2>3. QED
    BY <2>1, <2>2 DEF Ordered, Enrolling
<1>9. ASSUME NEW code \in Codes, NEW got \in Codes \cup {NoAnswer}, Model(code, got)
      PROVE  Ordered'
  <2>1. /\ glass' = glass /\ puts' = puts /\ Ordered
        /\ pc' \in {"store", "loop"} /\ pc = "model"
        /\ pc' = "store" => code = "OK"
    BY InStepReturns, <1>9 DEF Model, NoAnswer
  <2>2. /\ charBuffer' = charBuffer
        /\ code = "OK" => charBuffer[1] = charBuffer[2]
    BY <1>9, <1>1 DEF Model, CreateModel, Refused, sensorVars
  <2>3. QED
    BY <2>1, <2>2 DEF Ordered, Enrolling
<1>10. ASSUME NEW code \in Codes, NEW got \in Codes \cup {NoAnswer}, Store(code, got)
       PROVE  Ordered'
  BY InStepReturns, <1>10 DEF Store, Ordered, Enrolling
<1>11. CASE LiftFinger
  <2>1. Ordered
    BY <1>11 DEF LiftFinger, OrderIInv
  <2>2. Fingers \cap {None} = {}
    BY FingerprintAssumption
  <2>3. QED
    BY <1>11, <2>1, <2>2 DEF LiftFinger, linkVars, sensorVars, Ordered, Enrolling
<1>12. ASSUME NEW f \in Fingers, PutFinger(f)
       PROVE  Ordered'
  <2>1. /\ glass' = f /\ pc' = pc /\ Ordered
        /\ image' = image /\ charBuffer' = charBuffer
    BY <1>12 DEF PutFinger, linkVars, sensorVars, OrderIInv
  <2>2. puts \in [Fingers -> 0..2] /\ puts' \in [Fingers -> 0..2]
    BY <1>1, EnrollmentStepIInv DEF EnrollmentIInv, EnrollmentTypeOK
  <2>3. /\ \A g \in Fingers : puts'[g] >= puts[g]
        /\ pc \in Enrolling => puts'[f] >= 1
        /\ pc \in Enrolling /\ puts[f] >= 1 => puts'[f] = 2
    BY <1>12, <2>2 DEF PutFinger
  <2>4. \A g \in Fingers : puts[g] = 2 => puts'[g] = 2
    BY <2>2, <2>3
  <2>5. QED
    BY <2>1, <2>2, <2>3, <2>4 DEF Ordered, Enrolling
<1>13. CASE Reset
  BY <1>13 DEF Reset, SensorPowerUp, Ordered, Enrolling
<1>14. ASSUME NEW id \in IDs, BeginEnroll(id)
       PROVE  Ordered'
  <2>1. glass \in MaybeFinger
    BY <1>1 DEF EnrollmentIInv, EnrollmentTypeOK, SensorTypeOK
  <2>2. QED
    BY <1>14, <2>1 DEF BeginEnroll, MaybeFinger, linkVars, sensorVars, Ordered, Enrolling
<1>15. CASE UNCHANGED vars
  BY <1>15 DEF vars, linkVars, sensorVars, OrderIInv, Ordered
<1>16. CASE AnswerLost
  BY <1>16 DEF AnswerLost, LoseAnswer, sensorVars, OrderIInv, Ordered
<1>17. QED
  BY <1>2, <1>3, <1>4, <1>5, <1>6, <1>7, <1>8, <1>9, <1>10, <1>11, <1>12, <1>13, <1>14, <1>15,
     <1>16 DEF EnrollmentNext, Command, User

(* What a returned result says about the command it was returned for.      *)
LEMMA StoreResult ==
    ASSUME OrderIInv, [EnrollmentNext]_vars, inStep', pc = "store",
           \/ flash' # flash
           \/ pc' = "loop" /\ q' = "OK"
    PROVE  /\ pc' = "loop" /\ IDAddFinger \in IDs /\ IDAddFinger' = IDAddFinger
           /\ charBuffer' = charBuffer /\ charBuffer[1] \in Fingers
           /\ flash' = [flash EXCEPT ![IDAddFinger] = charBuffer[1]]
           /\ flash'[IDAddFinger] = charBuffer[1]
           /\ PutTwice(charBuffer[1]) /\ puts' = puts
<1>1. PICK code \in Codes, got \in Codes \cup {NoAnswer} : Store(code, got)
  <2>1. ~Reset /\ ~User /\ ~AnswerLost /\ ~UNCHANGED vars
    BY DEF Reset, SensorPowerUp, User, LiftFinger, PutFinger, AnswerLost, LoseAnswer, vars,
       linkVars, sensorVars
  <2>2. \A id \in IDs : ~BeginEnroll(id)
    BY DEF BeginEnroll
  <2>3. QED
    BY <2>1, <2>2 DEF EnrollmentNext, Command, Verify, Count, IdImage, IdTz, IdSearch, Place, Tz1,
       Lift, Again, Tz2, Model, DeleteFingerprint, DeleteAll
<1>2. /\ got \in {code, NoAnswer} /\ pc' = "loop" /\ q' = got
      /\ IDAddFinger' = IDAddFinger /\ puts' = puts /\ Ordered
  BY <1>1, InStepReturns DEF Store
<1>3. IDAddFinger \in IDs /\ charBuffer[1] \in Fingers /\ PutTwice(charBuffer[1])
  BY <1>2 DEF OrderIInv, EnrollmentIInv, Ordered, Enrolling
<1>4. code = "OK"
  BY <1>1, <1>2 DEF Store, StoreModel, Refused, sensorVars, NoAnswer
<1>5. charBuffer' = charBuffer /\ flash' = [flash EXCEPT ![IDAddFinger] = charBuffer[1]]
  BY <1>1, <1>4 DEF Store, StoreModel, Refused
<1>6. QED
  BY <1>2, <1>3, <1>5 DEF OrderIInv, EnrollmentIInv, EnrollmentTypeOK, SensorTypeOK

(* A template is stored only of a finger that was put down twice.          *)
THEOREM EnrollmentTwice == EnrollmentSpec => TwicePresented
<1>1. EnrollmentInit => OrderIInv
  BY OrderInit
<1>2. OrderIInv /\ [EnrollmentNext]_vars => OrderIInv'
  BY OrderStep
<1>3. OrderIInv /\ [EnrollmentNext]_vars =>
        [pc = "store" /\ flash' # flash /\ inStep' => puts[flash'[IDAddFinger]] = 2]_vars
  BY StoreResult DEF PutTwice
<1>4. QED
  BY <1>1, <1>2, <1>3, PTL DEF EnrollmentSpec, TwicePresented

(* FINGERPRINT_OK means that the sensor has stored, or has deleted.        *)
THEOREM EnrollmentOkMeansDone == EnrollmentSpec => OkMeansDone
<1> DEFINE Done ==
        inStep' =>
          /\ pc = "store" /\ pc' = "loop" /\ q' = "OK" =>
               flash'[IDAddFinger] = charBuffer[1] /\ charBuffer[1] # None
          /\ \A id \in IDs :
               (\E code \in Codes : DeleteFingerprint(id, code, "OK")) => flash'[id] = None
<1>1. EnrollmentInit => OrderIInv
  BY OrderInit
<1>2. OrderIInv /\ [EnrollmentNext]_vars => OrderIInv'
  BY OrderStep
<1>3. ASSUME OrderIInv, [EnrollmentNext]_vars
      PROVE  Done
  <2>1. ASSUME NEW id \in IDs, NEW code \in Codes, DeleteFingerprint(id, code, "OK"), inStep'
        PROVE  flash'[id] = None
    <3>1. "OK" \in {code, NoAnswer}
      BY <1>3, <2>1, InStepReturns DEF DeleteFingerprint
    <3>2. flash' = [flash EXCEPT ![id] = None]
      BY <2>1, <3>1 DEF DeleteFingerprint, DeleteModel, Refused, NoAnswer
    <3>3. QED
      BY <1>3, <3>2 DEF OrderIInv, EnrollmentIInv, EnrollmentTypeOK, SensorTypeOK
  <2>2. QED
    BY <1>3, <2>1, StoreResult, FingerprintAssumption
<1>4. OrderIInv /\ [EnrollmentNext]_vars => [Done]_vars
  BY <1>3
<1>5. QED
  BY <1>1, <1>2, <1>4, PTL DEF EnrollmentSpec, OkMeansDone

(* The door opens only on a finger that is enrolled.                       *)
THEOREM EnrollmentOpensOnMatch == EnrollmentSpec => OpensOnMatch
<1>1. EnrollmentInit => OrderIInv
  BY OrderInit
<1>2. OrderIInv /\ [EnrollmentNext]_vars => OrderIInv'
  BY OrderStep
<1>3. ASSUME OrderIInv, [EnrollmentNext]_vars, MatchReported, inStep'
      PROVE  Holds(image, IDs)
  <2>1. PICK code \in Codes, got \in Codes \cup {NoAnswer} : IdSearch(code, got)
    <3>1. ~Reset /\ ~User /\ ~AnswerLost /\ ~UNCHANGED vars
      BY <1>3 DEF MatchReported, Reset, User, LiftFinger, PutFinger, AnswerLost, vars
    <3>2. \A id \in IDs : ~BeginEnroll(id)
      BY <1>3 DEF MatchReported, BeginEnroll
    <3>3. QED
      BY <1>3, <3>1, <3>2 DEF MatchReported, EnrollmentNext, Command, Verify, Count, IdImage, IdTz,
         Place, Tz1, Lift, Again, Tz2, Model, Store, DeleteFingerprint, DeleteAll
  <2>2. code = "OK"
    BY <1>3, <2>1, InStepReturns DEF IdSearch, MatchReported, NoAnswer
  <2>3. Holds(charBuffer[1], 0..(SEARCH_PAGES - 1))
    BY <2>1, <2>2 DEF IdSearch, FingerFastSearch
  <2>4. charBuffer[1] = image
    BY <1>3, <2>1, InStepReturns DEF IdSearch, MatchReported, Ordered
  <2>5. QED
    BY <2>3, <2>4 DEF Holds
<1>4. OrderIInv /\ [EnrollmentNext]_vars => [MatchReported /\ inStep' => Holds(image, IDs)]_vars
  BY <1>3
<1>5. QED
  BY <1>1, <1>2, <1>4, PTL DEF EnrollmentSpec, OpensOnMatch

=============================================================================
