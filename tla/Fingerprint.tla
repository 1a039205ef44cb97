----------------------------- MODULE Fingerprint -----------------------------
(***************************************************************************)
(* The sensor as the Adafruit_Fingerprint library drives it.  A command    *)
(* writes one packet and reads one answer, giving up after one second.     *)
(* Nothing in an answer says which command it belongs to, and the library  *)
(* does not empty the serial buffer before it writes: an answer that comes *)
(* after its command was given up is what the next command reads.          *)
(*                                                                         *)
(* The sensor is external: two character buffers in RAM, templates in      *)
(* flash, commands that it may refuse or fail.  An answer is only the code *)
(* in its first byte.                                                      *)
(***************************************************************************)
EXTENDS Integers, Sequences, FiniteSets

CONSTANTS
    Fingers,        \* the fingers put on the sensor
    None,           \* no finger, no template
    MAX_ID,         \* the last fingerprint ID allowed (230)
    SEARCH_PAGES,   \* the pages fingerFastSearch() searches (0x00A3)
    MaxLate         \* bound: answers that are late at the same time

ASSUME FingerprintAssumption ==
    /\ None \notin Fingers
    /\ MAX_ID \in Nat
    /\ SEARCH_PAGES \in Nat
    /\ MaxLate \in Nat

VARIABLES
    glass,      \* external: the finger on the sensor
    image,      \* external: the image buffer
    charBuffer, \* external: what the two character buffers were made from
    flash,      \* external: the template under each ID
    answers     \* answers not read yet, those under way included

sensorVars == <<image, charBuffer, flash>>
linkVars == <<sensorVars, answers>>

MaybeFinger == Fingers \cup {None}
IDs == 1..MAX_ID

(* FINGERPRINT_OK, _NOFINGER, _NOTFOUND; any other refusal of the sensor;  *)
(* and _PACKETRECIEVEERR, which the library returns for no usable answer.  *)
Codes == {"OK", "NOFINGER", "NOTFOUND", "REFUSED"}
NoAnswer == "PACKETRECIEVEERR"

SensorTypeOK ==
    /\ glass \in MaybeFinger
    /\ image \in MaybeFinger
    /\ charBuffer \in [1..2 -> MaybeFinger]
    /\ flash \in [IDs -> MaybeFinger]
    /\ answers \in Seq(Codes)
    /\ Len(answers) <= MaxLate

SensorInit ==
    /\ glass = None
    /\ image = None
    /\ charBuffer = [b \in 1..2 |-> None]
    /\ flash \in [IDs -> MaybeFinger]
    /\ answers = <<>>
-----------------------------------------------------------------------------
(* Variant of Exchange: an answer that was read stays in the buffer.       *)
ExchangeKeepsAnswer(code, got) ==
    \E sent \in {<<>>, <<code>>} :
        LET arriving == answers \o sent
        IN  /\ answers' = arriving
            /\ \/ arriving # <<>> /\ got = Head(arriving)
               \/ got = NoAnswer /\ Len(arriving) <= MaxLate

(* Variant of Exchange: the first byte is looked at, answer or none.       *)
ExchangeUnchecked(code, got) ==
    \E sent \in {<<>>, <<code>>} :
        LET arriving == answers \o sent
        IN  \/ /\ arriving # <<>>
               /\ got = Head(arriving)
               /\ answers' = Tail(arriving)
            \/ /\ got = "OK"
               /\ answers' = arriving
               /\ Len(arriving) <= MaxLate

(* writeStructuredPacket() and getStructuredPacket() around a command the  *)
(* sensor answers with code: the caller gets the first answer in the       *)
(* buffer, or none in time.  The answer may be lost, or come too late.     *)
Exchange(code, got) ==
    \E sent \in {<<>>, <<code>>} :
        LET arriving == answers \o sent
        IN  \/ /\ arriving # <<>>
               /\ got = Head(arriving)
               /\ answers' = Tail(arriving)
            \/ /\ got = NoAnswer
               /\ answers' = arriving
               /\ Len(arriving) <= MaxLate

(* An answer on its way, to a command already given up, is lost.           *)
LoseAnswer ==
    /\ \E n \in 1..Len(answers) :
           answers' = SubSeq(answers, 1, n - 1) \o SubSeq(answers, n + 1, Len(answers))
    /\ UNCHANGED sensorVars

(* A command the sensor refuses, or never receives: its answer is then     *)
(* among those lost.                                                       *)
Refused(code) == code = "REFUSED" /\ UNCHANGED sensorVars
-----------------------------------------------------------------------------
(* The commands: what the sensor does, and the code it answers.            *)
GetImage(code) ==
    \/ Refused(code)
    \/ code = "NOFINGER" /\ glass = None /\ UNCHANGED sensorVars
    \/ /\ code = "OK" /\ glass # None
       /\ image' = glass
       /\ UNCHANGED <<charBuffer, flash>>

Image2Tz(slot, code) ==
    \/ Refused(code)
    \/ /\ code = "OK" /\ image # None
       /\ charBuffer' = [charBuffer EXCEPT ![slot] = image]
       /\ UNCHANGED <<image, flash>>

(* Both buffers then hold the model; prints of two fingers do not match.   *)
CreateModel(code) ==
    \/ Refused(code)
    \/ /\ code = "OK" /\ charBuffer[1] = charBuffer[2] /\ charBuffer[1] # None
       /\ UNCHANGED sensorVars

(* storeModel() always names buffer 1.                                     *)
StoreModel(id, code) ==
    \/ Refused(code)
    \/ /\ code = "OK" /\ charBuffer[1] # None
       /\ flash' = [flash EXCEPT ![id] = charBuffer[1]]
       /\ UNCHANGED <<image, charBuffer>>

DeleteModel(id, code) ==
    \/ Refused(code)
    \/ /\ code = "OK"
       /\ flash' = [flash EXCEPT ![id] = None]
       /\ UNCHANGED <<image, charBuffer>>

EmptyDatabase(code) ==
    \/ Refused(code)
    \/ /\ code = "OK"
       /\ flash' = [id \in IDs |-> None]
       /\ UNCHANGED <<image, charBuffer>>

Holds(finger, pages) == \E id \in IDs \cap pages : flash[id] = finger

(* Of the pages, the search covers only the first SEARCH_PAGES.            *)
FingerFastSearch(code) ==
    LET found == charBuffer[1] # None /\ Holds(charBuffer[1], 0..(SEARCH_PAGES - 1))
    IN  /\ code \in {"REFUSED", IF found THEN "OK" ELSE "NOTFOUND"}
        /\ UNCHANGED sensorVars

VerifyPassword(code) == code \in {"OK", "REFUSED"} /\ UNCHANGED sensorVars

TemplateCount(code) == code \in {"OK", "REFUSED"} /\ UNCHANGED sensorVars

(* Power is lost or the board is reset: the serial buffer is lost, the     *)
(* sensor keeps its flash and, on the same power, may lose its RAM.        *)
SensorPowerUp ==
    /\ \/ UNCHANGED <<image, charBuffer>>
       \/ image' = None /\ charBuffer' = [b \in 1..2 |-> None]
    /\ answers' = <<>>
    /\ UNCHANGED flash

=============================================================================
