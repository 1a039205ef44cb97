--------------------------- MODULE FingerDatabase ---------------------------
(***************************************************************************)
(* What the rest of the lock may rely on of the stored fingers: the IDs    *)
(* that hold a template change only by an enrollment that went through its *)
(* three stages for the ID it was begun with, or by a deletion made while  *)
(* no enrollment is under way.  SmartLock keeps to it with its prompts,    *)
(* Enrollment with the commands it sends to the sensor.                    *)
(***************************************************************************)
EXTENDS Integers

CONSTANT MAX_ID     \* the last fingerprint ID allowed

VARIABLES
    stage,          \* of the enrollment: "none", "place", "lift" or "again"
    IDAddFinger,    \* the ID it is for; outside an enrollment it says nothing
    templates       \* the IDs that hold a template

databaseVars == <<stage, IDAddFinger, templates>>

DatabaseInit ==
    /\ stage = "none"
    /\ IDAddFinger = 0
    /\ templates \subseteq 1..MAX_ID

(* A number that begins no enrollment is entered for an ID.                *)
Refuse ==
    /\ stage = "none"
    /\ IDAddFinger' \in Nat
    /\ UNCHANGED <<stage, templates>>

Begin ==
    /\ stage = "none"
    /\ stage' = "place"
    /\ IDAddFinger' \in 1..MAX_ID
    /\ UNCHANGED templates

(* A finger was put down and its image taken; it was lifted again.         *)
Proceed ==
    /\ \/ stage = "place" /\ stage' = "lift"
       \/ stage = "lift" /\ stage' = "again"
    /\ UNCHANGED <<IDAddFinger, templates>>

Fail ==
    /\ stage \in {"place", "again"}
    /\ stage' = "none"
    /\ UNCHANGED <<IDAddFinger, templates>>

(* The last stage may store the template and still fail, when only the     *)
(* answer of the sensor is lost.                                           *)
Store ==
    /\ stage = "again"
    /\ stage' = "none"
    /\ templates' = templates \cup {IDAddFinger}
    /\ UNCHANGED IDAddFinger

Delete ==
    /\ stage = "none"
    /\ \E id \in 1..MAX_ID : templates' \in {templates \ {id}, {}}
    /\ UNCHANGED <<stage, IDAddFinger>>

DatabaseReset ==
    /\ stage' = "none"
    /\ IDAddFinger' = 0
    /\ UNCHANGED templates

DatabaseNext == Refuse \/ Begin \/ Proceed \/ Fail \/ Store \/ Delete \/ DatabaseReset

DatabaseSpec == DatabaseInit /\ [][DatabaseNext]_databaseVars

=============================================================================
