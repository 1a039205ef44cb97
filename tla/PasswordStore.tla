---------------------------- MODULE PasswordStore ----------------------------
(***************************************************************************)
(* The door password: the global setKeypadPassword of the sketch and its   *)
(* copy in the emulated EEPROM, written by savePassword() and read back by *)
(* getPassword() (save_password.h).                                        *)
(*                                                                         *)
(* The password is kept as four bytes of two decimal digits each.  The     *)
(* four EEPROM.put() calls only fill a RAM buffer; EEPROM.commit() writes  *)
(* the whole buffer to flash or fails.  No later call reads the buffer     *)
(* before filling it again, so the model keeps the flash only.             *)
(***************************************************************************)
EXTENDS Integers

CONSTANTS
    InitialFlash,   \* external: the bytes a new device may hold at address 0
    Passwords       \* the numbers the program may try to save

Bytes == [1..4 -> 0..255]
MAX_PASSWORD == 99999999

ASSUME StoreAssumption ==
    /\ InitialFlash \subseteq Bytes
    /\ Passwords \subseteq Nat

VARIABLES
    setKeypadPassword,  \* the password keypad entries are compared with
    flash,              \* external: the four bytes at PASSWORD_ADDRESS
    confirmed           \* history: the last password the user was told is set

storeVars == <<setKeypadPassword, flash, confirmed>>
-----------------------------------------------------------------------------
(* Variant of Encode: the third byte computed without taking the second    *)
(* pair of digits off.                                                     *)
EncodeKeepsPair(password) ==
    LET d12 == (password \div 1000000) % 256
        d34 == ((password - d12 * 1000000) \div 10000) % 256
        d56 == ((password - d12 * 1000000) \div 100) % 256
        d78 == (password - d12 * 1000000 - d34 * 10000 - d56 * 100) % 256
    IN  <<d12, d34, d56, d78>>

(* savePassword(): two digits per byte; a uint8_t keeps a value mod 256.   *)
Encode(password) ==
    LET d12 == (password \div 1000000) % 256
        d34 == ((password - d12 * 1000000) \div 10000) % 256
        d56 == ((password - d12 * 1000000 - d34 * 10000) \div 100) % 256
        d78 == (password - d12 * 1000000 - d34 * 10000 - d56 * 100) % 256
    IN  <<d12, d34, d56, d78>>

(* getPassword(): any four bytes give a number, digits or not.             *)
Decode(b) == b[1] * 1000000 + b[2] * 10000 + b[3] * 100 + b[4]

StoreTypeOK ==
    /\ setKeypadPassword \in Nat
    /\ flash \in Bytes
    /\ confirmed \in Nat

(* A global of the sketch is 0 until setup() has read the flash.           *)
StoreInit ==
    /\ setKeypadPassword = 0
    /\ flash \in InitialFlash
    /\ confirmed = Decode(flash)

(* setup(): KeypadPasswordDefault, assigned when the global is 0, is       *)
(* overwritten by what the flash holds before anything reads it.           *)
GetPassword ==
    /\ setKeypadPassword' = Decode(flash)
    /\ UNCHANGED <<flash, confirmed>>

(* savePassword() succeeds: it refuses a number above MAX_PASSWORD, and    *)
(* otherwise its result is that of the commit.                             *)
Saved(password, committed) == password <= MAX_PASSWORD /\ committed

(* The end of "change password": the global is set first and stays set     *)
(* when saving fails; only a successful save is announced to the user.     *)
ChangePassword(password, committed) ==
    /\ setKeypadPassword' = password
    /\ IF Saved(password, committed)
       THEN flash' = Encode(password) /\ confirmed' = password
       ELSE UNCHANGED <<flash, confirmed>>

PowerLoss ==
    /\ setKeypadPassword' = 0
    /\ UNCHANGED <<flash, confirmed>>

StoreNext ==
    \/ GetPassword
    \/ PowerLoss
    \/ \E password \in Passwords, committed \in BOOLEAN :
           ChangePassword(password, committed)

StoreSpec == StoreInit /\ [][StoreNext]_storeVars
-----------------------------------------------------------------------------
(* What a reboot will read is the password the user was last told is set:  *)
(* no password goes through the four bytes changed, a failed commit is     *)
(* never announced, and a power loss between any two steps loses nothing   *)
(* announced (save_password.h, and the "Change Password Successful!" path  *)
(* of the sketch).                                                         *)
FlashHoldsConfirmed == Decode(flash) = confirmed

=============================================================================
