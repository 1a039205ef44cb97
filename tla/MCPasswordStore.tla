-------------------------- MODULE MCPasswordStore --------------------------
(***************************************************************************)
(* Constants for checking PasswordStore: every way a pair of digits can    *)
(* carry into the next, and numbers one past what the program accepts.     *)
(***************************************************************************)
EXTENDS PasswordStore, TLC

(* Erased flash reads 0xFF; the other device already holds 88888888.       *)
FactoryFlash == {<<255, 255, 255, 255>>, <<88, 88, 88, 88>>}

SomePasswords ==
    {0, 1, 9, 10, 99, 100, 101, 9999, 10000, 10001, 999999, 1000000, 1000001,
     12345678, 88888888, 90909090, 99999998, 99999999, 100000000, 257575755}

=============================================================================
