CONSTANTS
    InitialFlash <- FactoryFlash
    Passwords <- SomePasswords
SPECIFICATION StoreSpec
INVARIANTS FlashHoldsConfirmed
