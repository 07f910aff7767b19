CONSTANTS
    Units = 1
    logon_timeout = 3
    logout_timeout = 2
    StoreFails = FALSE
    OutOfOrder = FALSE
    SendsInLogout = FALSE
SPECIFICATION ClocksSpec
INVARIANTS NoSpin WindowsHonoured NumbersAreCurrent
PROPERTIES GivenUpIsSilent FaultyStillNotices NoResetWithin
