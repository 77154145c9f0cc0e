\* Both ends of check_all, as committed and as lines 279-283 expect it, so that
\* the loop has turns after a ping; the first exchange has no key.
SPECIFICATION FairSpec
CONSTANTS
    Width = 3
    Timeout = 2
    PingEvery = 2
    NumCex = 2
    Keys = {2}
    GroupEnds = {"raises", "read"}
INVARIANTS TypeOK EveryKeyAsked
PROPERTIES AlarmMeansSilence EmergencyCompletes StallCaught
