CONSTANTS
    h1 = h1
    h2 = h2
    h3 = h3
    Partner <- Callers
    Host = {h1, h2, h3}
    Null = Null
    Devices <- OneLoudspeaker
    MaxPosted <- TwoTalkers
    MaxBuffered <- OneListener
    MaxNet <- OneListener
    MaxClock = 2
    MaxSkew = 1
SPECIFICATION FairSoundSpec
INVARIANTS
    SoundTypeOK
    SilenceIsBounded
PROPERTIES
    SentInItsCall
    HeardInOrder
    TalkerIsHeard
