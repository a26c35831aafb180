CONSTANTS
    Devices = {d1, d2}
    Zones <- ZonesDef
    Skew = 1
    MaxNow = 122
    Byte = {0, 1}
    KeyLen = 1
    SidMin = 1
    SidMax = 2
    Tokens <- TokensDef
    Numerals <- NumeralsDef
    Value <- ValueDef
    Invitations <- InvitationsDef
    NoLink = NoLink
SPECIFICATION PairingSpec
CHECK_DEADLOCK FALSE
INVARIANTS
    AgreeMidHour
    AtMostOneApart
    StrangersApart
    RoundTrip
