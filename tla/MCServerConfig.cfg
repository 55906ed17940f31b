CONSTANTS
    Password = {"pw1", "pw2"}
    AvailSubDicks = {"100", "1000"}
    SubDicks = {"1000", "7"}
    LevelName = {"debug", "loud"}
    LogName = {"ndb.log", "my.log"}

SPECIFICATION CfgSpec

INVARIANTS
    SettingsInForce

PROPERTIES
    CredentialsKept
