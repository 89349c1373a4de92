CONSTANTS
    Sessions = {s1}
    user = user
    Users <- OneUser
    Names = {s1}
    UserOf <- UserOfAll
    NameOf <- OwnNames
    Calls = {c1, c2, c3}
    LastTry = {c3}
    LastTask = 3
    MaxRetries = 1
    NoOrg = NoOrg
    NoSession = NoSession
SPECIFICATION FairSpec
PROPERTIES
    CallsEnd
    CommittedIsUsable
