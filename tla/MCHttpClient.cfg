CONSTANTS
    Client = {c1}
    Request = {r1, r2}
    Key <- MCKey
    UrlKey = {"a?b", "a%3Fb", "a/b", "%"}
    Pair <- MCPair
    FromUrl <- MCFromUrl
    FromBody <- MCFromBody
    Text = {"t"}
    Blank = ""
    NonString = {"7"}
    Nil = "null"
    Absent = "absent"
    NotFound = "404 page not found"
    Bodies <- MCBodies

SPECIFICATION HSpec

INVARIANTS
    GetAnswersSeen
    SetTookEffect
    DelTookEffect

PROPERTIES
    HttpReturnHolds
    RequestAnswered
