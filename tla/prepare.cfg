\* One task directory under run after run, killed, edited and re-released upstream.
SPECIFICATION FairPrepareSpec
CONSTANTS
    a1 = a1
    c1 = c1
    c2 = c2
    m1 = m1
    m2 = m2
    None = None
    Torn = Torn
    Assets = {a1}
    Contents = {c1, c2}
    HasCommands = {c1}
    Metas = {m1, m2}
    Declaring = {m2}
    Specs <- AllSpecs
    PlainBinary = FALSE
    MaxChanges = 2
    MaxKills = 2
INVARIANTS
    ReadyIsDeclared
    ReadyIsCurrent
PROPERTIES
    Recovers
