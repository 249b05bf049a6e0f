CONSTANTS
    None = None  Junk = Junk
    Installed = {d}  Personal = {a}  External = {x}
    DefaultProfile = d
    k = k  l = l  e = e  v = v  w = w
    Key = {k}  Shape = {s}  List = {l}  FontSubstitutes = l
    Individual = Individual
    Entry = {e}  Value = {v, w}  Fallback = v
    Factory <- MCFactory
    Originals <- MCOriginals
    HISTORY_LIMIT = 2
    MaxWork = 4
    Main = Main  Tray = {t}
    Pieces = 1
SPECIFICATION Spec
CHECK_DEADLOCK FALSE
INVARIANTS
    RunInvariant
PROPERTIES
    ServiceFollowsTheUser
    EditsAreFaithful
