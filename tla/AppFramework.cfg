\* Two instances, two service objects that may replace each other or be shared,
\* two methods, two clients of one instance, backend calls that fail anywhere.
SPECIFICATION Spec
CONSTANTS
    Instance = {"i1", "i2"}
    Service = {s1, s2}
    Methods = 2
    Client = {c1, c2}
    ClientOf <- MCClientOf
    None = None
    MayFail = TRUE
SYMMETRY MCObjects
INVARIANTS TypeOK TableAgrees NoDangling
