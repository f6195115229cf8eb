CONSTANTS
    Runners = {r1, r2}
    Profiles = {u1, u2}
    Emails = {a, b}
    NoProfile = NoProfile
    MaxFaults = 1
SPECIFICATION Spec
INVARIANTS RecordedMeansDefined RecordedOnceInOrder EmailsAreUnique
SYMMETRY Symmetry
