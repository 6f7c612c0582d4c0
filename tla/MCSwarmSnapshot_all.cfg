SPECIFICATION Spec
CONSTANTS
    Task = {t1, t2}
    File = {f, g}
    t1 = t1
    t2 = t2
    f = f
    g = g
    Claims <- ApartAndRivals
    Strays = FALSE
    None = None
INVARIANT DoneIsWhole
PROPERTY FreshKeeps
PROPERTY TestedIsApplied
