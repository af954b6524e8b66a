\* One streaming thread, two application threads setting properties, four frames.
CONSTANTS
    a1 = a1  a2 = a2
    AppThreads <- MCAppThreads
    MaxFacesValues = {1, 8}
    RatioValues = {10, 20}
    MaxFrames = 4
SPECIFICATION Spec
INVARIANT FdFilterConsistent
