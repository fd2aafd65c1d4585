SPECIFICATION Spec
CONSTANTS
    KicadCheck = 2
    MaxResident = 2
    Rooms = {0, 3, 5}
INVARIANT ChecksRunInside
