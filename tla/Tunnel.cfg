SPECIFICATION Spec
CONSTANTS
    Pool = 3
    Width = 2
    MaxE0 = 3
    MaxConn = 2
INVARIANTS SlotsConserved Confirmed
