SPECIFICATION Spec
CONSTANTS
    Devices = {x, y}
    Writers = {x}
    MaxGen = 5
    MaxPend = 1
    MaxFaults = 1
PROPERTIES
    Converges
