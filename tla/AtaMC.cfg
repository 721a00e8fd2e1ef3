SPECIFICATION Spec
CONSTANTS
    DRIVES = 2
    LBAS = 4
    SECTORS = 2
    Lbas = {1, 4}
    Nums = {0, 1, 2}
PROPERTIES ReadSound OnlyAddressed ProbeSound CallsReturn
