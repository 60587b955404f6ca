CONSTANTS
    Temps <- TheTemps
    Hums = {45}
SPECIFICATION ClimateSpec
PROPERTIES
    MissingSensorIsReported
