CONSTANTS
    MaxDwells = 2
    FftSize = 2
    DopplerStep = 2000
    ConfigDopplerMin <- MCConfigDopplerMin
    ConfigDopplerMax <- MCConfigDopplerMax
    ThresholdNum = 1
    ThresholdDen = 1
    Energies <- MCEnergies
    Powers <- MCPowers
    AssistRecords <- MCAssistRecords
    NoAssist = NoAssist
    MonitorOutput = TRUE
    ZeroDivisionTraps = TRUE
    DopplerStepUnsigned = TRUE
    SamplesPerMs = 2
    InputCounts = {8, 9}

SPECIFICATION StopSpec


INVARIANT OneEventPerActivation
