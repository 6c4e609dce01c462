SPECIFICATION Spec
CONSTANTS
    Threads = {t1}
    Threshold = 2
    Cooldown = 3
    Deadline = 2
    Outages = 2
    OddErrors = 0
PROPERTIES
    FailedProbeReopens
