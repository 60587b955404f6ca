CONSTANTS
    Args <- CommonDates
    StartDates <- Start
    Garbage = {31}
    TicksPerSet = 1
SPECIFICATION Spec
PROPERTIES
    RealDatesAreTaken
