SPECIFICATION MCSpec
CONSTANTS
    Time <- MCTime
    Payload = {a, b}
    MaxEvents = 4
    MaxHandler = 2
    a = a
    b = b
PROPERTIES
    ImplementsAgenda
CHECK_DEADLOCK FALSE
