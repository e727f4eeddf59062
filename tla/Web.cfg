SPECIFICATION Spec
CONSTANTS
    Clients = {a, b}
    SockBuf = 3
    RioBuf = 2
    MaxLine = 3
    first = a
    second = b
    Scenarios <- TwoClients
CHECK_DEADLOCK FALSE
INVARIANTS
    TypeOK
    DescriptorsGivenBack
    
PROPERTIES
    ImplementsDelivery
    
