\* Five of the coupling messages, and two objects at a time.
SPECIFICATION Spec
CONSTANTS
    CouplingMessage = CouplingMessage
    ConnectRequest = ConnectRequest
    CouplingResponse = CouplingResponse
    HandshakeResponse = HandshakeResponse
    ConnectResponse = ConnectResponse
    Root = Root
    Classes = {Root, CouplingMessage, ConnectRequest, CouplingResponse, HandshakeResponse, ConnectResponse}
    Lineage <- MCLineage
    Heirs = {CouplingMessage, ConnectRequest, HandshakeResponse, ConnectResponse}
    Declaring = {CouplingMessage, ConnectRequest, CouplingResponse, ConnectResponse}
    Fixed = {CouplingMessage}
    Preset <- MCPreset
    Objects = {1, 2}
    Values = {0, 1}
    Zero = 0
INVARIANTS
    OwnFields
    ReadsBack
CHECK_DEADLOCK FALSE
