CONSTANTS
    Streams <- MCStreams
    MaxReads = 2
    RequestLine <- MCRequestLine
    RequestHeaders <- MCRequestHeaders
    Cuts <- MCCuts
    Rooms <- MCRooms
    Sends <- MCSends
SPECIFICATION HandshakeSpec
INVARIANTS WhatArrivedIsThere MessageIsSent OneMessagePerRead KeyIsWhole
PROPERTIES EndIsNoticed
CHECK_DEADLOCK FALSE
