CONSTANTS
    a = a  d = d  inD = inD
    Path = {a, d, inD}  NoPath = NoPath  In <- MCIn
    Byte = {4}  Contents <- MCContents
    MaxLen = 4  BufferLen = 2  MaxFd = 3  Fault = {"fs"}
SPECIFICATION FairSpec
PROPERTIES CopiesAll ImplementsFs KeepsNoDescriptor CopyReturns
