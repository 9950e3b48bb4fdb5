\* Structure sizes are scaled down; sixteen 64-bit numbers, three PCI buses.
CONSTANTS
    MadtHeader = 44
    LapicSize = 8
    IoapicSize = 12
    AddressLimit = 8
    MiB = 4
    Devices = 2
    Functions = 2
    Lanes = 2
    HeaderSize = 2
    TensorSize = 2
    STF_MAX_TENSORS = 2
    Word64 = 16
    BlockSize = 2
    VFS_MAX_FILES = 2
    VFS_NAME_MAX = 3
    EhdrSize = 1
    PhdrSize = 1
    StageMax = 4
    MaxArgs = 2
    PointerSize = 2
    StackAlign = 4
    Lines <- MCLines
    StackLow = 1
    StackTop = 27
    Programs <- MCPrograms
    Windows <- MCWindows
    Addresses = {1, 2, 3, 4, 5, 6}
    Firmwares <- MCFirmwares
    Infos <- MCInfos
    Cpus <- MCCpus
    Pcis <- MCPcis
    Products <- MCProducts
    Models <- MCModels
    Tars <- MCTars
SPECIFICATION Spec
INVARIANTS
      CpuAgrees  ProductExact TensorInModule
    VfsExact ArgsExact 
