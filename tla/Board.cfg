CONSTANTS
    ulReloadCount = 3
    OtherPeriods = {2}
    MaxTime = 10
    Console = console
    Writers = {w}
    Printable = {"a"}
    cmdQUEUE_LENGTH = 2
    cmdMAX_INPUT_SIZE = 2
    MaxKeys = 3
    MaxWrites = 1
    MaxLate = 1
    LCD_X_SIZE = 5
    LCD_Y_SIZE = 6
    NUM_IMAGES = 3
    AlphaLength = 1
    AlphaByte = 8
    ImageAt <- MCImageAt
    IconAt <- MCIconAt
    IconX <- MCIconX
    IconW <- MCIconW
    IconH <- MCIconH
    IconY <- MCIconY
    IconMargin = 4
    BYTE = 3
    REG_HOLDING_NREGS = 3
    READ_MAX = 2
    WRITE_MAX = 2
    READWRITE_MAX = 1
    ClockFields = 2
    RegRequests <- MCRequests
    ADC_WINDOW = 2
    CHANNELS = 1
    TooLow = 100
    TooHigh = 4000
    Levels = {2000, 4095}
SPECIFICATION BoardSpec
CHECK_DEADLOCK FALSE
INVARIANTS
    TypeOK
    ReadingIsTime
    OutputLossIsLate
    CommandIsTyped
    PictureWhole
    NoFalseAlarm
PROPERTIES
    ShowGoesOn
    TextArrives
    ImplementsRegisterFile
