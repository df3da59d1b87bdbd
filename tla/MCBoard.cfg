CONSTANTS
    Addresses <- MCAddresses
    NoPinmux <- MCNoPinmux
    Page <- MCPage
    Claimed <- MCClaimed
    GpioCases <- MCGpioCases
    MaxMoves = 2
    Before <- MCBefore
    DogCases <- MCDogCases
    DefaultPing = 1
    XmCases <- MCXmCases
    SofiaWait = 2
    DownCount = 4
SPECIFICATION BoardSpec
INVARIANTS WindowSound PinsRight DogMinded ErasesSafely
PROPERTIES OthersKept ScanNotices
