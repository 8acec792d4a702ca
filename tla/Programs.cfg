SPECIFICATION ProgramsSpec
CONSTANTS
    p1 = p1
    p2 = p2
    Pids = {p1, p2}
    Names = {"game.exe", "Game.exe", "chrome.exe"}
    Key <- MCKey
    Spared = {"chrome.exe"}
    Visits = {1, 2}
    Browser <- MCBrowser
    MaxApps = 2
    MaxPages = 1
    Plays <- MCPlays
    DayLength = 3
    LastDay = 1
    WarnAt = {1, 2}
SYMMETRY Symmetry
INVARIANTS
    TimeIsNotInvented
    WrittenOnce
    
