SPECIFICATION MCSpec
CONSTANTS
    Watchers = {w1, w2}
    MaxLogged = 3
    MaxTyped = 2
    MaxNotes = 1
    MaxBreaks = 2
    MaxBeats = 1
    MaxMessages = 2
    Oldest = 2
    None = None
INVARIANTS OutputArrives CommitsKnown PinsFollow HistoryMoves
CHECK_DEADLOCK FALSE
SYMMETRY WatchersAlike
