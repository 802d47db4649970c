CONSTANTS
    Commands <- MCCommands
    Files <- MCFiles
SPECIFICATION Spec
INVARIANTS HonestExit StreamsClosedOnce LastReadingWins
