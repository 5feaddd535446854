\* Two terminals; a command with arguments, and the shell that the timer starts.
SPECIFICATION Spec
CONSTANTS NumPids = 3  NumFds = 5  NameSize = 10
          Directory = {".", "rtc", "frame0.txt"}
          Executables = {"cat", "shell"}
          Commands <- MCCommands  Used = {1, 2}
INVARIANT ArgsKept
