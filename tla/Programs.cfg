\* Two terminals and three processes; three descriptors for programs, and an image
\* without the second file of the fish program, which it has to notice.
SPECIFICATION Spec
CONSTANTS NumPids = 3  NumFds = 5  NameSize = 10
          Directory = {".", "rtc", "frame0.txt"}
          Executables = {"cat", "grep", "ls", "hello", "counter", "testprint", "pingpong",
                         "sigtest", "syserr", "fish", "shell"}
          Commands <- MCCommands  Used = {1, 2}
INVARIANTS ReportsRight SysErrPasses
