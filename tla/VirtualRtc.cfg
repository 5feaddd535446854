\* Requests: refused (1, 3), slower than, equal to and faster than the interrupt
\* (2, 4, 8), beyond the maximum (16), and beyond the word (34).
SPECIFICATION FairSpec
CONSTANTS Rate = 4  MaxFreq = 8  Word = 32  Asked = {1, 2, 3, 4, 8, 16, 34}
          MaxDepth = 2  MaxOpen = 1  Used = {1, 2}
INVARIANTS ClockHasOwner NoDivideByZero WaitsPeriod
PROPERTY ReadReturns
