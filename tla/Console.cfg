\* Two rows of four, tabs of two and lines of two: a line with its prompt fills and
\* leaves rows, scrolls, jumps and overruns its buffer.
SPECIFICATION Spec
CONSTANTS NumCols = 4  NumRows = 2  TabWidth = 2  KB_BUFFER = 2  MessageLengths = {4}
          Chars = {"typed", "space"}
INVARIANTS CursorAtPlace NothingAhead EchoMatches
PROPERTY OutputKept
