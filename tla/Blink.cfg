\* Two rows of three places of which the text has two; three slots.
SPECIFICATION Spec
CONSTANTS NumSlots = 3  NumPlaces = 5  Columns = 3  Offset = 1  FrameLength = 1  Word = 4  LocationWord = 7
          Chars = {" ", "n", "x", "I", "M"}  Space = " "  NL = "n"  Texts <- MCTexts  Added <- MCAdded  Asked = {1, 2, 4}
INVARIANTS ListHoldsUsed FramesAgree DrawnAsMarked
PROPERTY ImplementsBlinkers
