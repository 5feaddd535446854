\* Terminals 1 and 3, so that the store past the end of an array happens.
SPECIFICATION PatientSpec
CONSTANTS KB_BUFFER = 2  TabWidth = 4  Chars = {1, 2}  Space = 1  Nul = 0  Used = {1, 3}
PROPERTY ImplementsLines
