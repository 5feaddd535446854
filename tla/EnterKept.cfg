SPECIFICATION Spec
CONSTANTS KB_BUFFER = 1  TabWidth = 2  Chars = {1}  Space = 1  Nul = 0  Used = {1, 2}
PROPERTY EnterKept
