\* Two texts and two cursor positions tell any two pages apart.
SPECIFICATION Spec
CONSTANTS Texts = {0, 1}  Cursors = {0, 1}  Blank = 0  Home = 0
INVARIANTS MappingOK UserMappingOK
PROPERTIES ImplementsLogicalScreens CursorFollows
