\* Two terminals; a line of one character is filled, overrun by a tab and erased.
SPECIFICATION FairSpec
CONSTANTS KB_BUFFER = 1  TabWidth = 2  Chars = {1}  Space = 1  Nul = 0  Used = {1, 2}
INVARIANTS TypeOK TypingFollowsRead
PROPERTY UserAnswered
