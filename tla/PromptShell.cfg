SPECIFICATION Spec
CONSTANTS
    Char = {"a"}
    Layout <- SmallLayout
    Held <- Presses
    BufLen = 3
    Columns = 2
    RingLen = 3
    Zero = "zero"
    Blank = "blank"
    Stale = "stale"
INVARIANTS TypeOK PromptShown NoAutoRepeat
PROPERTIES EditsPrompt
