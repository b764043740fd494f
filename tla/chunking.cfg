\* Texts of up to 6 characters of every kind, with every setting.
SPECIFICATION Spec
CONSTANTS
    Letter = Letter
    Blank = Blank
    LineFeed = LineFeed
    OtherBreak = OtherBreak
    Declaration = Declaration
    MaxLength = 6
    Texts <- MCTexts
    Settings <- MCSettings
CHECK_DEADLOCK FALSE
INVARIANTS OnlyScrapsLost WithinLimit PathIsAncestry 
PROPERTY Advances
