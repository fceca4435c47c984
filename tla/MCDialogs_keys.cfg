SPECIFICATION Spec
CONSTANTS
    Heights = {8, 9, 12, 15, 17, 19, 21}
    Letters = {"b", "s"}
    Lists <- MCLists
    Scrolls = {0, 2, 3}
    checklist_height = 15
    list_height = 3
    yesno_height = 6
    Lengths = {0, 2, 5}
    MAX_LEN = 6
    box_width = 3
    Texts <- MCTexts
INVARIANTS MenuIsRight ListIsRight InputIsRight TextIsRight
PROPERTIES HotKeySequences KeepsPromises
