SPECIFICATION Spec
CONSTANTS
    VGATERM_WIDTH = 3
    VGATERM_HEIGHT = 3
    Chars = {"a", "b"}
PROPERTY ImplementsScreen
