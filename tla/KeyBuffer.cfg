SPECIFICATION Spec
CONSTANTS
    KB_BUFSIZE = 4
    Texts <- SomeTexts
    Keycodes <- OneKeycode
PROPERTIES
    QuitComesFirst
    KeysInOrder
    ImplementsDeque
VIEW Seen
