\* Everything the daemon serves, in twos and threes.
SPECIFICATION Spec
CONSTANTS
    Scripts <- SomeScripts
    Places <- SomePlaces
    Shelves <- SomeShelves
    Folders <- SomeFolders
    BuiltinTypes = {"llm", "preview"}
    Reserved = {"llm", "preview", "brain"}
    FolderNames = 4
    MaxMishaps = 2
INVARIANTS
    RegistryIsOneListing
    DeletedIsGone
    CoveredIsServed
    OrderIsFollowed
    WaitIsFresh
PROPERTIES
    OthersKept
    ImplementsShelf
\* The requests of a script come to an end.
CHECK_DEADLOCK FALSE
