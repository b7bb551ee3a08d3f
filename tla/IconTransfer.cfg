\* Two windows, one HICON and the default one, a small and a large picture, two changes.
SPECIFICATION FairSpec
CONSTANTS
    icon = icon
    photo = photo
    Windows = {w1, w2}
    Handles = {h1}
    Default = Default
    Null = Null
    Images <- MCImages
    PngSize <- MCPngSize
    MaxFileSize = 2
    MaxChanges = 2
INVARIANTS
    TypeOK
    BytesAreThePicture
    RowShowsItsIcon
PROPERTY
    TaskIsSent
