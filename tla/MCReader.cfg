CONSTANTS
    Channels <- MCChannels
    Batches <- MCBatches
    ImageList <- MCImageList
    MiddleImage <- MCMiddleImage
    Published <- MCPublished
    Clock <- MCClock
    MaxRows = 2
    OnScreen = 1
    URIs <- MCURIs
    Picture <- MCPicture
    Contents <- MCContents
    ImageDetails <- MCImageDetails
    MaxScreens = 2
SPECIFICATION Spec
INVARIANTS RowsShowNews ImageIsOwn NoImageNoView TimeIsRight
           IndicatorOffWhenIdle BarsMatchTop ImagesAreShown
CHECK_DEADLOCK FALSE
