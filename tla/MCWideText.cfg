CONSTANTS
    Channels <- MCChannels
    Batches <- MCBatches
    ImageList <- MCImageList
    MiddleImage <- MCMiddleImage
    Published <- MCPublished
    Clock <- MCClock
    MaxRows = 2
    OnScreen = 1
    URIs <- MCURIs
    Picture <- MCPicture
    Contents <- MCWideContents
    ImageDetails <- MCImageDetails
    MaxScreens = 1
SPECIFICATION Spec
INVARIANT ImagesAreShown
CHECK_DEADLOCK FALSE
