SPECIFICATION BannerSpec
CONSTANTS
    MaxBlocks = 1
    MaxContainers = 2
    MaxLoads = 1
PROPERTY ClosesToBanner
CHECK_DEADLOCK FALSE
