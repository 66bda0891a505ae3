\* Posts arrive and the hot list is replaced while a reader walks the pages.
SPECIFICATION Spec
CONSTANTS
    Keep = 10
    MaxInbox = 10
    HotPosts = {4, 101, 102}
    MaxHot = 2
    Gone = {2}
    PageSizes <- SomeSizes
    MaxArrivals = 2
    MaxFaults = 2
INVARIANTS TypeOK InboxComplete PagesEnd SlotRatio
