SPECIFICATION Spec
CONSTANTS
    Requests <- MCRequests
    Malformed = Malformed
    Replies <- MCReplies
    MaxRequests = 3
    MaxMessages = 2
INVARIANTS FramingExact 
