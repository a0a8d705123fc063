SPECIFICATION FairSpec
CONSTANTS
    MaxServers = 3
    MaxLines = 1
 
PROPERTIES
    StartsEmpty
    StartSucceeds
