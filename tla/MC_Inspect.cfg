SPECIFICATION PairSpec
CONSTANTS
    Places <- MCPlaces
    Listing <- MCListing
    Patterns = 12
    Hits <- MCHits
    Paths <- MCPaths
    MeshPaths <- MCMeshPaths
    NoPath = NoPath
    Gone = Gone
    Unreadable = Unreadable
    Replacements <- MCReplacements
    Sizes <- MCSizes
    MaxReplaced = 1
INVARIANTS
    PairTypeOK
    FirstOfferLeads
    PairedThenDrawn
    
