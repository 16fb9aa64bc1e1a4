\* Three names, "." and ".." first or interleaved, reply buffers of one or
\* two entries, one handle, opened or rewound twice, failing readdir(3) and
\* do_lookup, and names linked and unlinked between readdirs.
CONSTANTS
    Names <- MCNames
    Handles = {h1}
    Orders <- MCOrders
    MaxBuf = 2
    MaxListings = 2
    IoMayFail = TRUE
    None = None
SPECIFICATION Spec
INVARIANT TypeOK ListingExact LookupBalanced
PROPERTY ListingRefinement
