SPECIFICATION CatalogSpec
CONSTANTS
    Devices = {d1, d2}
    Images = {i1, i2}
    Nothing = Nothing
    MaxEntries = 3
    MaxFailures = 2
INVARIANTS RowsAreTrue
PROPERTIES RemountKeepsImage RemountIsAdopted AllocationFinishes
