\* Two rows to recover and two Artifacts of one of two tenants, one of each on a page;
\* one lane, since every lane has pages and cursors of its own.
SPECIFICATION FairTurns
CONSTANTS
    Sources = {s1, s2}
    BatchSize = 1
    RowCount = 2
    TenantCount = 2
    TenantOf <- FirstTenant
    Lanes = {"pending"}
    Limit = 1
PROPERTIES DueRowsAreReserved EveryRowHasItsTurn
