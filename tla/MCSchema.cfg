SPECIFICATION FairSpec
CONSTANTS
    Procs = {crawler, api, seed}
    Migrations <- MCMigrations
INVARIANTS
    TypeOK
    ReadySeesSchema
    NothingStranded
PROPERTIES
    RestartsConverge
