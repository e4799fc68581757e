CONSTANTS
    Thread = {h1, h2, h3}
    Api = {"both", "standard", "half"}
    Exports <- Libraries
SPECIFICATION Spec
INVARIANTS
    PairFromOneLibrary
    AddressesAreCurrent
PROPERTIES
    EveryLookupEnds
