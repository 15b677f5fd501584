\* The four slots of the browser host; every environment.
CONSTANTS
    Slots = {s1, s2, s3, s4}
    Overrides = {"renamed"}
    Storages = {"filesystem"}
    Unset = Unset
    NotUnicode = NotUnicode
SPECIFICATION FairSpec
INVARIANTS
    TypeOK
    OneCatalogName
    NameStays
    StorageSelected
PROPERTIES
    SlotServed
