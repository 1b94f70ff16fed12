SPECIFICATION FairSettingsSpec
CONSTANTS
    Readers = {r1, tick}
    Sweeper = tick
    Savers = {a1, a2}
    MaxVersion = 2
    NoSite = NoSite
    Defaults = Defaults
    Keys = {title, password}
    Password = password
    Installed = Installed
    NoKey = NoKey
    title = title
    password = password
    r1 = r1
    tick = tick
    a1 = a1
    a2 = a2
INVARIANTS FreshAfterSave SweepsBySavedSettings SavesAreWhole
PROPERTIES ImplementsSiteService EverySaveEnds
