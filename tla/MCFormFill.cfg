\* The cached data source and the form that reads it.
SPECIFICATION Spec
CONSTANTS
    Slot = {"s1", "s2"}
    NoSlot = "noSlot"
    Offered <- MCOffered
    Blank = "blank"
    MaxVersion = 3
    MaxHurt = 1
PROPERTIES
    NeverGoesBack
    OptionsKeepTheChoice
    EveryReadSettles
