SPECIFICATION Spec
CONSTANTS
    here = here  there = there
    a = a  b = b  z = z
    Clients = {c1, c2}
    Tellers = {}
    Projects = {here, there}
    Keys = {a, z}
    ProjectOf <- MCProjectOf
    Slices = {edits}
    Scopable = {}
    AlwaysPresent = {edits}
    BootView = {here}
    MaxChanges = 2
    MaxWire = 2
SYMMETRY Windows
INVARIANTS
    ViewsAreComplete
    OnlyUnannouncedKeysLinger
