SPECIFICATION Spec
CONSTANTS
    here = here  there = there
    a = a  b = b  z = z
    Clients = {c1, c2}
    Tellers = {c1, c2}
    Projects = {here}
    Keys = {a, b}
    ProjectOf <- MCProjectOf
    Slices = {goals}
    Scopable = {goals}
    AlwaysPresent = {}
    BootView = {here}
    MaxChanges = 2
    MaxWire = 2
SYMMETRY Windows
INVARIANTS
    ViewsAreComplete
PROPERTIES
    ViewsNeverGoBack
    LiveValuesStay
