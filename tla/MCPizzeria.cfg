\* Three cooks for two places in the oven and on the table, a deliverer and
\* two kinds of pizza, so that an exchange of two pizzas shows.
CONSTANTS
    ArrSize = 2
    Pizzas = {0, 1}
    NoPizza = NoPizza
    Cooks = {c1, c2, c3}
    Deliverers = {d1}
SPECIFICATION Spec
SYMMETRY SameKind
INVARIANTS
    MutualExclusion
    PlacesAreCounted
PROPERTIES
    ImplementsLine
