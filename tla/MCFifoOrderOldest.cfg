SPECIFICATION Spec
CONSTANTS
    DateValues = {1, 2}
    OrderValues = {0, 1}
    Instants = {5, 900, 1003}
INVARIANT OldestFirst
