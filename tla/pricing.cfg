\* Amounts small enough that most taxes are fractions of a cent, rounded both ways.
CONSTANTS
    Items = {x1}
    NoItem = NoItem
    Prices = {1, 4, 11}
    Quantities = {1, 3}
    Cats = {"A", "B", "E"}
    MaxLines = 2
    MaxEdits = 1
SPECIFICATION Spec
INVARIANTS TaxAsDocumented WireAddsUp
CHECK_DEADLOCK FALSE
