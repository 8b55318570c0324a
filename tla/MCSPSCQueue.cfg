CONSTANTS
    a = a
    b = b
    Item = {a, b}
    NoItem = NoItem
    capacity = 4
SPECIFICATION QFairSpec
INVARIANTS ViewsInOrder NoSlotRace
PROPERTIES ImplementsFIFO QueueDrains
