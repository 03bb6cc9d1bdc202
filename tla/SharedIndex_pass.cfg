SPECIFICATION Spec
CONSTANTS
  d1 = d1  d2 = d2
  cards = cards  states = states
  ga = ga  gb = gb  gc = gc
  Devices = {d1, d2}
  Layouts = {cards}
  Groups = {ga, gb}
  LayoutOf <- MCLayoutOf
  NoDevice = NoDevice
  MaxWrites = 2
  MaxGen = 3
  MaxLegacy = 1
  MaxFaults = 1
  MaxPasses = 2
SYMMETRY MCSymmetry
INVARIANT ReadersHonest
PROPERTY PublicationsGrow
CHECK_DEADLOCK FALSE
