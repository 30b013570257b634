SPECIFICATION Spec
CONSTANTS
  Graphs <- MCGraphs
  Values = {5, 6, 7}
  Leading <- MCLeading
  Tensors <- MCTensors
  Numels = {1, 3}
  MaxLoaded = 4
INVARIANTS TypeOK LoadsAreAllOrNothing WholeFilesLoad BlobsAreNotMixed
PROPERTIES WholeFilesReturn
CONSTRAINT Bounded
