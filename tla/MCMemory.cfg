SPECIFICATION Spec
CONSTANTS
  minheap = 8
  maxheap = 64
  UINT = 128
  Sizes = {1, 12, 24}
INVARIANTS TypeOK Partition
