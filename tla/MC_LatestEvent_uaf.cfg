\* A reader dereferencing the pointer getLatestEvent returned, while a
\* writer replaces the event.
CONSTANTS
  w1 = w1
  w2 = w2
  r1 = r1
  r2 = r2
  NoThread = NoThread
  Writers <- MCWriters
  Readers <- MCReaders
  MaxWrites = 3

SPECIFICATION Spec

INVARIANT NoUseAfterFree
