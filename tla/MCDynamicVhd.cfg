SPECIFICATION Spec
CONSTANTS
  BlockSize = 2
  BitmapSize = 1
  MaxEntries = 3
  BatOffset = 1
  HeaderEnd = 2
  SwappedSize = 5
  MaxLength = 3
  MaxOffset = 8
  zero = zero
  one = one
  Val = {zero, one}
  Zero = zero
  Junk = Junk
  Unused = Unused
INVARIANTS
  TypeOK
  BlocksApart
  FooterRecoverable
  DriverKnowsFooter
PROPERTY ImplementsFlatDisk
