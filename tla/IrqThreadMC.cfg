CONSTANTS
  Line = {i1, i2, i3}
  Threaded = {i1, i2}
  MaxCount = 3
SPECIFICATION FairSpec
INVARIANTS TypeOK OneTokenPerMask
PROPERTIES RaisedServiced
