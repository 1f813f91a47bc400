SPECIFICATION FairSpec
CONSTANT N = 3
INVARIANT TypeOK
PROPERTIES Dispatches FairShare DownIsDropped
