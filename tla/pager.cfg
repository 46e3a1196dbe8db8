\* two threads read rows from one pager; the device and the mapping may fail
CONSTANTS
  Caller <- TwoCallers
  Sources <- Geometries
  Requests <- RowLists
SPECIFICATION FairSpec
INVARIANTS TypeOK Drained ReadsApart OnlyFaultsThrow
PROPERTIES ReadsRows
