\* Two tasks append to one file: two writers, two writes.
CONSTANTS
  Task = {1, 2}
  Inodes = {1}
  FileId = {1, 2, 3}
  FirstFd = 1
  FdMax = 3
  OpenAppend = {TRUE}
  MaxWrites = 2
SPECIFICATION OpenSpec
INVARIANT AppendsAll
CHECK_DEADLOCK FALSE
