CONSTANTS
  Job = {j1, j2}
  Url = {u1, u2}
  Time = {s1, s2, s3}
  NoTime = NoTime
SPECIFICATION LiveSpec
PROPERTIES StartedIffDown OutageStartKept StatusSettles
