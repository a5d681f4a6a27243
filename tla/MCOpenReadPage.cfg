CONSTANTS
  o1 = o1  o2 = o2  o3 = o3  o4 = o4  p1 = p1  p2 = p2  p3 = p3  q1 = q1  q2 = q2  s1 = s1
  l1 = l1  l2 = l2  l3 = l3  l4 = l4  l5 = l5  k1 = k1  k2 = k2  k3 = k3  m1 = m1
  old1 = old1  old2 = old2  stub = stub  r1 = r1  r2 = r2  r3 = r3  r4 = r4
  NoFile = NoFile
  N_R_THREADS = 2
  Commands <- PageCommand
  Disk <- AllFiles
SPECIFICATION Spec
PROPERTIES
  ReadsInOrder
CHECK_DEADLOCK FALSE
