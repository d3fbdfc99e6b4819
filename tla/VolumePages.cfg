CONSTANTS
  PageBits = 22
  RootPages = 1
  ExtPages = 2
  Modulus = 128
  Media <- MCMedia
  Geometries <- MCGeometries
  FlopCylinders = 10
  InstallRoot = 10
  Layouts <- MCLayouts
  Leftovers <- MCLeftovers
  Habits = {"even_size", "eighty_cylinders", "low_partition", "partitions_apart", "one_root"}
SPECIFICATION Spec
INVARIANT
  VolumesSound
