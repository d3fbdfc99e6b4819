CONSTANTS
  PageBits = 22
  RootPages = 2
  ExtPages = 2
  Modulus = 128
  Media <- MCMedia
  Geometries <- MCGeometries
  FlopCylinders = 10
  InstallRoot = 10
  Layouts <- MCLayouts
  Leftovers <- MCLeftovers
  Habits = {"even_size", "eighty_cylinders", "one_list_of_pages", "low_partition", "partitions_apart", "one_root"}
SPECIFICATION Spec
INVARIANTS
  TypeOK
  VolumesApart
  ReopenFindsVolumes
  VolumesSound
PROPERTIES
  ReadOnlyKeepsImage
