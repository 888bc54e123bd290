\* Every history of one file of each kind, beside one that nobody touched.
SPECIFICATION Spec
CONSTANTS
  Paths <- MCPaths
  Tests = {"x_test"}
  Testdata = {"testdata"}
  Skipped = {"vendor"}
  Spaced = {"my file"}
  Scope = {"legacy", "plain", "my file", "x_test", "testdata", "vendor"}
  Metrics <- MCMetrics
  Minor <- MCMinor
  Major <- MCMajor
  Repos <- MCRepos
  Requests <- MCRequests
INVARIANTS
  TypeOK
  PassMeansNoWorse
  FailMeansWorse
  FullScanFindsAll
