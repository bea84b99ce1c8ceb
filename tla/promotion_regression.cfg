SPECIFICATION PromSpec
CONSTANTS
  MaxCommits = 5
  Branch = {"main", "dev"}
  HasKey = {FALSE}
  Main = "main"
  Content = {"a"}
  Metric = {1, 2, 3}
  Policy <- PolicyDef
PROPERTY NoRegressionLands
CHECK_DEADLOCK FALSE
