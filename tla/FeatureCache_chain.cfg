SPECIFICATION Spec
CONSTANTS
  LastEpisode = 2
  Hidden = {2}
  Features = {f1, f2}
  Commands = {"global", "spatial", "combined", "rebound", "visible", "rebound-visible"}
  Procs = {p1, p2}
  MaxCommands = 4
  MaxFaults = 1
SYMMETRY Symmetry
INVARIANTS TypeOK ManifestIsTrue Provenance RaceHasWinner
CHECK_DEADLOCK FALSE
