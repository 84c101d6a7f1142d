SPECIFICATION FairSpec
CONSTANTS
  Fns = {f, g}
  Ivals = {0, 1, 3}
  Modulus = 4
  MaxAdds = 2
  Throwers = {g}
INVARIANTS TypeOK  ReadyMeansIdle BusyMeansRunning
PROPERTY CalledAgain
