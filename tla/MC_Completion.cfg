SPECIFICATION FairSpec
CONSTANTS
  git = git
  ls = ls
  mv = mv
  s1 = s1
  s2 = s2
  Command <- MCCommand
  Script <- MCScript
  Text <- MCText
  NoText = ""
  Candidate <- MCCandidate
  Builtins <- MCBuiltins
  OnPath <- MCOnPath
  Begins <- MCBegins
  Outputs <- MCOutputs
  MaxCompletions = 2
INVARIANTS TypeOK RegistryIsMap
PROPERTIES OffersWhatWasPrinted FirstWordIsComplete CompletionEnds
