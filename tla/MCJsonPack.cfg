CONSTANTS
  Format <- MCFormat
  Params <- MCParams
SPECIFICATION Spec
INVARIANT TypeOK
INVARIANT PacksTheGrammar
INVARIANT PacksWhatIsSpelled
PROPERTY Returns
