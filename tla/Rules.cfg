\* All pairs of texts of up to four characters, tasks of up to three model calls
\* of every kind.
CONSTANTS
  MaxText = 4
  Texts <- MCTexts
  Letters <- MCLetters
  Blank <- MCBlank
  MaxCalls = 3
  Guesses = {5}
  Configs <- MCConfigs
  Raws <- MCRaws
  Times <- MCTimes
SPECIFICATION Spec
INVARIANTS ComparesWhatIsPrinted BillsEveryCall
CHECK_DEADLOCK FALSE
