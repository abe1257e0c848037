\* Each start of a search begins two generations, a cancellation one: two
\* searches, the second replacing the first, or one and its cancellation and
\* another.
CONSTANTS
  MaxGenerations = 5
  Limit = 2
  Jobs <- MCJobs
SPECIFICATION Spec
INVARIANTS TypeOK PendingIsCurrent NoPartialResultListed CancelMeansRunning
            ClosedIsQuiet
PROPERTIES ListsCurrentResult SearchConcludes
\* The window closes.
CHECK_DEADLOCK FALSE
