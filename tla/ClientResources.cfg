\* Tasks a, b are futures and c a blocking closure; two waiters, so that one can be
\* cancelled and the other take over; three runs over two starts.
SPECIFICATION AnySpec
CONSTANTS
  Task = {"a", "b", "c"}
  Blocking = {"c"}
  Waiter = {"w1", "w2"}
  MaxRunner = 3
  MaxStart = 2
INVARIANTS
  StopIsComplete
  OutcomesAreTrue
  BuffersAreAccountedFor
  GenerationsAreKeptApart
PROPERTY RunnersAreFenced
\* Finished groups, closed pumps and used-up runners stop.
CHECK_DEADLOCK FALSE
