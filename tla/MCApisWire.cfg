SPECIFICATION Spec
CONSTANTS
  Callers = {c1, c2}
  TaskIDs <- MCTaskIDs
  RunIDs <- MCRunIDs
  Token <- MCToken
  StaticToken = ""
  ProviderTokens <- MCProviderTokens
  Calls <- MCCalls
  HandWritten <- MCHandWritten
  PriorTasks <- MCPriorTasks
INVARIANTS
  TypeOK
  HandledAsSent
  AnswersAreUnderstood
  DecodingIsLastOneWins
  AnswersStayTrue
  PollsConcludeRightly
PROPERTY KeepsExchange
CHECK_DEADLOCK FALSE
