\* Overlapping retries on node's EventEmitter; overlapping calls and a queue on RabbitMQ.
SPECIFICATION KindSpec
CONSTANTS
  Events = {e1}
  once = once
  never = never
  twice = twice
  Handlers = {once, twice, never}
  Retries <- HandlerRetries
  Runs = {r1, r2}
  None = None
  Messages = {e1, e2}
  Names = {name}
  NameOf <- OneName
  Consumers = {all, one}
  Universal = {all}
  Subject <- OneSubject
  MaxLosses = 1
CHECK_DEADLOCK FALSE
INVARIANTS
  ChannelsAreKept
PROPERTIES
  ImplementsDelivery
  EventsAreHandledInTheEnd
