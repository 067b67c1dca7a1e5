\* A GET with the default number of retries and a POST share a bulkhead for one request.
\* Tokens lack a subject, or roles that are a list.
SPECIFICATION FairGatewaySpec
CONSTANTS
  Requests = {get1, post1}
  Idempotent = {get1}
  RetryCount = 3
  Capacity = 1
  Claims = {{"x-user-id"}, {"x-user-roles"}}
INVARIANTS TypeOK EdgeTypeOK NonIdempotentOnce RefusedIsOver DoneMeansAnswered TrustedIdentity
PROPERTIES AnswerIsFinal AttemptsDescend ImplementsProxy HandlerEnds
