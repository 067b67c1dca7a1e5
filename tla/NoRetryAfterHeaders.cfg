\* One GET that may be tried twice.
SPECIFICATION Spec
CONSTANTS
  Requests = {get}
  Idempotent = {get}
  RetryCount = 1
  Capacity = 1
PROPERTY NoRetryAfterHeaders
