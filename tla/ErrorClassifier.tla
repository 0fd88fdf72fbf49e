---------------------------- MODULE ErrorClassifier ----------------------------
(***************************************************************************)
(* lib/error-classifier.js: which failed requests are tried again.  An     *)
(* answer is [status, code]: the HTTP status, or 0 and the code of the     *)
(* axios error when there is no response.                                  *)
(***************************************************************************)
EXTENDS Integers

NoCode == "none"
TimeoutCodes == {"ECONNABORTED", "ETIMEDOUT"}

ERROR_TYPES ==
  {"RATE_LIMITED", "SERVICE_UNAVAILABLE", "TIMEOUT", "NETWORK_ERROR",
   "AUTH_ERROR", "VALIDATION_ERROR", "NOT_FOUND", "CLIENT_ERROR",
   "SERVER_ERROR", "UNKNOWN_ERROR"}

\* A bug to detect: every 4xx but 429 is taken for a passing trouble.
ClassifyLoosely(a) ==
  IF a.status \in {401, 403} THEN "AUTH_ERROR" ELSE "SERVER_ERROR"

\* classifyError(): without a response, and with no status, the request itself
\* failed; an Error the code threw has neither (NoCode).
ClassifyError(a) ==
  CASE a.status = 429               -> "RATE_LIMITED"
    [] a.status \in {502, 503, 504} -> "SERVICE_UNAVAILABLE"
    [] a.status \in {401, 403}      -> "AUTH_ERROR"
    [] a.status \in {400, 422}      -> "VALIDATION_ERROR"
    [] a.status = 404               -> "NOT_FOUND"
    [] a.status \in (400 .. 499) \ {400, 401, 403, 404, 422, 429} -> "CLIENT_ERROR"
    [] a.status \in {500, 501} \cup (505 .. 599) -> "SERVER_ERROR"
    [] a.status = 0 /\ a.code \in TimeoutCodes -> "TIMEOUT"
    [] a.status = 0 /\ a.code \notin TimeoutCodes \cup {NoCode} -> "NETWORK_ERROR"
    [] OTHER -> "UNKNOWN_ERROR"

\* RETRY_STRATEGY[type].maxRetries; 0 where shouldRetry is false.
StrategyRetries ==
  [t \in ERROR_TYPES |->
     CASE t = "RATE_LIMITED"        -> 10
       [] t = "SERVICE_UNAVAILABLE" -> 5
       [] t \in {"TIMEOUT", "NETWORK_ERROR", "SERVER_ERROR"} -> 3
       [] t = "UNKNOWN_ERROR"       -> 2
       [] t = "AUTH_ERROR"          -> 1
       [] OTHER                     -> 0]

\* A bug to detect: the count of the type is not looked at.
ShouldRetryAlways(a, retryCount) == StrategyRetries[ClassifyError(a)] > 0

\* getRetryInfo().shouldRetry
ShouldRetry(a, retryCount) == retryCount < StrategyRetries[ClassifyError(a)]
===============================================================================
