--------------------------- MODULE DeliveryOutcome ---------------------------
(***************************************************************************)
(* What a sender of alerting/src/channels reports for what a provider      *)
(* answered, and what the retry policy makes of it.  A SendResult is its   *)
(* success flag and its HTTP status, 0 standing for None: the policy reads *)
(* nothing else.                                                           *)
(***************************************************************************)
EXTENDS Integers

Kinds == {"slack", "slack_bot", "discord", "pagerduty", "webhook", "email"}

\* What happens to one request.  "unusable" is decided before any request: the
\* referenced integration is missing, not active, or has no readable secret.
Responses == {"accepted", "client_error", "rate_limited", "server_error",
              "unreachable", "unusable"}

NoStatus == 0

SendResult == [success : BOOLEAN, status : {NoStatus, 200, 400, 429, 502}]

Ok(status)  == [success |-> TRUE, status |-> status]
Err(status) == [success |-> FALSE, status |-> status]

HttpStatus(resp) == CASE resp = "accepted"     -> 200
                      [] resp = "client_error" -> 400
                      [] resp = "rate_limited" -> 429
                      [] resp = "server_error" -> 502
                      [] OTHER                 -> NoStatus

\* Incoming webhooks, PagerDuty and mail say ok or not, and never the status.
SendPlain(resp) == IF resp = "accepted" THEN Ok(NoStatus) ELSE Err(NoStatus)

\* Discord keeps the status of every answer.
SendDiscord(resp) == IF resp = "accepted" THEN Ok(200) ELSE Err(HttpStatus(resp))

\* Slack's Web API answers a refused message with status 200 and ok = false.
SendSlackBot(resp) == CASE resp = "accepted"     -> Ok(200)
                        [] resp = "client_error" -> Err(200)
                        [] OTHER                 -> Err(HttpStatus(resp))

\* decrypt_integration_secret fails with no status, before any request.
DeliverChannel(kind, resp) ==
    CASE resp = "unusable"   -> Err(NoStatus)
      [] kind = "discord"    -> SendDiscord(resp)
      [] kind = "slack_bot"  -> SendSlackBot(resp)
      [] OTHER               -> SendPlain(resp)

IsRetryable(result) ==
    /\ ~result.success
    /\ \/ result.status = NoStatus
       \/ result.status = 429
       \/ result.status >= 500

MAX_DELIVERY_ATTEMPTS == 3

=============================================================================
