-------------------------- MODULE MC_DeliveryRetry --------------------------
(* Small instances of DeliveryRetry for TLC.                               *)
EXTENDS DeliveryRetry, TLC

CONSTANTS i1, hook, chat, page

\* A bot posts to two Slack channels of one integration, which share a delivery
\* key; its answers carry a status, those of the third channel do not.
MCKind == hook :> "slack_bot" @@ chat :> "slack_bot" @@ page :> "pagerduty"

MCKey == hook :> "slack_bot:1" @@ chat :> "slack_bot:1" @@ page :> "pagerduty"

=============================================================================
