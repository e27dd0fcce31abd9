--------------------------- MODULE MCWebhookInbox ---------------------------
(* An instance of WebhookInbox for TLC.                                    *)
EXTENDS WebhookInbox

CONSTANTS d1, hubPush, hubFork, giteePush, w1, w2

OneDelivery == {d1}
TwoWorkers == {w1, w2}
Events == {hubPush, hubFork, giteePush}
ForkEvents == {hubFork}
GiteeEvents == {giteePush}
=============================================================================
