------------------------ MODULE MCWebhookLifecycle ------------------------
(* Instances of WebhookLifecycle for TLC: ids are model values, callers of *)
(* persist are strings.                                                    *)
EXTENDS WebhookLifecycle

CONSTANTS w1, w2

TwoIds == {w1, w2}
TwoCleaners == {"cleanup1", "cleanup2"}
OneCleaner == {"cleanup1"}
=============================================================================
