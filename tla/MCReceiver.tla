----------------------------- MODULE MCReceiver -----------------------------
EXTENDS Receiver

mcMailboxes == {<<"plain", "room", "plain">>, <<"control", "plain", "blocked">>}
=============================================================================
