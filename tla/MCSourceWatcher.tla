--------------------------- MODULE MCSourceWatcher --------------------------
(* Contents for model checking SourceWatcher.                              *)
EXTENDS SourceWatcher

Announcement == [says |-> {"required", "positive"}, layout |-> "none"]
Denial == [says |-> {"required", "positive", "suppress"}, layout |-> "none"]
Question == [says |-> {"required", "positive", "question"}, layout |-> "none"]

Rumour == [says |-> {"required", "silent"}, layout |-> "none"]

\* One post of each verdict, and an alert without a sound.
EachVerdict == {Announcement, Rumour, Denial, Question}
Announcements == {Announcement}
AnnouncementsAndDenials == {Announcement, Denial}

\* Where store calls may raise.
InDirectMode == {FALSE} \X {"catchUp", "live"}
InLiveUpdates == {<<TRUE, "live">>}

\* The Bot API with one recipient and text messages to two, or only these.
BothChannels == {"telegram", "sms"}
RecipientsOf == [ch \in BothChannels |-> IF ch = "telegram" THEN 1 ELSE 2]
WithAndWithoutBot == {BothChannels, {"sms"}}
OnlyBot == {{"telegram"}}

=============================================================================
