----------------------------- MODULE Notifiers ------------------------------
(***************************************************************************)
(* What may become of an alert that is sent through the enabled channels   *)
(* (notifiers.py): which recipients it reaches, and whether the sender is  *)
(* told that it failed.                                                    *)
(*                                                                         *)
(* A recipient may also be reached and its answer be lost: the request     *)
(* then counts as failed.  Mail goes to all its recipients at once and has *)
(* one here.  The text of an alert and the dry run are left out.           *)
(***************************************************************************)
EXTENDS Naturals

CONSTANTS
  Channels,    \* the channels there are
  Telegram,    \* the one of them that is the Bot API
  Recipients   \* how many recipients each channel has

ASSUME NotifiersAssumption == Recipients \in [Channels -> Nat \ {0}]

EndpointsOf(ch) == {ch} \X (1..Recipients[ch])

Outcome(reached, raises) == [reached |-> reached, raises |-> raises]

\* TelegramBotNotifier.send: every recipient is tried, the send has failed when
\* none of them took it.
TelegramSend ==
  UNION {{Outcome(reached, taken = {}) : taken \in SUBSET reached} :
           reached \in SUBSET EndpointsOf(Telegram)}

\* The other notifiers: one recipient after the other, up to the first failure.
SerialSend(ch) ==
  {Outcome({ch} \X (1..n), TRUE) : n \in 0..Recipients[ch]}
    \union {Outcome(EndpointsOf(ch), FALSE)}

ChannelSend(ch) == IF ch = Telegram THEN TelegramSend ELSE SerialSend(ch)

\* supports_silent.
Eligible(some, silent) == {ch \in some : silent => ch = Telegram}

\* CompositeNotifier.send: a channel that fails does not keep the others from
\* being tried; the alert has failed when all eligible ones have.  Without an
\* eligible channel nothing is sent and nothing has failed.
Sends(some, silent) ==
  LET eligible == Eligible(some, silent)
      each == {o \in [eligible -> UNION {ChannelSend(ch) : ch \in eligible}] :
                 \A ch \in eligible : o[ch] \in ChannelSend(ch)}
  IN {Outcome(UNION {o[ch].reached : ch \in eligible},
              eligible # {} /\ \A ch \in eligible : o[ch].raises) : o \in each}

=============================================================================
