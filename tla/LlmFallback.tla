----------------------------- MODULE LlmFallback ----------------------------
(***************************************************************************)
(* One call of FallbackLlmClient.complete (llm.py): the providers in their *)
(* order, each with its urls, each request with one more attempt after     *)
(* HTTP 429.  The call runs in a thread of its own; who makes it is said   *)
(* by the modules that extend this one.  The providers are external: a     *)
(* request is answered with                                                *)
(*   text      an answer                                                   *)
(*   thoughts  a reasoning trace and nothing behind it                     *)
(*   empty     JSON without an answer                                      *)
(*   busy      HTTP 429                                                    *)
(*   error     HTTP 400..., a timeout, no connection, no JSON, no API key  *)
(*   cut       something whose exception is neither LlmProviderError nor   *)
(*             OSError nor ValueError: a body that ends too early, JSON of *)
(*             another shape                                               *)
(***************************************************************************)
EXTENDS Naturals, Sequences, SequencesExt

CONSTANTS
  Configured,  \* names of the providers that are switched on
  Order,       \* LLM_PROVIDER_ORDER
  FedoraUrls   \* number of base urls of the provider "fedora"

Known == <<"fedora", "nvidia", "ollama_cloud", "ollama">>
Replies == {"text", "thoughts", "empty", "busy", "error", "cut"}

ASSUME FallbackAssumption ==
  /\ Configured \subseteq Range(Known) /\ Configured # {}
  /\ Order \in Seq(STRING)
  /\ FedoraUrls \in Nat \ {0}

VARIABLES
  at,       \* number of the provider that is asked, 0 when no call is under way
  url,      \* number of its url
  attempt,  \* attempt of _request_json at that url
  outcome,  \* "none", or how the call has ended: "text", "failed", "escaped"
  asked     \* history variable: providers asked in this call

callVars == <<at, url, attempt, outcome, asked>>

AddOnce(list, name) ==
  IF name \in Configured /\ name \notin Range(list) THEN Append(list, name) ELSE list

\* build_llm_client: the order, then whatever else is configured.
Preference == Order \o Known
ListedUpTo[n \in 0..Len(Preference)] ==
  IF n = 0 THEN << >> ELSE AddOnce(ListedUpTo[n - 1], Preference[n])

\* Mutant: providers that the order does not name are left out.
ProvidersListed == ListedUpTo[Len(Order)]

Providers == ListedUpTo[Len(Preference)]

UrlsOf(name) == IF name = "fedora" THEN FedoraUrls ELSE 1

InitCall == at = 0 /\ url = 0 /\ attempt = 0 /\ outcome = "none" /\ asked = {}

NoCall == at' = 0 /\ url' = 0 /\ attempt' = 0 /\ outcome' = "none" /\ asked' = {}

BeginCall ==
  at' = 1 /\ url' = 1 /\ attempt' = 1 /\ outcome' = "none" /\ asked' = {Providers[1]}

Calling == at # 0

EndCall(how) == at' = 0 /\ url' = 0 /\ attempt' = 0 /\ outcome' = how /\ UNCHANGED asked

\* Mutant: the last provider is taken for one with another behind it.
NextProviderUnchecked ==
  /\ at' = at + 1 /\ url' = 1 /\ attempt' = 1
  /\ outcome' = outcome
  /\ asked' = asked \union {Providers[Len(Providers)]}

\* The provider raises one of the expected exceptions.
NextProvider ==
  IF at < Len(Providers)
  THEN /\ at' = at + 1 /\ url' = 1 /\ attempt' = 1
       /\ asked' = asked \union {Providers[at + 1]}
       /\ UNCHANGED outcome
  ELSE EndCall("failed")

\* HTTP 429 at the first attempt: once more.
Retry == attempt' = 2 /\ UNCHANGED <<at, url, outcome, asked>>

\* FedoraLlmProvider.complete swallows every exception, strips the trace and
\* goes through its urls.
FedoraReply(r) ==
  IF r = "text" THEN EndCall("text")
  ELSE IF url < FedoraUrls
  THEN url' = url + 1 /\ attempt' = 1 /\ UNCHANGED <<at, outcome, asked>>
  ELSE NextProvider

\* OllamaProvider.complete and NvidiaNimProvider.complete.
PlainReply(r) ==
  \/ r \in {"text", "thoughts"} /\ EndCall("text")
  \/ r \in {"empty", "busy", "error"} /\ NextProvider
  \/ r = "cut" /\ EndCall("escaped")

Reply(r) ==
  /\ Calling
  /\ IF r = "busy" /\ attempt = 1 THEN Retry
     ELSE IF Providers[at] = "fedora" THEN FedoraReply(r)
     ELSE PlainReply(r)

-----------------------------------------------------------------------------
CallTypeOK ==
  /\ at \in 0..Len(Providers)
  /\ IF Calling THEN url \in 1..UrlsOf(Providers[at]) /\ attempt \in 1..2
     ELSE url = 0 /\ attempt = 0
  /\ outcome \in {"none", "text", "failed", "escaped"} /\ (Calling => outcome = "none")
  /\ asked \subseteq Configured

\* A call that ends with "all configured providers failed" (llm.py:65) has asked
\* everybody that is configured; and whoever is asked comes after everybody that is
\* named before, in LLM_PROVIDER_ORDER or, by default, behind it.
FailsOnlyWhenAllFailed ==
  /\ outcome = "failed" => asked = Configured
  /\ \A name \in asked :
       \E k \in DOMAIN Preference :
         /\ Preference[k] = name
         /\ \A i \in 1..k : Preference[i] \in Configured => Preference[i] \in asked

\* "Providers are attempted in LLM_PROVIDER_ORDER; failures, HTTP 429
\* responses, and unavailable providers move to the next configured provider"
\* (README.md:386-387): a call that ends without an answer, however it ends, has
\* asked everybody.  The code does so only for the exceptions it names (llm.py:62).
FailuresMoveOn == outcome \in {"failed", "escaped"} => asked = Configured

=============================================================================
