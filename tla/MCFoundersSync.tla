---------------------------- MODULE MCFoundersSync --------------------------
EXTENDS FoundersSync

\* An order that names a provider twice, with another between, one that is not
\* configured, and leaves one of the configured ones out.
TwiceNvidia == <<"nvidia", "ollama_cloud", "ollama", "nvidia">>

=============================================================================
