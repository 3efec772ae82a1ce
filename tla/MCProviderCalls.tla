---------------------------- MODULE MCProviderCalls ----------------------------
(* Instances of ProviderCalls and ProviderStreams for TLC. *)
EXTENDS ProviderCalls

MCProviders == {"openai", "completion", "embeddings", "anthropic", "invoke", "converse",
                "google", "litellm", "llamaindex", "responses", "langchain"}
=============================================================================
