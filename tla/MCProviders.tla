---------------------------- MODULE MCProviders ----------------------------
(***************************************************************************)
(* A small instance of Providers for TLC.                                  *)
(***************************************************************************)
EXTENDS Providers

MCRequest ==
    [provider: {"openai", "anthropic"}, stream: BOOLEAN]
    \cup [provider: {"echo", "ollama"}, stream: BOOLEAN]
=============================================================================
