--------------------------- MODULE MCProviderBudget ---------------------------
(* Instances of ProviderBudget for TLC; see the configurations.             *)
EXTENDS ProviderBudget

\* Few retries of token counts, which act alike; a cancellation while a request is under
\* way; a resume after one call at most; a job that is over does nothing.
Small ==
  /\ counts <= calls + 1
  /\ cancel => at \in {"counting", "inferring", "overran", "output"}
  /\ status = "queued" => calls <= 1
  /\ status # "over"
=============================================================================
