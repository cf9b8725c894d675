--------------------------- MODULE MCHookPipeline ---------------------------
(* Small instances of HookPipeline: a mutation, a direct run, a retry, and *)
(* several configurations of the hooks.                                    *)
EXTENDS HookPipeline, TLC

CONSTANTS c1, c2, u1, u2, blank, bad

MCCallers == {c1, c2}

TwoOfThem == <<"cloudflare", "google_indexing">>
Google == <<"google_indexing">>
MCMalformed == {bad}

Mutation(urls) == [tool |-> "mutation", action |-> "URL_UPDATED", urls |-> urls, picks |-> 0]
Run(action, urls) ==
    [tool |-> "run_post_build_hooks", action |-> action, urls |-> urls, picks |-> 0]
Retry(n) == [tool |-> "retry_hook_jobs", action |-> "", urls |-> <<>>, picks |-> n]

On(calls, enabled, maxRetries) ==
    [calls |-> calls, enabled |-> enabled, batch |-> enabled \cap {"cloudflare"},
     dryRun |-> FALSE, postBuild |-> TRUE, maxRetries |-> maxRetries]

\* A page changed, and someone retries a job while its hooks run; one provider
\* is switched off.
ChangeAndRetry == On(c1 :> Mutation(<<u1>>) @@ c2 :> Retry(1), {"cloudflare"}, 1)

\* A page changed with both providers on, and a mutation without a URL.
BothLive == On(c1 :> Mutation(<<u1>>) @@ c2 :> Mutation(<<blank>>),
               {"cloudflare", "google_indexing"}, 2)

\* A URL that is rejected by both providers, an action rejected by one.
Rejecting == On(c1 :> Run("URL_UPDATED", <<u2, bad>>) @@ c2 :> Run("PURGE", <<u1>>),
                {"cloudflare", "google_indexing"}, 1)

\* An event with a blank and a repeated URL; the attempts are the default five.
OddInputs == On(c1 :> Run("URL_UPDATED", <<u1, blank, u2, u1>>)
                  @@ c2 :> Mutation(<<>>), {"cloudflare", "google_indexing"}, 5)

\* The rejected calls with the dry run on, or with the hooks off.
Dry      == [Rejecting EXCEPT !.dryRun = TRUE]
Disabled == [Rejecting EXCEPT !.postBuild = FALSE]

AnySetup == {ChangeAndRetry, BothLive, Rejecting, OddInputs, Dry, Disabled}

\* Two URLs in one direct run, and the default retry after it.
TwoUrls == {On(c1 :> Run("URL_UPDATED", <<u1, u2>>) @@ c2 :> Retry(0),
               {"google_indexing"}, 2)}
=============================================================================
