----------------------------- MODULE MCGateway -----------------------------
(* TLC instance of Gateway: a model of two features, entries that the      *)
(* registry lets through although they are not quite models, and requests  *)
(* that take every branch of the two inference routes.                     *)
EXTENDS Gateway, TLC

CONSTANTS logistic, loose, flat, partial, unknown, alice, bob

MCModels == {logistic, loose, flat, partial}

Sound == [dimension |-> 2, limit |-> 2, floats |-> {}, parameters |-> TRUE,
          activation |-> "ciphertext"]

(* loose has 2.0 twice, flat a constant for a polynomial, partial neither  *)
(* weights nor polynomial.                                                 *)
MCEntry ==
    (logistic :> Sound) @@
    (loose :> [Sound EXCEPT !.floats = {"dimension", "batch"}]) @@
    (flat :> [Sound EXCEPT !.activation = "number"]) @@
    (partial :> [Sound EXCEPT !.parameters = FALSE, !.activation = "absent"])

Good == [route |-> "infer", wellFormed |-> TRUE, model |-> logistic, arity |-> 2,
         sound |-> TRUE, batch |-> 2, finite |-> TRUE, sample |-> alice]

Plain == [Good EXCEPT !.route = "plain", !.batch = 1]

(* One request per outcome of the validation, two that succeed on /infer.  *)
AllRequests ==
    {Good,
     [Good EXCEPT !.sample = bob],
     [Good EXCEPT !.wellFormed = FALSE],
     [Good EXCEPT !.model = unknown],
     [Good EXCEPT !.batch = 3],
     [Good EXCEPT !.arity = 3],
     [Good EXCEPT !.arity = 1],          \* the pre-aggregated ciphertext
     [Good EXCEPT !.sound = FALSE],
     Plain,
     [Plain EXCEPT !.arity = 1]}

(* One request per way through a handler: refused with 400, 404 or 500,    *)
(* failed in the evaluation, completed, each by either route; a batch      *)
(* above a limit that is not enforced; a result that is no JSON.           *)
EveryOutcome ==
    {Good, Plain,
     [Good EXCEPT !.model = unknown],
     [Good EXCEPT !.batch = 3],
     [Good EXCEPT !.arity = 1],
     [Good EXCEPT !.model = loose, !.batch = 3],
     [Good EXCEPT !.model = flat],
     [Plain EXCEPT !.arity = 1],
     [Plain EXCEPT !.model = loose],
     [Plain EXCEPT !.model = flat],
     [Plain EXCEPT !.model = partial],
     [Plain EXCEPT !.finite = FALSE]}

(* The requests that get as far as a job.                                  *)
JobRequests == {Good, [Good EXCEPT !.sample = bob], Plain}

ThreadsAndClients == Permutations(Threads) \cup Permutations(Clients)
============================================================================
