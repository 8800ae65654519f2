---------------------------- MODULE LLMProviders ----------------------------
(* How the six adapters of ai-core/llm/providers translate what goes wrong *)
(* with a request into the exceptions the router acts on.                  *)

\* What can go wrong: HTTP 401, 403, 429 without and with a Retry-After
\* header, 400 for too long a context and for anything else, no answer in
\* time, 5xx or no connection, an answer without content, and one that is
\* not the JSON that was asked for.
Faults == {"unauthorized", "forbidden", "throttled", "throttledUntil",
           "tooLong", "badRequest", "timeout", "down", "empty", "garbled"}

\* The request itself was wrong: sending it again cannot help.
WrongRequest == {"unauthorized", "badRequest", "tooLong"}

\* The exceptions.  "rateText" is a rate limit whose retry_after is a text;
\* "python" is any exception that is not an LLMError.
Errors == {"auth", "rate", "rateText", "timeout", "unavailable", "context",
           "llm", "parse", "python"}

Kinds == {"claude", "openai", "deepseek", "gemini", "gigachat", "yandexgpt"}

\* Only 401 is an AuthenticationError of the SDK; 403 is one more APIError.
Claude(f) ==
  CASE f = "unauthorized" -> {"auth"}
    [] f \in {"throttled", "throttledUntil"} -> {"rate"}
    [] f = "tooLong" -> {"context"}
    [] f \in {"badRequest", "empty"} -> {"llm"}
    [] f = "timeout" -> {"timeout"}
    [] f \in {"forbidden", "down"} -> {"unavailable"}

\* As Claude, but an answer without choices is an IndexError.
OpenAI(f) == IF f = "empty" THEN {"python"} ELSE Claude(f)

\* The same SDK as OpenAI.
DeepSeek(f) == IF f = "empty" THEN {"python"} ELSE Claude(f)

\* The status of a ClientError is read from an attribute it may not have.
Gemini(f) ==
  CASE f \in {"unauthorized", "forbidden"} -> {"auth", "llm"}
    [] f \in {"throttled", "throttledUntil"} -> {"rate", "llm"}
    [] f = "tooLong" -> {"context", "llm"}
    [] f \in {"badRequest", "empty"} -> {"llm"}
    [] f = "timeout" -> {"timeout"}
    [] f = "down" -> {"unavailable"}

\* Everything is read from the text of the exception; a timeout is one only
\* if the text says "timeout", and a 400 is like no answer at all.
GigaChat(f) ==
  CASE f \in {"unauthorized", "forbidden"} -> {"auth"}
    [] f \in {"throttled", "throttledUntil"} -> {"rate"}
    [] f = "timeout" -> {"timeout", "unavailable"}
    [] f \in {"tooLong", "badRequest", "down"} -> {"unavailable"}
    [] f = "empty" -> {"llm"}

\* retry_after is the header as it came.
YandexGPT(f) ==
  CASE f \in {"unauthorized", "forbidden"} -> {"auth"}
    [] f = "throttled" -> {"rate"}
    [] f = "throttledUntil" -> {"rateText"}
    [] f = "tooLong" -> {"context"}
    [] f \in {"badRequest", "empty"} -> {"llm"}
    [] f = "timeout" -> {"timeout"}
    [] f = "down" -> {"unavailable"}

\* Embeddings: only OpenAI has them, and asks for fewer distinctions.
Embed(kind, f) ==
  CASE kind = "openai" -> IF f \in {"unauthorized", "throttled", "throttledUntil"}
                          THEN OpenAI(f) ELSE {"unavailable"}
    [] kind = "gemini" -> IF f \in {"unauthorized", "forbidden", "throttled"}
                          THEN {"auth", "rate", "unavailable"} ELSE {"unavailable"}
    [] kind \in Kinds \ {"openai", "gemini"} -> {"python"}

Completion(kind, f) ==
  CASE kind = "claude" -> Claude(f)
    [] kind = "openai" -> OpenAI(f)
    [] kind = "deepseek" -> DeepSeek(f)
    [] kind = "gemini" -> Gemini(f)
    [] kind = "gigachat" -> GigaChat(f)
    [] kind = "yandexgpt" -> YandexGPT(f)

\* The answer is parsed by classify() and extract(); a confidence outside
\* [0, 1] is an error of its own.
Parse(op) == CASE op = "classify" -> {"parse", "python"}
               [] op = "extract" -> {"parse"}
               [] op \in {"complete", "embed"} -> {}

\* The exceptions an operation of an adapter may raise for a fault.
Raised(kind, op, f) ==
  CASE f = "garbled" -> Parse(op)
    [] op = "embed" /\ f # "garbled" -> Embed(kind, f)
    [] op # "embed" /\ f # "garbled" -> Completion(kind, f)
=============================================================================
