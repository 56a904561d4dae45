---------------------------- MODULE MCModelCalls ----------------------------
(***************************************************************************)
(* Four documents in chunks of two, two tries per request, two attempts.   *)
(* The failures cover every class of codes the rules tell apart.           *)
(***************************************************************************)
EXTENDS ModelCalls

Failures == {
    [status |-> 429, message |-> {"rate limit"}, delay |-> "short"],
    [status |-> 429, message |-> {"exhausted"}, delay |-> "none"],
    [status |-> 503, message |-> {"overloaded"}, delay |-> "none"],
    [status |-> 401, message |-> {"api key"}, delay |-> "none"],
    [status |-> 404, message |-> {"not found", "model not found"}, delay |-> "none"],
    [status |-> 0, message |-> {"socket", "hang up"}, delay |-> "none"],
    [status |-> 0, message |-> {"limit exceeded", "token limit exceeded"}, delay |-> "none"],
    [status |-> 400, message |-> {}, delay |-> "none"] }

GitMessages == {{"could not resolve host"}, {"timed out"}, {"authentication failed"},
                {"repository not found", "not found"}, {}}
=============================================================================
