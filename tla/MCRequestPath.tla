---------------------------- MODULE MCRequestPath ----------------------------
(***************************************************************************)
(* A small instance of RequestPath: proxied requests and a health check of *)
(* one domain, and requests that are refused for their form.               *)
(***************************************************************************)
EXTENDS RequestPath

MCInputs ==
  {[route |-> "proxy",  token |-> TRUE,  domain |-> "api"],
   [route |-> "proxy",  token |-> TRUE,  domain |-> "bad url"],
   [route |-> "proxy",  token |-> FALSE, domain |-> "api"],
   [route |-> "health", token |-> FALSE, domain |-> "api"]}

=============================================================================
