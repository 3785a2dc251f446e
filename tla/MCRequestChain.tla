---------------------------- MODULE MCRequestChain ----------------------------
(* RequestChain with two requests, two tokens and two passes per window.       *)
EXTENDS RequestChain
===============================================================================
