----------------------------- MODULE PspGateway -----------------------------
(***************************************************************************)
(* The payment service provider seen over HTTP: what the mock PSP answers  *)
(* to each card token (src/mock_psp.rs) and what the client makes of an    *)
(* answer (src/psp_client.rs).  No variables; module Payments sends the    *)
(* calls.                                                                  *)
(*                                                                         *)
(* An answer carries the HTTP status, the payment status, whether there is *)
(* a psp_ref and the error code; "none" stands for an absent code.  The    *)
(* client's Result is an answer's payment status, or "error" for any Err.  *)
(***************************************************************************)
EXTENDS Naturals

CardTokens == {"tok_success", "tok_insufficient_funds", "tok_card_declined",
               "tok_timeout", "tok_network_error", "tok_other"}

ErrorCodes == {"none", "insufficient_funds", "card_declined", "network_error",
               "invalid_token", "psp_error"}

\* The JSON body of a declined payment, under an HTTP status
Declined(http, code) ==
  [http |-> http, status |-> "failed", psp_ref |-> FALSE, code |-> code]

Approved ==
  [http |-> 200, status |-> "succeeded", psp_ref |-> TRUE, code |-> "none"]

\* process_mock_payment: the answer is a function of the token alone.  The
\* Idempotency-Key header the client sends is not read.
MockAnswer(token) ==
  CASE token \in {"tok_success", "tok_timeout"} -> Approved
    [] token = "tok_insufficient_funds" -> Declined(200, "insufficient_funds")
    [] token = "tok_card_declined"      -> Declined(200, "card_declined")
    [] token = "tok_network_error"      -> Declined(500, "network_error")
    [] OTHER                            -> Declined(400, "invalid_token")

\* How long the mock PSP sleeps before it answers, in milliseconds
MockDelayMs(token) ==
  CASE token = "tok_timeout" -> 30000
    [] token = "tok_other"   -> 0
    [] OTHER                 -> 100

\* MockPspClient::new: the request timeout, in milliseconds
ClientTimeoutMs == 35000

\* The client's timer runs out before the mock PSP answers this token.
TimesOut(token) == MockDelayMs(token) >= ClientTimeoutMs

\* MockPspClient::process_payment on an answer that arrived: a status other than
\* 2xx is an error, and so is a body without the field its status requires.
ClientResult(answer) ==
  IF \/ answer.http # 200
     \/ answer.status = "succeeded" /\ ~answer.psp_ref
     \/ answer.status = "failed" /\ answer.code = "none"
  THEN "error"
  ELSE answer.status

=============================================================================
