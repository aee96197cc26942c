------------------------- MODULE InvoiceStateMachine -------------------------
(***************************************************************************)
(* The invoice state machine of src/state_machine.rs: which transitions    *)
(* exist, how a handler asks for one, and what it gets back.  The module   *)
(* has no variables; the invoices themselves live in module Payments.      *)
(*                                                                         *)
(* A Rust Result<InvoiceState> is a value that is either in InvoiceState   *)
(* or in TransitionError.                                                  *)
(***************************************************************************)

\* models.rs, enum InvoiceState
InvoiceState == {"draft", "open", "paid", "void", "uncollectible"}

\* state_machine.rs, enum Transition
Transition == {"MarkOpen", "MarkPaid", "MarkVoid", "MarkUncollectible"}

\* The two AppError variants the state machine returns.
TransitionError == {"AlreadyPaid", "InvalidStateTransition"}

\* Transition::apply, arm by arm; every arm without a target state is an error.
Apply(current, t) ==
  CASE current = "draft" /\ t = "MarkOpen"         -> "open"
    [] current = "draft" /\ t = "MarkVoid"         -> "void"
    [] current = "open" /\ t = "MarkPaid"          -> "paid"
    [] current = "open" /\ t = "MarkVoid"          -> "void"
    [] current = "open" /\ t = "MarkUncollectible" -> "uncollectible"
    [] current = "paid"                            -> "AlreadyPaid"
    [] OTHER                                       -> "InvalidStateTransition"

\* Transition::is_terminal
IsTerminal(state) == state \in {"paid", "void", "uncollectible"}

\* Transition::allowed_transitions
AllowedTransitions(state) ==
  CASE state = "draft" -> {"MarkOpen", "MarkVoid"}
    [] state = "open"  -> {"MarkPaid", "MarkVoid", "MarkUncollectible"}
    [] OTHER           -> {}

\* The transition that leads to a target state (the match in validate_transition;
\* no transition leads to draft).
TransitionTo ==
  [open |-> "MarkOpen", paid |-> "MarkPaid", void |-> "MarkVoid",
   uncollectible |-> "MarkUncollectible"]

\* validate_transition
ValidateTransition(current, target) ==
  IF target # "draft" /\ TransitionTo[target] \in AllowedTransitions(current)
  THEN Apply(current, TransitionTo[target])
  ELSE "InvalidStateTransition"

\* Mutant of CanPay: only the dead states are refused.
CanPayUnlessDead(state) == state \notin {"void", "uncollectible"}

\* can_pay: the guard of the payment handler
CanPay(state) == state \in {"open", "draft"}

\* payment_result_transition: a failed payment leaves the invoice where it is
PaymentResultTransition(current, success) ==
  IF success THEN Apply(current, "MarkPaid") ELSE current

=============================================================================
