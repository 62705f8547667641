---------------------------- MODULE EosMessages -----------------------------
(***************************************************************************)
(* Actions that move tokens, as the contracts and their users send them:   *)
(* name is the action of contract code, from the account that authorizes   *)
(* it (the caller of mint and burn), to the other account it names, symbol *)
(* and amount the quantity.  A contract that is notified of an action sees *)
(* the same record, and reads code as get_first_receiver().                *)
(***************************************************************************)
Message(code, name, from, to, symbol, amount, memo) ==
    [code |-> code, name |-> name, from |-> from, to |-> to,
     symbol |-> symbol, amount |-> amount, memo |-> memo]

=============================================================================
