------------------------------ MODULE Account -------------------------------
(***************************************************************************)
(* What billing promises of a guest's account (docs/PMS_WORKFLOWS.md, the    *)
(* comments of modules/billing and modules/idempotency): no more is credited *)
(* than was charged and no more paid back than was paid, a payment takes no  *)
(* more than what is owed, only an account that owes nothing is settled, and *)
(* a request takes effect once, however often it is sent while its key lives. *)
(***************************************************************************)
EXTENDS Naturals

CONSTANTS Keys, MaxLives

VARIABLES charged,  \* charges, less what was credited of them
          paid,     \* payments, less what was voided and refunded of them
          settled,  \* the account is confirmed as settled
          life,     \* life[k]: how often key k has been free
          ran       \* ran[k]: how often a request with key k took effect

vars == <<charged, paid, settled, life, ran>>

Init ==
  /\ charged = 0 /\ paid = 0 /\ settled = FALSE
  /\ life = [k \in Keys |-> 1] /\ ran = [k \in Keys |-> 0]

Charge == charged' >= charged /\ settled' = FALSE /\ UNCHANGED paid
Credit == charged' \in 0..charged /\ settled' = FALSE /\ UNCHANGED paid
Pay == paid' \in paid..charged /\ settled' = FALSE /\ UNCHANGED charged
PayBack == paid' \in 0..paid /\ settled' = FALSE /\ UNCHANGED charged

Request(k) ==
  /\ ran[k] < life[k]
  /\ ran' = [ran EXCEPT ![k] = @ + 1]
  /\ \/ UNCHANGED <<charged, paid, settled>>
     \/ Charge \/ Credit \/ Pay \/ PayBack
  /\ UNCHANGED life

Night == Charge /\ UNCHANGED <<life, ran>>

Settle == charged = paid /\ settled' = TRUE /\ UNCHANGED <<charged, paid, life, ran>>

\* A key that was used is free again.
Free(k) ==
  /\ ran[k] = life[k] /\ life[k] < MaxLives
  /\ life' = [life EXCEPT ![k] = @ + 1]
  /\ UNCHANGED <<charged, paid, settled, ran>>

Next ==
  \/ Night \/ Settle
  \/ \E k \in Keys : Request(k) \/ Free(k)

Spec == Init /\ [][Next]_vars
=============================================================================
