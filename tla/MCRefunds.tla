------------------------------ MODULE MCRefunds ------------------------------
(***************************************************************************)
(* Small instances of Refunds - two requests at a time, two refunds - and  *)
(* of BackOffice.  They share no step, so a behaviour is of one of them,   *)
(* as focus says, and the other stays in an initial state.                 *)
(***************************************************************************)
EXTENDS Refunds, TLC

CONSTANTS
  f1, f2, a, b, t1, t2, Foci,
  Disputes, Payouts, Rates, Costs, MaxChanges

VARIABLES
  focus,
  chain, amount, invoice, mails, dispute, settled, disputesRaced, verified, payout,
  reviewedLate, unverifiedPaid, rate, cached, readLate, changes, task

Symmetry == Permutations(RefundIds) \union Permutations(Slots)

Office == INSTANCE BackOffice WITH Requests <- Slots, Amounts <- Costs

ASSUME OfficeAssumption == Office!ConstantsAssumption

officeVars ==
  <<chain, amount, invoice, mails, dispute, settled, disputesRaced, verified, payout,
    reviewedLate, unverifiedPaid, rate, cached, readLate, changes, task>>

AnyOf(S) == CHOOSE x \in S : TRUE

InitOne ==
  /\ focus \in Foci
  /\ Init
  /\ Office!Init
  /\ focus # "papers" => chain = "none" /\ amount = AnyOf(Costs) /\ rate = AnyOf(Rates)

RefundStep == focus = "refunds" /\ Next /\ UNCHANGED <<focus, officeVars>>
PapersStep == focus = "papers" /\ Office!Next /\ UNCHANGED <<focus, vars>>

SpecOne == InitOne /\ [][RefundStep \/ PapersStep]_<<focus, vars, officeVars>>

\* Refunds and BackOffice keep the types of their variables.
TypesOK == TypeOK /\ Office!TypeOK

\* See BackOffice: one mail for one invoice of money that was paid, a dispute resolved
\* once, payouts to the verified, rates as stored.
PapersSound == Office!PapersSound
==============================================================================
