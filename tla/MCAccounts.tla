---------------------------- MODULE MCAccounts ------------------------------
(***************************************************************************)
(* Model checking of the components behind a tenant's dashboard: sign-in,  *)
(* links, plans, API keys and lists (Accounts), and the webhooks that      *)
(* report to tenants (Webhooks).  They share no state in the model, so     *)
(* a behaviour runs one of them, the initial area, while the others keep   *)
(* one initial state: the states checked are the sum of the components'    *)
(* states, not their product.                                              *)
(***************************************************************************)
EXTENDS Accounts, Webhooks, TLC

VARIABLE area

OneTenant == [s \in Subs |-> "t"]
AllEvents == [s \in Subs |-> Events]

(* Three spellings, of which the domain is compared in lower case. *)
Addresses == {[local |-> "Bob", domain |-> "EX"], [local |-> "Bob", domain |-> "ex"],
              [local |-> "bob", domain |-> "ex"]}

allVars == <<area, accountsVars, vars>>

InitArea ==
  /\ area \in {"sessions", "links", "billing", "keys", "webhooks", "lists"}
  /\ AccountsInit /\ (area # "sessions" => acct = H!NoHuman)
                  /\ (area # "links" => org = {} /\ humans = {"o"})
                  /\ (area # "keys" => keys[1].exp = 1)
                  /\ (area # "lists" =>
                        /\ contacts[1] = [at |-> 0, key |-> [local |-> "Bob", domain |-> "ex"]]
                        /\ contacts[2].at = 0)
  /\ Init

(* bound: of a crash or failing call, a late worker and a Disable, at most *)
(* two meet in one behaviour of the webhooks.                              *)
MaxTroubles == 2

NextOfArea ==
  /\ UNCHANGED area
  /\ \/ area = "sessions" /\ StepOfSessions /\ UNCHANGED vars
     \/ area = "links" /\ StepOfLinks /\ UNCHANGED vars
     \/ area = "billing" /\ StepOfBilling /\ UNCHANGED vars
     \/ area = "keys" /\ StepOfKeys /\ UNCHANGED vars
     \/ area = "lists" /\ StepOfLists /\ UNCHANGED vars
     \/ area = "webhooks" /\ Next /\ UNCHANGED accountsVars
        /\ faults' + forced' + disables' <= MaxTroubles

SpecOfAreas == InitArea /\ [][NextOfArea]_allVars

(* Processes are interchangeable.                                          *)
Interchangeable == Permutations(Procs)
=============================================================================
